---------------------- MODULE InstrumentRegistryProofs ----------------------
(***************************************************************************)
(* What InstrumentRegistry keeps for any contracts, symbols and universe:  *)
(* a symbol has one instrument in the registry, active or not, and once    *)
(* synced every active instrument holds the symbol under which the         *)
(* exchange lists a contract of its key.                                   *)
(*                                                                         *)
(* Synced folds the rows of a master over the registry.  What its fold     *)
(* keeps is PassOK: the keys seen so far hold the symbols of their rows.   *)
(* It is kept because a row never takes a symbol from another instrument,  *)
(* and what is not among the seen ones is deactivated at the end.          *)
(***************************************************************************)
EXTENDS InstrumentRegistry, SequenceTheorems, WellFoundedInduction, TLAPS

-----------------------------------------------------------------------------
(* Folds over the rows.                                                     *)

\* A set of naturals has a least member.
LEMMA Least ==
    ASSUME NEW T \in SUBSET Nat, T # {}
    PROVE  \E x \in T : \A y \in T : x <= y
<1> DEFINE R == {s \in Nat \X Nat : s[1] < s[2]}
<1>1. IsWellFoundedOn(R, Nat)
  BY NatLessThanWellFounded DEF OpToRel
<1>2. PICK x \in T : \A y \in T : <<y, x>> \notin R
  BY <1>1, WFMin
<1>3. \A y \in T : ~(y < x)
  <2>1. TAKE y \in T
  <2>2. <<y, x>> \in Nat \X Nat /\ <<y, x>>[1] = y /\ <<y, x>>[2] = x
    OBVIOUS
  <2>3. QED BY <1>2, <2>2
<1>4. QED BY <1>3

\* What an interval holds at or above its end is its end.
LEMMA AtTop ==
    ASSUME NEW n \in Nat, NEW x \in 1..n, x >= n
    PROVE  x = n
OBVIOUS

\* The greatest of some indices that hold the last one is the last one.
LEMMA MaxOfInterval ==
    ASSUME NEW n \in Nat, NEW s \in SUBSET (1..n), n \in s
    PROVE  Max(s) = n
<1>1. n \in s /\ \A y \in s : n >= y
  OBVIOUS
<1>2. Max(s) \in s /\ \A y \in s : Max(s) >= y
  BY <1>1 DEF Max
<1>3. Max(s) \in 1..n /\ Max(s) >= n
  BY <1>1, <1>2
<1> QED BY <1>3, AtTop

-----------------------------------------------------------------------------
(* A sync.                                                                  *)

Inst(x) ==
    x = [kind |-> x.kind, und |-> x.und, symbol |-> x.symbol, active |-> x.active,
         tracked |-> x.tracked]

\* Every instrument has its fields, and no two the same symbol.
RegOK(g) ==
    /\ \A k \in DOMAIN g : Inst(g[k])
    /\ \A j, k \in DOMAIN g : g[j].symbol = g[k].symbol => j = k

\* The symbol of x is that of a listed contract of key k.
Theirs(k, x) == \E c \in DOMAIN listing : Key(c) = k /\ listing[c] = x.symbol

\* The state of a sync between two rows.
PassOK(st) ==
    /\ RegOK(st.reg)
    /\ \A k \in st.seen : k \in DOMAIN st.reg /\ Theirs(k, st.reg[k])

\* A row that says what the exchange lists.
Listed(row) == row.contract \in DOMAIN listing /\ row.symbol = listing[row.contract]

\* Persisting a row: a symbol of another instrument quarantines it.
LEMMA RowKeeps ==
    ASSUME NEW st, PassOK(st), NEW row, Listed(row), NEW und
    PROVE  PassOK(PersistRow(st, row, und))
<1> DEFINE k == Key(row.contract)
           new == [kind |-> row.contract.kind, und |-> und, symbol |-> row.symbol, active |-> TRUE,
                   tracked |-> k \in DOMAIN st.reg /\ st.reg[k].tracked]
           g == Put(st.reg, k, new)
           res == [reg |-> g, seen |-> st.seen \cup {k}]
<1>1. \/ PersistRow(st, row, und) = st
      \/ PersistRow(st, row, und) = res /\ Owners(st.reg, row.symbol) \ {k} = {}
  BY DEF PersistRow
<1> SUFFICES ASSUME Owners(st.reg, row.symbol) \ {k} = {} PROVE PassOK(res)
  BY <1>1
<1>2. g = [x \in DOMAIN st.reg \cup {k} |-> IF x = k THEN new ELSE st.reg[x]]
  BY DEF Put
<1>3. new.symbol = row.symbol /\ Inst(new)
  BY DEF Inst
<1>4. Key(row.contract) = k
  OBVIOUS
<1> HIDE DEF new, k
<1>5. DOMAIN g = {k} \cup DOMAIN st.reg /\ g[k] = new /\ \A x \in DOMAIN st.reg : x # k => g[x] = st.reg[x]
  BY <1>2
<1> HIDE DEF g
<1>6. RegOK(g)
  <2>1. \A x \in DOMAIN g : Inst(g[x])
    BY <1>3, <1>5 DEF PassOK, RegOK
  <2>2. \A x \in DOMAIN st.reg : x # k => st.reg[x].symbol # row.symbol
    BY DEF Owners
  <2>3. \A x, y \in DOMAIN g : g[x].symbol = g[y].symbol => x = y
    BY <2>2, <1>3, <1>5 DEF PassOK, RegOK
  <2> QED BY <2>1, <2>3 DEF RegOK
<1>7. ASSUME NEW x \in st.seen \cup {k}
      PROVE  x \in DOMAIN g /\ Theirs(x, g[x])
  <2>1. CASE x = k
    BY <2>1, <1>3, <1>4, <1>5 DEF Listed, Theirs
  <2>2. CASE x # k
    BY <2>2, <1>5, <1>7 DEF PassOK
  <2> QED BY <2>1, <2>2
<1>8. res.reg = g /\ res.seen = st.seen \cup {k}
  OBVIOUS
<1> HIDE DEF res
<1> QED BY <1>6, <1>7, <1>8 DEF PassOK

\* A row of the master, an index or a derivative.
LEMMA SyncRowKeeps ==
    ASSUME NEW st, PassOK(st), NEW row, Listed(row)
    PROVE  PassOK(SyncRow(st, row))
<1>1. \/ SyncRow(st, row) = st
      \/ \E und : SyncRow(st, row) = PersistRow(st, row, und)
  BY Zenon DEF SyncRow
<1> QED BY <1>1, RowKeeps

\* The fold over the rows: its recursive function exists for every number of
\* contracts, and each of its values keeps PassOK.
LEMMA PassKeeps ==
    ASSUME NEW start, PassOK(start), NEW rows, \A r \in rows : Listed(r)
    PROVE  PassOK(Pass(start, rows))
<1> DEFINE n == Len(Order)
           step(st, c) == IF c \in {r.contract : r \in rows}
                          THEN SyncRow(st, CHOOSE r \in rows : r.contract = c) ELSE st
           IsFold(f, m) == f = [s \in SUBSET (1..m) |->
                                  IF s = {} THEN start ELSE step(f[s \ {Max(s)}], Order[Max(s)])]
           fold == CHOOSE f : IsFold(f, n)
<1>1. n \in Nat /\ DOMAIN Order = 1..n
  BY ConfigAssumption
<1>2. Pass(start, rows) = fold[1..n]
  BY <1>1 DEF Pass, FoldLeft, MapThenFoldSet
<1> HIDE DEF step
<1>3. ASSUME NEW m \in Nat, NEW f, IsFold(f, m)
      PROVE  \E g : IsFold(g, m + 1)
  <2> DEFINE g == [s \in SUBSET (1..(m + 1)) |->
                     IF m + 1 \in s THEN step(f[s \ {m + 1}], Order[m + 1]) ELSE f[s]]
  <2>1. ASSUME NEW s \in SUBSET (1..(m + 1))
        PROVE  g[s] = IF s = {} THEN start ELSE step(g[s \ {Max(s)}], Order[Max(s)])
    <3>1. CASE m + 1 \in s
      <4>1. Max(s) = m + 1
        BY <3>1, MaxOfInterval
      <4>2. s \ {m + 1} \in SUBSET (1..m) /\ s \ {m + 1} \in SUBSET (1..(m + 1)) /\ s # {}
        BY <3>1
      <4>3. g[s \ {m + 1}] = f[s \ {m + 1}]
        BY <4>2
      <4> QED BY <3>1, <4>1, <4>2, <4>3
    <3>2. CASE m + 1 \notin s
      <4>1. s \in SUBSET (1..m) /\ s \ {Max(s)} \in SUBSET (1..m)
            /\ s \ {Max(s)} \in SUBSET (1..(m + 1)) /\ m + 1 \notin s \ {Max(s)}
        <5>1. \A x \in 1..(m + 1) : x # m + 1 => x \in 1..m
          OBVIOUS
        <5>2. \A x \in 1..m : x \in 1..(m + 1)
          OBVIOUS
        <5>3. s \in SUBSET (1..m)
          BY <3>2, <5>1, <2>1
        <5> QED BY <3>2, <5>2, <5>3
      <4>2. g[s] = f[s] /\ g[s \ {Max(s)}] = f[s \ {Max(s)}]
        BY <3>2, <4>1
      <4>3. f[s] = IF s = {} THEN start ELSE step(f[s \ {Max(s)}], Order[Max(s)])
        BY <1>3, <4>1
      <4> QED BY <4>2, <4>3
    <3> QED BY <3>1, <3>2
  <2>2. IsFold(g, m + 1)
    BY <2>1
  <2> QED BY <2>2
<1>4. \A m \in Nat : \E f : IsFold(f, m)
  <2> DEFINE T == {m \in Nat : ~ \E f : IsFold(f, m)}
  <2>1. SUFFICES ASSUME T # {} PROVE FALSE
    OBVIOUS
  <2>2. T \in SUBSET Nat
    OBVIOUS
  <2>3. PICK m \in T : \A y \in T : m <= y
    BY <2>1, <2>2, Least
  <2>4. m # 0
    <3>1. IsFold([s \in SUBSET (1..0) |-> start], 0)
      <4>1. \A s \in SUBSET (1..0) : s = {}
        OBVIOUS
      <4> QED BY <4>1
    <3> QED BY <3>1
  <2>5. m \in Nat /\ m - 1 \in Nat /\ ~(m <= m - 1) /\ m - 1 + 1 = m
    BY <2>2, <2>4
  <2>6. m - 1 \notin T
    BY <2>3, <2>5
  <2>7. PICK f : IsFold(f, m - 1)
    BY <2>5, <2>6
  <2> HIDE DEF IsFold
  <2>8. \E g : IsFold(g, m - 1 + 1)
    BY <2>5, <2>7, <1>3
  <2> QED BY <2>3, <2>5, <2>8
<1>5. IsFold(fold, n)
  BY <1>1, <1>4
<1> HIDE DEF fold
<1>6. ASSUME NEW m \in 1..n
      PROVE  fold[1..m] = step(fold[1..(m - 1)], Order[m])
  <2>1. 1..m \in SUBSET (1..n) /\ 1..m # {} /\ m \in Nat /\ m \in 1..m /\ (1..m) \ {m} = 1..(m - 1)
    BY <1>1
  <2>2. Max(1..m) = m
    BY <2>1, MaxOfInterval
  <2>3. fold[1..m] = step(fold[(1..m) \ {Max(1..m)}], Order[Max(1..m)])
    BY <2>1, <1>5
  <2> QED BY <2>1, <2>2, <2>3
<1>7. fold[1..0] = start
  <2>1. 1..0 = {} /\ 1..0 \in SUBSET (1..n)
    OBVIOUS
  <2> QED BY <2>1, <1>5
<1>8. ASSUME NEW st, PassOK(st), NEW c PROVE PassOK(step(st, c))
  <2>1. CASE c \in {r.contract : r \in rows}
    <3>1. (CHOOSE r \in rows : r.contract = c) \in rows
      BY <2>1
    <3>2. step(st, c) = SyncRow(st, CHOOSE r \in rows : r.contract = c)
      BY <2>1 DEF step
    <3> QED BY <3>1, <3>2, <1>8, SyncRowKeeps
  <2>2. CASE c \notin {r.contract : r \in rows}
    BY <2>2, <1>8 DEF step
  <2> QED BY <2>1, <2>2
<1> HIDE DEF IsFold
<1>9. \A m \in 0..n : PassOK(fold[1..m])
  <2> DEFINE T == {m \in 0..n : ~PassOK(fold[1..m])}
  <2>1. SUFFICES ASSUME T # {} PROVE FALSE
    OBVIOUS
  <2>2. T \in SUBSET Nat
    OBVIOUS
  <2>3. PICK m \in T : \A y \in T : m <= y
    BY <2>1, <2>2, Least
  <2>4. m # 0
    BY <2>3, <1>7
  <2>5. m \in 1..n /\ m - 1 \in 0..n /\ ~(m <= m - 1)
    BY <2>3, <2>4, <1>1
  <2>6. PassOK(fold[1..(m - 1)])
    BY <2>3, <2>5
  <2> QED BY <2>3, <2>5, <2>6, <1>6, <1>8
<1>10. n \in 0..n
  BY <1>1
<1> QED BY <1>2, <1>9, <1>10

\* A whole sync, whatever was in the registry before.
LEMMA SyncedKeeps ==
    ASSUME NEW rows, \A r \in rows : Listed(r), RegOK(reg)
    PROVE  /\ RegOK(Synced(rows))
           /\ \A k \in DOMAIN Synced(rows) : Synced(rows)[k].active => Theirs(k, Synced(rows)[k])
<1> DEFINE indices == {r \in rows : r.contract.kind = "INDEX"}
           first == Pass([reg |-> reg, seen |-> {}], indices)
           end == Pass(first, rows \ indices)
<1>1. PassOK([reg |-> reg, seen |-> {}])
  BY DEF PassOK
<1>2. PassOK(first)
  <2>1. \A r \in indices : Listed(r)
    OBVIOUS
  <2> HIDE DEF indices
  <2> QED BY <1>1, <2>1, PassKeeps
<1> HIDE DEF first
<1>3. PassOK(end)
  <2>1. \A r \in rows \ indices : Listed(r)
    OBVIOUS
  <2> HIDE DEF indices
  <2> QED BY <1>2, <2>1, PassKeeps
<1>4. Synced(rows) = [k \in DOMAIN end.reg |->
        IF k \in end.seen THEN end.reg[k] ELSE [end.reg[k] EXCEPT !.active = FALSE]]
  BY DEF Synced, Persisted, first
<1> HIDE DEF end
<1>5. ASSUME NEW k \in DOMAIN end.reg
      PROVE  LET x == Synced(rows)[k] IN
             Inst(x) /\ x.symbol = end.reg[k].symbol /\ (x.active => Theirs(k, x))
  <2>1. Inst(end.reg[k])
    BY <1>3 DEF PassOK, RegOK
  <2>2. CASE k \in end.seen
    BY <2>1, <2>2, <1>3, <1>4 DEF PassOK
  <2>3. CASE k \notin end.seen
    <3>1. Synced(rows)[k] = [end.reg[k] EXCEPT !.active = FALSE]
      BY <2>3, <1>4
    <3>2. Inst(Synced(rows)[k]) /\ Synced(rows)[k].symbol = end.reg[k].symbol
      BY <2>1, <3>1 DEF Inst
    <3>3. Synced(rows)[k].active = FALSE
      BY <2>1, <3>1 DEF Inst
    <3> QED BY <3>2, <3>3, Zenon
  <2> QED BY <2>2, <2>3
<1>6. DOMAIN Synced(rows) = DOMAIN end.reg
  BY <1>4
<1>7. RegOK(Synced(rows))
  BY <1>3, <1>5, <1>6 DEF PassOK, RegOK
<1> QED BY <1>5, <1>6, <1>7

-----------------------------------------------------------------------------
(* The actions.                                                             *)

RegInv == RegOK(reg) /\ SymbolsAreTheirs

\* Two instruments never share a symbol, whether active or not.
OneOwner == \A j, k \in DOMAIN reg : reg[j].symbol = reg[k].symbol => j = k

\* cli._sync.
LEMMA SyncKeeps == ASSUME RegInv, Sync PROVE RegInv'
<1>1. PICK f \in Flaws : reg' = Synced(Accepted(MasterRows(f)))
  BY DEF Sync
<1>2. \A r \in Accepted(MasterRows(f)) : Listed(r)
  BY DEF Accepted, MasterRows, Listed
<1>3. listing' = listing
  BY DEF Sync
<1> DEFINE rows == Accepted(MasterRows(f))
<1> HIDE DEF rows
<1>4. RegOK(reg') /\ \A k \in DOMAIN reg' : reg'[k].active => Theirs(k, reg'[k])
  BY <1>1, <1>2, SyncedKeeps DEF RegInv
<1> QED BY <1>3, <1>4 DEF RegInv, RegOK, Theirs, SymbolsAreTheirs

\* The roll syncs its plan, then sets what is tracked.
LEMMA RollKeeps == ASSUME RegInv, Roll PROVE RegInv'
<1>1. PICK f \in Flaws, spot \in Spots \cup {NoSpot} : reg' = Rolled(MasterRows(f), spot)
  BY DEF Roll
<1> DEFINE plan == Planned(MasterRows(f), spot)
           keys == {Key(r.contract) : r \in plan}
           g == Synced(Accepted(plan))
<1>2. \A r \in Accepted(plan) : Listed(r)
  <2>1. plan \subseteq MasterRows(f)
    BY DEF Planned
  <2>2. \A r \in MasterRows(f) : Listed(r)
    BY DEF MasterRows, Listed
  <2> HIDE DEF plan
  <2> QED BY <2>1, <2>2 DEF Accepted
<1>3. reg' = [k \in DOMAIN g |-> [g[k] EXCEPT !.tracked = k \in keys]] /\ listing' = listing
  BY <1>1 DEF Rolled, Roll
<1>4. RegOK(g) /\ \A k \in DOMAIN g : g[k].active => Theirs(k, g[k])
  <2> HIDE DEF plan
  <2> QED BY <1>2, SyncedKeeps DEF RegInv
<1> HIDE DEF g, keys
<1>5. ASSUME NEW k \in DOMAIN g
      PROVE Inst(reg'[k]) /\ reg'[k].active = g[k].active /\ reg'[k].symbol = g[k].symbol
  BY <1>3, <1>4 DEF RegOK, Inst
<1>6. DOMAIN reg' = DOMAIN g
  BY <1>3
<1> QED BY <1>3, <1>4, <1>5, <1>6 DEF RegInv, RegOK, Theirs, SymbolsAreTheirs

\* POST /instruments: a new key under a symbol that no instrument has.
LEMMA CreateKeeps == ASSUME RegInv, CreateInstrument PROVE RegInv'
<1>1. PICK c \in DOMAIN listing :
        /\ Owners(reg, listing[c]) = {}
        /\ reg' = Put(reg, Key(c),
               [kind |-> c.kind, symbol |-> listing[c], active |-> TRUE, tracked |-> TRUE,
                und |-> IF c.kind = "INDEX" THEN NoUnderlying ELSE Key(c.index)])
  BY DEF CreateInstrument
<1> DEFINE new == [kind |-> c.kind, symbol |-> listing[c], active |-> TRUE, tracked |-> TRUE,
                   und |-> IF c.kind = "INDEX" THEN NoUnderlying ELSE Key(c.index)]
<1>2. Inst(new) /\ new.symbol = listing[c]
  BY DEF Inst
<1>3. DOMAIN reg' = DOMAIN reg \cup {Key(c)} /\ reg'[Key(c)] = new
      /\ \A k \in DOMAIN reg : k # Key(c) => reg'[k] = reg[k]
  BY <1>1 DEF Put
<1>4. listing' = listing /\ synced' = synced
  BY DEF CreateInstrument
<1>5. \A k \in DOMAIN reg : reg[k].symbol # listing[c]
  BY <1>1 DEF Owners
<1> HIDE DEF new
<1>6. RegOK(reg')
  <2>1. \A k \in DOMAIN reg' : Inst(reg'[k])
    BY <1>2, <1>3 DEF RegInv, RegOK
  <2>2. \A j, k \in DOMAIN reg' : reg'[j].symbol = reg'[k].symbol => j = k
    BY <1>2, <1>3, <1>5 DEF RegInv, RegOK
  <2> QED BY <2>1, <2>2 DEF RegOK
<1>7. SymbolsAreTheirs'
  BY <1>2, <1>3, <1>4 DEF RegInv, SymbolsAreTheirs
<1> QED BY <1>6, <1>7 DEF RegInv

\* PATCH /instruments/{id} changes is_tracked and nothing else.
LEMMA PatchKeeps == ASSUME RegInv, PatchTracked PROVE RegInv'
<1>1. PICK k \in DOMAIN reg : reg' = [reg EXCEPT ![k].tracked = ~@]
  BY DEF PatchTracked
<1>2. listing' = listing /\ synced' = synced
  BY DEF PatchTracked
<1>3. DOMAIN reg' = DOMAIN reg
  BY <1>1
<1>4. ASSUME NEW j \in DOMAIN reg
      PROVE  Inst(reg'[j]) /\ reg'[j].active = reg[j].active /\ reg'[j].symbol = reg[j].symbol
  <2>1. Inst(reg[j]) /\ (reg'[j] = reg[j] \/ reg'[j] = [reg[j] EXCEPT !.tracked = ~reg[j].tracked])
    BY <1>1 DEF RegInv, RegOK
  <2> QED BY <2>1 DEF Inst
<1> QED BY <1>2, <1>3, <1>4 DEF RegInv, RegOK, Theirs, SymbolsAreTheirs

\* RegInv is inductive.
LEMMA RegHolds == Spec => []RegInv
<1>1. Init => RegInv
  BY DEF Init, RegInv, RegOK, SymbolsAreTheirs
<1>2. RegInv /\ [Next]_vars => RegInv'
  <2> SUFFICES ASSUME RegInv, [Next]_vars PROVE RegInv'
    OBVIOUS
  <2>1. CASE NextDay \/ ListContract
    <3>1. reg' = reg /\ (synced' => synced /\ listing' = listing)
      BY <2>1 DEF NextDay, ListContract
    <3> QED BY <3>1 DEF RegInv, RegOK, Theirs, SymbolsAreTheirs
  <2>2. CASE UNCHANGED vars
    BY <2>2 DEF vars, RegInv, RegOK, SymbolsAreTheirs
  <2> QED BY <2>1, <2>2, SyncKeeps, RollKeeps, CreateKeeps, PatchKeeps DEF Next
<1> QED BY <1>1, <1>2, PTL DEF Spec

\* Once synced, an instrument that may be fetched is filled with the bars of the
\* contract it is named for, whatever expired, was renamed, or took the symbol
\* of another before.
THEOREM SymbolsHold == Spec => []SymbolsAreTheirs
<1>1. RegInv => SymbolsAreTheirs
  BY DEF RegInv
<1> QED BY <1>1, RegHolds, PTL

\* A symbol has one instrument in the registry, active or not: syncs, rolls and
\* POST /instruments each refuse a symbol that has an owner.
THEOREM OwnersHold == Spec => []OneOwner
<1>1. RegInv => OneOwner
  BY DEF RegInv, RegOK, OneOwner
<1> QED BY <1>1, RegHolds, PTL
=============================================================================

