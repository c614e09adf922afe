---------------------------- MODULE ProfileProofs ----------------------------
(***************************************************************************)
(* Proofs about MarketProfile and ProfileEvents, for any bars, widths,     *)
(* brackets and days: the expansion of the value area ends with a tight    *)
(* stretch of bins; the acceptance machines nest; the readings of a        *)
(* session do not contradict each other; and what a cycle stored of an     *)
(* event the later ones continue.                                          *)
(***************************************************************************)
EXTENDS ProfileEvents, FiniteSetTheorems, TLAPS

-----------------------------------------------------------------------------
(* Metrics, sums and extremes *)

IsMetric(m) ==
    /\ IsFiniteSet(DOMAIN m) /\ DOMAIN m \in SUBSET Int /\ DOMAIN m # {}
    /\ \A b \in DOMAIN m : m[b] \in Nat

\* The loop of the value area, for the facts about folds.
AreaStep(m, area, i) == IF Enough(m, area) THEN area ELSE Wider(m, area)
Area(m, poc, k) ==
    FoldLeft(LAMBDA a, i : IF Enough(m, a) THEN a ELSE Wider(m, a), {poc}, [i \in 1..k |-> i])

\* An area that is one stretch of the printed bins.
Stretch(m, area) ==
    /\ area \in SUBSET DOMAIN m /\ area # {}
    /\ \A b \in DOMAIN m : (\E x, y \in area : x <= b /\ b <= y) => b \in area

\* The bins that an expansion may have added last, on either side.
TopOf(area) == {b \in area : Cardinality({c \in area : c > b}) < Expansion}
BottomOf(area) == {b \in area : Cardinality({c \in area : c < b}) < Expansion}
Tight(m, area) == \E cut \in {TopOf(area), BottomOf(area)} : ~Enough(m, area \ cut)

\* What holds after k turns of the loop.
AreaOK(m, poc, k, area) ==
    /\ Stretch(m, area) /\ poc \in area
    /\ area = {poc} \/ Tight(m, area)
    /\ Enough(m, area) \/ Cardinality(area) > k
AreaHolds(e, k) == AreaOK(e[1], e[2], k, Area(e[1], e[2], k))

AreaFold == INSTANCE FoldFacts WITH Step <- AreaStep, Holds <- AreaHolds

\* The sums of the model are those of the facts about folds.
LEMMA SumIs == ASSUME NEW f, NEW S PROVE SumOf(f, S) = AreaFold!Sum(f, S)
BY DEF SumOf, AreaFold!Sum, MapThenSumSet, AreaFold!MapThenSumSet, MapThenFoldSet, AreaFold!MapThenFoldSet

\* Finite is finite, here and in the facts about folds.
LEMMA FiniteIs == ASSUME NEW S PROVE IsFiniteSet(S) <=> AreaFold!IsFiniteSet(S)
BY DEF IsFiniteSet, AreaFold!IsFiniteSet

\* The indices of a finite function are what its sums are over.
LEMMA SumsOver ==
    ASSUME NEW f, NEW D, \A x \in D : f[x] \in Nat
    PROVE  /\ \A S \in SUBSET D : IsFiniteSet(S) => SumOf(f, S) \in Nat
           /\ \A S, T \in SUBSET D : IsFiniteSet(T) /\ S \subseteq T => SumOf(f, S) <= SumOf(f, T)
<1>1. \A S \in SUBSET D : AreaFold!IsFiniteSet(S) => AreaFold!Sum(f, S) \in Nat
  BY AreaFold!SumNatural, ZenonT(30)
<1>2. \A S, T \in SUBSET D : AreaFold!IsFiniteSet(T) /\ S \subseteq T => AreaFold!Sum(f, S) <= AreaFold!Sum(f, T)
  BY AreaFold!SumGrows, ZenonT(30)
<1>3. \A S \in SUBSET D : /\ SumOf(f, S) = AreaFold!Sum(f, S)
                          /\ IsFiniteSet(S) <=> AreaFold!IsFiniteSet(S)
  BY SumIs, FiniteIs
<1>4. \A S \in SUBSET D : IsFiniteSet(S) => SumOf(f, S) \in Nat
  BY <1>1, <1>3
<1>5. ASSUME NEW S \in SUBSET D, NEW T \in SUBSET D, IsFiniteSet(T), S \subseteq T
      PROVE  SumOf(f, S) <= SumOf(f, T)
  <2>1. AreaFold!Sum(f, S) <= AreaFold!Sum(f, T)
    BY <1>2, <1>3, <1>5
  <2> QED BY <1>3, <2>1
<1> QED BY <1>4, <1>5

\* A sum of integers is an integer.
LEMMA SumsIntegral ==
    ASSUME NEW f, NEW D, IsFiniteSet(D), \A x \in D : f[x] \in Int
    PROVE  SumOf(f, D) \in Int
<1>1. \A S \in SUBSET D : AreaFold!IsFiniteSet(S) =>
          AreaFold!Sum(f, S) \in Int /\ \A x \in S : AreaFold!Sum(f, S) = f[x] + AreaFold!Sum(f, S \ {x})
  BY AreaFold!SumSplits, ZenonT(30)
<1> QED BY <1>1, SumIs, FiniteIs

\* What a metric sums up over its bins.
LEMMA MetricSums ==
    ASSUME NEW m, IsMetric(m)
    PROVE  /\ \A S \in SUBSET DOMAIN m : IsFiniteSet(S) /\ SumOf(m, S) \in Nat
           /\ \A S, T \in SUBSET DOMAIN m : S \subseteq T => SumOf(m, S) <= SumOf(m, T)
<1> DEFINE D == DOMAIN m
<1>1. \A b \in D : m[b] \in Nat
  BY DEF IsMetric
<1>2. \A S \in SUBSET D : IsFiniteSet(S)
  BY FS_Subset DEF IsMetric
<1> HIDE DEF D
<1>3. /\ \A S \in SUBSET D : IsFiniteSet(S) => SumOf(m, S) \in Nat
      /\ \A S, T \in SUBSET D : IsFiniteSet(T) /\ S \subseteq T => SumOf(m, S) <= SumOf(m, T)
  BY <1>1, SumsOver, Zenon
<1> QED BY <1>2, <1>3 DEF D

\* The extremes of a finite set of numbers are members of it, and bound it.
LEMMA Extremes ==
    ASSUME NEW S \in SUBSET Int, IsFiniteSet(S), S # {}
    PROVE  /\ Max(S) \in S /\ \A x \in S : x <= Max(S)
           /\ Min(S) \in S /\ \A x \in S : Min(S) <= x
<1>1. (\E x \in S : \A y \in S : x >= y) /\ (\E x \in S : \A y \in S : x <= y)
  BY AreaFold!GreatestExists, FiniteIs
<1>2. Max(S) \in S /\ \A x \in S : Max(S) >= x
  BY <1>1 DEF Max
<1>3. Min(S) \in S /\ \A x \in S : Min(S) <= x
  BY <1>1 DEF Min
<1>4. \A x \in S : Max(S) >= x => x <= Max(S)
  BY <1>2
<1> QED BY <1>2, <1>3, <1>4

-----------------------------------------------------------------------------
(* The value area *)

\* What a metric tells of an area that does not hold enough: it is not all.
LEMMA NotAll ==
    ASSUME NEW m, IsMetric(m), ~Enough(m, DOMAIN m) PROVE FALSE
<1>1. SumOf(m, DOMAIN m) \in Nat
  BY MetricSums
<1>2. ValueAreaPct \in 0..100
  BY ProfileAssumption
<1> DEFINE t == SumOf(m, DOMAIN m)
<1>3. 100 * t >= ValueAreaPct * t
  <2> HIDE DEF t
  <2>1. t \in Nat => 100 * t >= ValueAreaPct * t
    BY <1>2
  <2> QED BY <1>1, <2>1 DEF t
<1> QED BY <1>3 DEF Enough

\* An area is enough if a part of it is.
LEMMA EnoughGrows ==
    ASSUME NEW m, IsMetric(m), NEW S, NEW T, S \subseteq T, T \subseteq DOMAIN m, Enough(m, S)
    PROVE  Enough(m, T)
<1>1. S \in SUBSET DOMAIN m /\ T \in SUBSET DOMAIN m /\ DOMAIN m \in SUBSET DOMAIN m
  OBVIOUS
<1>2. SumOf(m, S) <= SumOf(m, T) /\ SumOf(m, S) \in Nat /\ SumOf(m, T) \in Nat /\ SumOf(m, DOMAIN m) \in Nat
  BY <1>1, MetricSums
<1>3. ValueAreaPct \in Int
  BY ProfileAssumption
<1> DEFINE s == SumOf(m, S)
           t == SumOf(m, T)
           target == ValueAreaPct * SumOf(m, DOMAIN m)
<1>4. target \in Int /\ s \in Nat /\ t \in Nat /\ s <= t /\ 100 * s >= target
  BY <1>2, <1>3 DEF Enough
<1>5. 100 * t >= target
  <2> HIDE DEF s, t, target
  <2> QED BY <1>4
<1> QED BY <1>5 DEF Enough

\* An expansion upwards takes the nearest bins above: the area stays one stretch,
\* and what it takes is among its topmost bins.
LEMMA AboveTaken ==
    ASSUME NEW m, IsMetric(m), NEW area, Stretch(m, area)
    PROVE  LET wider == area \cup Above(m, area)
           IN  /\ Stretch(m, wider) /\ Above(m, area) \cap area = {}
               /\ wider \ TopOf(wider) \subseteq area
               /\ (\E b \in DOMAIN m : b > Max(area)) => Above(m, area) # {}
<1> DEFINE top == Max(area)
           beyond == {b \in DOMAIN m : b > top}
           up == Above(m, area)
           wider == area \cup up
           nearer(b) == {c \in beyond : c < b}
<1>1. /\ area \in SUBSET Int /\ IsFiniteSet(area) /\ area # {}
      /\ DOMAIN m \in SUBSET Int /\ IsFiniteSet(DOMAIN m)
  BY FS_Subset DEF Stretch, IsMetric
<1>2. top \in area /\ top \in Int /\ \A x \in area : x <= top
  BY <1>1, Extremes
<1>3. up = {b \in beyond : Cardinality(nearer(b)) < Expansion}
  BY DEF Above
<1>4. \A b \in beyond : b \in Int /\ b > top /\ b \notin area /\ b \in DOMAIN m
  BY <1>1, <1>2
<1>5. IsFiniteSet(beyond) /\ \A b \in beyond : IsFiniteSet(nearer(b)) /\ Cardinality(nearer(b)) \in Nat
  BY <1>1, FS_Subset, FS_CardinalityType
<1>6. Expansion \in Nat /\ Expansion > 0
  BY ProfileAssumption
<1> HIDE DEF top, beyond, up, nearer
\* Whoever is nearer than a bin taken is taken.
<1>7. ASSUME NEW b \in up, NEW c \in beyond, c < b PROVE c \in up
  <2>1. b \in beyond /\ Cardinality(nearer(b)) < Expansion
    BY <1>3
  <2>2. b \in Int /\ c \in Int /\ \A d \in beyond : d \in Int
    BY <1>4, <2>1
  <2>3. nearer(c) \in SUBSET nearer(b)
    <3>1. \A d \in beyond : d < c => d < b
      BY <2>2, <1>7
    <3> QED BY <3>1 DEF nearer
  <2>4. Cardinality(nearer(c)) <= Cardinality(nearer(b))
    BY <2>1, <2>3, <1>5, FS_Subset
  <2>5. Cardinality(nearer(c)) < Expansion
    BY <2>1, <2>4, <1>5, <1>6
  <2> QED BY <2>5, <1>3
<1>8. Stretch(m, wider)
  <2>1. wider \in SUBSET DOMAIN m /\ wider # {}
    BY <1>1, <1>3, <1>4 DEF Stretch
  <2>2. ASSUME NEW b \in DOMAIN m, NEW x \in wider, NEW y \in wider, x <= b, b <= y
        PROVE  b \in wider
    <3>0. b \in Int /\ x \in Int /\ y \in Int
      BY <1>1, <2>1
    <3>1. CASE b > top
      <4>1. b \in beyond
        BY <3>1 DEF beyond
      <4>2. y \in up
        BY <3>0, <3>1, <1>2, <2>2
      <4>3. b = y \/ b < y
        BY <3>0, <2>2
      <4> QED BY <4>1, <4>2, <4>3, <1>7
    <3>2. CASE ~(b > top)
      <4>1. b <= top
        BY <3>0, <3>2, <1>2
      <4>2. x \in area
        BY <3>0, <3>2, <1>2, <1>3, <1>4, <2>2
      <4> QED BY <4>1, <4>2, <1>2, <2>2 DEF Stretch
    <3> QED BY <3>1, <3>2
  <2> QED BY <2>1, <2>2 DEF Stretch
<1>9. up \cap area = {}
  BY <1>3, <1>4
<1>10. up \subseteq TopOf(wider)
  <2>1. SUFFICES ASSUME NEW b \in up PROVE Cardinality({c \in wider : c > b}) < Expansion
    BY DEF TopOf
  <2>2. IsFiniteSet(up)
    BY <1>3, <1>5, FS_Subset
  <2>3. b \in beyond /\ b \in Int
    BY <1>3, <1>4
  \* The farthest bin taken has all others before it.
  <2>4. up \in SUBSET Int /\ up # {}
    BY <1>3, <1>4
  <2>5. Max(up) \in up /\ \A x \in up : x <= Max(up)
    BY <2>2, <2>4, Extremes
  <2>6. up \ {Max(up)} \in SUBSET nearer(Max(up))
    <3>1. ASSUME NEW x \in up, x # Max(up) PROVE x < Max(up) /\ x \in beyond
      <4>1. x \in Int /\ Max(up) \in Int /\ x <= Max(up)
        BY <2>4, <2>5
      <4>2. x < Max(up)
        BY <4>1, <3>1
      <4> QED BY <4>2, <1>3
    <3> QED BY <3>1 DEF nearer
  <2>7. Cardinality(up \ {Max(up)}) < Expansion
    <3>1. Max(up) \in beyond /\ Cardinality(nearer(Max(up))) < Expansion
      BY <2>5, <1>3
    <3>2. IsFiniteSet(nearer(Max(up))) /\ Cardinality(nearer(Max(up))) \in Nat
      BY <3>1, <1>5
    <3>3. Cardinality(up \ {Max(up)}) <= Cardinality(nearer(Max(up)))
      BY <2>6, <3>2, FS_Subset
    <3>4. Cardinality(up \ {Max(up)}) \in Nat
      BY <2>2, FS_RemoveElement, FS_CardinalityType
    <3> QED BY <3>1, <3>2, <3>3, <3>4, <1>6
  <2>8. Cardinality(up \ {b}) = Cardinality(up \ {Max(up)})
    BY <2>2, <2>5, FS_RemoveElement
  <2>9. {c \in wider : c > b} \in SUBSET (up \ {b})
    <3>1. ASSUME NEW c \in wider, c > b PROVE c \in up /\ c # b
      <4>1. c \in Int /\ b > top
        BY <1>1, <1>4, <1>8, <2>3 DEF Stretch
      <4>2. c # b /\ ~(c <= top)
        BY <3>1, <4>1, <2>3, <1>2
      <4> QED BY <3>1, <4>2, <1>2
    <3> QED BY <3>1
  <2>10. IsFiniteSet(up \ {b}) /\ Cardinality(up \ {b}) \in Nat
    BY <2>2, FS_RemoveElement, FS_CardinalityType
  <2>11. Cardinality({c \in wider : c > b}) <= Cardinality(up \ {b}) /\ Cardinality({c \in wider : c > b}) \in Nat
    BY <2>9, <2>10, FS_Subset, FS_CardinalityType
  <2> QED BY <2>7, <2>8, <2>10, <2>11, <1>6
<1>11. ASSUME NEW b \in DOMAIN m, b > top PROVE up # {}
  <2>1. beyond # {} /\ beyond \in SUBSET Int
    BY <1>4, <1>11 DEF beyond
  <2>2. Min(beyond) \in beyond /\ \A x \in beyond : Min(beyond) <= x
    BY <2>1, <1>5, Extremes
  <2>3. nearer(Min(beyond)) = {}
    <3>1. ASSUME NEW x \in beyond PROVE ~(x < Min(beyond))
      <4>1. x \in Int /\ Min(beyond) \in Int /\ Min(beyond) <= x
        BY <2>1, <2>2
      <4> QED BY <4>1
    <3> QED BY <3>1 DEF nearer
  <2>4. Cardinality(nearer(Min(beyond))) = 0
    BY <2>3, FS_EmptySet
  <2> QED BY <2>2, <2>4, <1>3, <1>6
<1>12. wider \ TopOf(wider) \subseteq area
  BY <1>10
<1> QED BY <1>8, <1>9, <1>11, <1>12 DEF up, top
\* An expansion downwards takes the nearest bins below: the area stays one stretch,
\* and what it takes is among its lowest bins.
LEMMA BelowTaken ==
    ASSUME NEW m, IsMetric(m), NEW area, Stretch(m, area)
    PROVE  LET wider == area \cup Below(m, area)
           IN  /\ Stretch(m, wider) /\ Below(m, area) \cap area = {}
               /\ wider \ BottomOf(wider) \subseteq area
               /\ (\E b \in DOMAIN m : b < Min(area)) => Below(m, area) # {}
<1> DEFINE bottom == Min(area)
           beyond == {b \in DOMAIN m : b < bottom}
           down == Below(m, area)
           wider == area \cup down
           nearer(b) == {c \in beyond : c > b}
<1>1. /\ area \in SUBSET Int /\ IsFiniteSet(area) /\ area # {}
      /\ DOMAIN m \in SUBSET Int /\ IsFiniteSet(DOMAIN m)
  BY FS_Subset DEF Stretch, IsMetric
<1>2. bottom \in area /\ bottom \in Int /\ \A x \in area : bottom <= x
  BY <1>1, Extremes
<1>3. down = {b \in beyond : Cardinality(nearer(b)) < Expansion}
  BY DEF Below
<1>4. \A b \in beyond : b \in Int /\ b < bottom /\ b \notin area /\ b \in DOMAIN m
  BY <1>1, <1>2
<1>5. IsFiniteSet(beyond) /\ \A b \in beyond : IsFiniteSet(nearer(b)) /\ Cardinality(nearer(b)) \in Nat
  BY <1>1, FS_Subset, FS_CardinalityType
<1>6. Expansion \in Nat /\ Expansion > 0
  BY ProfileAssumption
<1> HIDE DEF bottom, beyond, down, nearer
\* Whoever is nearer than a bin taken is taken.
<1>7. ASSUME NEW b \in down, NEW c \in beyond, c > b PROVE c \in down
  <2>1. b \in beyond /\ Cardinality(nearer(b)) < Expansion
    BY <1>3
  <2>2. b \in Int /\ c \in Int /\ \A d \in beyond : d \in Int
    BY <1>4, <2>1
  <2>3. nearer(c) \in SUBSET nearer(b)
    <3>1. \A d \in beyond : d > c => d > b
      BY <2>2, <1>7
    <3> QED BY <3>1 DEF nearer
  <2>4. Cardinality(nearer(c)) <= Cardinality(nearer(b))
    BY <2>1, <2>3, <1>5, FS_Subset
  <2>5. Cardinality(nearer(c)) < Expansion
    BY <2>1, <2>4, <1>5, <1>6
  <2> QED BY <2>5, <1>3
<1>8. Stretch(m, wider)
  <2>1. wider \in SUBSET DOMAIN m /\ wider # {}
    BY <1>1, <1>3, <1>4 DEF Stretch
  <2>2. ASSUME NEW b \in DOMAIN m, NEW x \in wider, NEW y \in wider, x <= b, b <= y
        PROVE  b \in wider
    <3>0. b \in Int /\ x \in Int /\ y \in Int
      BY <1>1, <2>1
    <3>1. CASE b < bottom
      <4>1. b \in beyond
        BY <3>1 DEF beyond
      <4>2. x \in down
        BY <3>0, <3>1, <1>2, <2>2
      <4>3. b = x \/ b > x
        BY <3>0, <2>2
      <4> QED BY <4>1, <4>2, <4>3, <1>7
    <3>2. CASE ~(b < bottom)
      <4>1. bottom <= b
        BY <3>0, <3>2, <1>2
      <4>2. y \in area
        BY <3>0, <3>2, <1>2, <1>3, <1>4, <2>2
      <4> QED BY <4>1, <4>2, <1>2, <2>2 DEF Stretch
    <3> QED BY <3>1, <3>2
  <2> QED BY <2>1, <2>2 DEF Stretch
<1>9. down \cap area = {}
  BY <1>3, <1>4
<1>10. down \subseteq BottomOf(wider)
  <2>1. SUFFICES ASSUME NEW b \in down PROVE Cardinality({c \in wider : c < b}) < Expansion
    BY DEF BottomOf
  <2>2. IsFiniteSet(down)
    BY <1>3, <1>5, FS_Subset
  <2>3. b \in beyond /\ b \in Int
    BY <1>3, <1>4
  \* The farthest bin taken has all others before it.
  <2>4. down \in SUBSET Int /\ down # {}
    BY <1>3, <1>4
  <2>5. Min(down) \in down /\ \A x \in down : Min(down) <= x
    BY <2>2, <2>4, Extremes
  <2>6. down \ {Min(down)} \in SUBSET nearer(Min(down))
    <3>1. ASSUME NEW x \in down, x # Min(down) PROVE x > Min(down) /\ x \in beyond
      <4>1. x \in Int /\ Min(down) \in Int /\ Min(down) <= x
        BY <2>4, <2>5
      <4>2. x > Min(down)
        BY <4>1, <3>1
      <4> QED BY <4>2, <1>3
    <3> QED BY <3>1 DEF nearer
  <2>7. Cardinality(down \ {Min(down)}) < Expansion
    <3>1. Min(down) \in beyond /\ Cardinality(nearer(Min(down))) < Expansion
      BY <2>5, <1>3
    <3>2. IsFiniteSet(nearer(Min(down))) /\ Cardinality(nearer(Min(down))) \in Nat
      BY <3>1, <1>5
    <3>3. Cardinality(down \ {Min(down)}) <= Cardinality(nearer(Min(down)))
      BY <2>6, <3>2, FS_Subset
    <3>4. Cardinality(down \ {Min(down)}) \in Nat
      BY <2>2, FS_RemoveElement, FS_CardinalityType
    <3> QED BY <3>1, <3>2, <3>3, <3>4, <1>6
  <2>8. Cardinality(down \ {b}) = Cardinality(down \ {Min(down)})
    BY <2>2, <2>5, FS_RemoveElement
  <2>9. {c \in wider : c < b} \in SUBSET (down \ {b})
    <3>1. ASSUME NEW c \in wider, c < b PROVE c \in down /\ c # b
      <4>1. c \in Int /\ b < bottom
        BY <1>1, <1>4, <1>8, <2>3 DEF Stretch
      <4>2. c # b /\ ~(bottom <= c)
        BY <3>1, <4>1, <2>3, <1>2
      <4> QED BY <3>1, <4>2, <1>2
    <3> QED BY <3>1
  <2>10. IsFiniteSet(down \ {b}) /\ Cardinality(down \ {b}) \in Nat
    BY <2>2, FS_RemoveElement, FS_CardinalityType
  <2>11. Cardinality({c \in wider : c < b}) <= Cardinality(down \ {b}) /\ Cardinality({c \in wider : c < b}) \in Nat
    BY <2>9, <2>10, FS_Subset, FS_CardinalityType
  <2> QED BY <2>7, <2>8, <2>10, <2>11, <1>6
<1>11. ASSUME NEW b \in DOMAIN m, b < bottom PROVE down # {}
  <2>1. beyond # {} /\ beyond \in SUBSET Int
    BY <1>4, <1>11 DEF beyond
  <2>2. Max(beyond) \in beyond /\ \A x \in beyond : x <= Max(beyond)
    BY <2>1, <1>5, Extremes
  <2>3. nearer(Max(beyond)) = {}
    <3>1. ASSUME NEW x \in beyond PROVE ~(x > Max(beyond))
      <4>1. x \in Int /\ Max(beyond) \in Int /\ x <= Max(beyond)
        BY <2>1, <2>2
      <4> QED BY <4>1
    <3> QED BY <3>1 DEF nearer
  <2>4. Cardinality(nearer(Max(beyond))) = 0
    BY <2>3, FS_EmptySet
  <2> QED BY <2>2, <2>4, <1>3, <1>6
<1>12. wider \ BottomOf(wider) \subseteq area
  BY <1>10
<1> QED BY <1>8, <1>9, <1>11, <1>12 DEF down, bottom

\* An expansion of an area that does not hold enough adds bins, and but for what
\* it added it would not hold enough.
LEMMA AreaWidens ==
    ASSUME NEW m, IsMetric(m), NEW area, Stretch(m, area), ~Enough(m, area)
    PROVE  LET wider == Wider(m, area)
           IN  Stretch(m, wider) /\ Tight(m, wider) /\ area \subseteq wider /\ wider # area
<1> DEFINE above == Above(m, area)
           below == Below(m, area)
           Grown(w) == Stretch(m, w) /\ Tight(m, w) /\ area \subseteq w /\ w # area
<1>1. area \in SUBSET Int /\ IsFiniteSet(area) /\ area # {} /\ DOMAIN m \in SUBSET Int /\ area \in SUBSET DOMAIN m
  BY FS_Subset DEF Stretch, IsMetric
<1>2. Min(area) \in area /\ Max(area) \in area
  BY <1>1, Extremes
<1>3. above # {} => Grown(area \cup above)
  <2> DEFINE w == area \cup above
  <2>1. SUFFICES ASSUME above # {} PROVE Grown(w)
    OBVIOUS
  <2>2. Stretch(m, w) /\ above \cap area = {} /\ w \ TopOf(w) \subseteq area
    BY AboveTaken
  <2> HIDE DEF above, w
  <2>3. ~Enough(m, w \ TopOf(w))
    <3>1. Enough(m, w \ TopOf(w)) => Enough(m, area)
      BY <2>2, <1>1, EnoughGrows
    <3> QED BY <3>1
  <2>4. Tight(m, w)
    BY <2>3 DEF Tight
  <2>5. area \subseteq w /\ w # area
    BY <2>1, <2>2 DEF w
  <2> QED BY <2>2, <2>4, <2>5
<1>4. below # {} => Grown(area \cup below)
  <2> DEFINE w == area \cup below
  <2>1. SUFFICES ASSUME below # {} PROVE Grown(w)
    OBVIOUS
  <2>2. Stretch(m, w) /\ below \cap area = {} /\ w \ BottomOf(w) \subseteq area
    BY BelowTaken
  <2> HIDE DEF below, w
  <2>3. ~Enough(m, w \ BottomOf(w))
    <3>1. Enough(m, w \ BottomOf(w)) => Enough(m, area)
      BY <2>2, <1>1, EnoughGrows
    <3> QED BY <3>1
  <2>4. Tight(m, w)
    BY <2>3 DEF Tight
  <2>5. area \subseteq w /\ w # area
    BY <2>1, <2>2 DEF w
  <2> QED BY <2>2, <2>4, <2>5
<1>5. above # {} \/ below # {}
  <2>1. SUFFICES ASSUME above = {}, below = {} PROVE FALSE
    OBVIOUS
  <2>2. \A b \in DOMAIN m : ~(b > Max(area)) /\ ~(b < Min(area))
    BY <2>1, AboveTaken, BelowTaken
  <2>3. ASSUME NEW b \in DOMAIN m PROVE b <= Max(area) /\ Min(area) <= b
    <3>1. b \in Int /\ Max(area) \in Int /\ Min(area) \in Int
      BY <1>1, <1>2
    <3> QED BY <2>2, <3>1
  <2>4. area = DOMAIN m
    BY <2>3, <1>1, <1>2 DEF Stretch
  <2> QED BY <2>4, NotAll
<1>6. Wider(m, area) = area \cup above \/ Wider(m, area) = area \cup below
  BY DEF Wider
<1>7. (Wider(m, area) = area \cup above /\ above # {}) \/ (Wider(m, area) = area \cup below /\ below # {})
  <2> DEFINE more == SumOf(m, above) >= SumOf(m, below)
  <2>1. Wider(m, area) = area \cup (IF (IF above # {} /\ below # {} THEN more ELSE above # {}) THEN above ELSE below)
    BY DEF Wider
  <2> HIDE DEF above, below, more
  <2> QED BY <2>1, <1>5
<1> QED BY <1>3, <1>4, <1>7

\* So the loop, which turns as often as there are bins, ends with enough.
LEMMA AreaFolds ==
    ASSUME NEW m, NEW poc
    PROVE  /\ Area(m, poc, 0) = {poc}
           /\ \A k \in Nat : Area(m, poc, k + 1) = AreaStep(m, Area(m, poc, k), k + 1)
<1>1. \A k : Area(m, poc, k) = AreaFold!Folded(m, {poc}, k)
  BY DEF Area, AreaStep, AreaFold!Folded, FoldLeft, AreaFold!FoldLeft, MapThenFoldSet, AreaFold!MapThenFoldSet, Max, AreaFold!Max
<1>2. /\ AreaFold!Folded(m, {poc}, 0) = {poc}
      /\ \A k \in Nat : AreaFold!Folded(m, {poc}, k + 1) = AreaStep(m, AreaFold!Folded(m, {poc}, k), k + 1)
  BY AreaFold!FoldNext, Zenon
<1> QED BY <1>1, <1>2

\* So of the area after every turn of the loop.
LEMMA AreaTurns ==
    ASSUME NEW m, IsMetric(m), NEW poc \in DOMAIN m
    PROVE  \A k \in Nat : AreaOK(m, poc, k, Area(m, poc, k))
<1> DEFINE e == <<m, poc>>
<1>1. AreaHolds(e, 0)
  <2>1. Stretch(m, {poc})
    <3>1. \A b \in DOMAIN m : poc <= b /\ b <= poc => b = poc
      BY DEF IsMetric
    <3> QED BY <3>1 DEF Stretch
  <2>2. Cardinality({poc}) = 1
    BY FS_Singleton
  <2>3. AreaOK(m, poc, 0, {poc})
    BY <2>1, <2>2 DEF AreaOK
  <2> QED BY <2>3, AreaFolds DEF AreaHolds
<1>2. ASSUME NEW k \in Nat, AreaHolds(e, k) PROVE AreaHolds(e, k + 1)
  <2> DEFINE area == Area(m, poc, k)
             next == Area(m, poc, k + 1)
  <2>1. AreaOK(m, poc, k, area)
    BY <1>2 DEF AreaHolds
  <2>2. next = IF Enough(m, area) THEN area ELSE Wider(m, area)
    BY AreaFolds DEF AreaStep
  <2> HIDE DEF area, next
  <2>3. ASSUME Enough(m, area) PROVE AreaOK(m, poc, k + 1, next)
    BY <2>1, <2>2, <2>3 DEF AreaOK
  <2>4. ASSUME ~Enough(m, area) PROVE AreaOK(m, poc, k + 1, next)
    <3>1. next = Wider(m, area)
      BY <2>2, <2>4
    <3>2. Stretch(m, next) /\ Tight(m, next) /\ area \subseteq next /\ next # area
      BY <2>1, <2>4, <3>1, AreaWidens DEF AreaOK
    <3>3. IsFiniteSet(next) /\ next \in SUBSET DOMAIN m
      BY <3>2, FS_Subset DEF Stretch, IsMetric
    <3>4. Cardinality(area) <= Cardinality(next) /\ Cardinality(area) # Cardinality(next)
      BY <3>2, <3>3, FS_Subset
    <3>5. IsFiniteSet(area) /\ Cardinality(area) \in Nat /\ Cardinality(next) \in Nat
      BY <3>2, <3>3, FS_Subset, FS_CardinalityType
    <3>6. Cardinality(area) > k
      BY <2>1, <2>4 DEF AreaOK
    <3>7. Cardinality(next) > k + 1
      BY <3>4, <3>5, <3>6
    <3> QED BY <2>1, <3>2, <3>7 DEF AreaOK
  <2>5. AreaOK(m, poc, k + 1, next)
    BY <2>3, <2>4
  <2> QED BY <2>5 DEF AreaHolds, next
<1> HIDE DEF e
<1>3. \A k \in Nat : AreaHolds(e, k) => AreaHolds(e, k + 1)
  BY <1>2
<1>4. \A k \in Nat : AreaHolds(e, k)
  BY <1>1, <1>3, AreaFold!Induction, Zenon
<1> QED BY <1>4 DEF AreaHolds, e

\* The value area: a stretch of the printed bins around the point of control that
\* holds enough, and without the last expansion would not.
LEMMA ValueAreaIs ==
    ASSUME NEW m, IsMetric(m), NEW poc \in DOMAIN m
    PROVE  \E area \in SUBSET DOMAIN m :
             /\ ValueArea(m, poc) = [val |-> Min(area), vah |-> Max(area)]
             /\ Stretch(m, area) /\ poc \in area /\ Enough(m, area)
             /\ area = {poc} \/ Tight(m, area)
<1> DEFINE n == Cardinality(DOMAIN m)
           area == Area(m, poc, n)
<1>1. n \in Nat /\ IsFiniteSet(DOMAIN m)
  BY FS_CardinalityType DEF IsMetric
<1>2. AreaOK(m, poc, n, area)
  <2> HIDE DEF n
  <2> QED BY <1>1, AreaTurns
<1>3. ValueArea(m, poc) = [val |-> Min(area), vah |-> Max(area)]
  BY DEF ValueArea, Area
<1> HIDE DEF area
<1>4. area \in SUBSET DOMAIN m
  BY <1>2 DEF AreaOK, Stretch
<1>5. Cardinality(area) <= n /\ Cardinality(area) \in Nat
  BY <1>1, <1>4, FS_Subset, FS_CardinalityType
<1>6. Enough(m, area)
  <2> HIDE DEF n
  <2> QED BY <1>1, <1>2, <1>5 DEF AreaOK
<1> QED BY <1>2, <1>3, <1>4, <1>6 DEF AreaOK

-----------------------------------------------------------------------------
(* Profiles of bars *)

BarSet == {b \in [ts : PrintSlots, open : Int, low : Int, high : Int, close : Int, vol : Nat] :
               b.low <= b.high}

\* What a restriction of a session's bars is.
IsSeries(f) ==
    /\ IsFiniteSet(DOMAIN f) /\ DOMAIN f \in SUBSET Nat
    /\ \A i \in DOMAIN f : f[i] \in BarSet
    /\ \A i, j \in DOMAIN f : i < j => f[i].ts < f[j].ts

\* What a division by the width of a bin keeps.
LEMMA Divides ==
    ASSUME NEW a \in Int, NEW b \in Int, NEW d \in Nat \ {0}
    PROVE  /\ a <= b => a \div d <= b \div d
           /\ a * d <= b * d <=> a <= b
           /\ a \div d \in Int /\ (a >= 0 => a \div d \in Nat)
OBVIOUS

\* The periods of a session are in the order of their ends.
LEMMA PeriodsAre ==
    /\ Periods \in Seq([start : Int, end : Int]) /\ Len(Periods) \in Nat /\ DOMAIN Periods = 1..Len(Periods)
    /\ \A i, j \in DOMAIN Periods : i < j => Periods[i].end < Periods[j].end
<1> DEFINE full == SessionLen \div TpoLen
           S == [start : Int, end : Int]
           whole == [i \in 1..full |-> [start |-> (i - 1) * TpoLen, end |-> i * TpoLen]]
           Ordered(ps) == ps \in Seq(S) /\ \A i, j \in 1..Len(ps) : i < j => ps[i].end < ps[j].end
<1>1. SessionLen \in Nat /\ TpoLen \in Nat \ {0} /\ full \in Nat /\ full * TpoLen <= SessionLen
      /\ (SessionLen % TpoLen # 0 => full * TpoLen < SessionLen)
  BY ProfileAssumption
<1> HIDE DEF full
<1>2. whole \in Seq(S) /\ Len(whole) = full /\ \A i \in 1..full : whole[i].end = i * TpoLen /\ whole[i].start \in Int
  BY <1>1
<1> HIDE DEF whole
<1>3. \A i, j \in 1..full : (i < j => i * TpoLen < j * TpoLen) /\ i * TpoLen <= full * TpoLen
  <2>1. TAKE i, j \in 1..full
  <2>2. (j * TpoLen <= i * TpoLen <=> j <= i) /\ (i * TpoLen <= full * TpoLen <=> i <= full)
    BY <1>1, Divides
  <2>3. i * TpoLen \in Int /\ j * TpoLen \in Int
    BY <1>1
  <2> QED BY <1>1, <2>2, <2>3
<1>4. Ordered(whole)
  BY <1>2, <1>3
<1>5. ASSUME full > 0, SessionLen % TpoLen # 0 PROVE Ordered([whole EXCEPT ![full].end = SessionLen])
  <2> DEFINE ps == [whole EXCEPT ![full].end = SessionLen]
  <2>0. full \in 1..full
    BY <1>1, <1>5
  <2>1. whole[full] \in S /\ full \in 1..full
    <3> HIDE DEF S
    <3> QED BY <1>2, <2>0
  <2> DEFINE last == [whole[full] EXCEPT !.end = SessionLen]
  <2>2. last \in S /\ last.end = SessionLen
    BY <1>1, <2>1
  <2>3. ps = [whole EXCEPT ![full] = last]
    OBVIOUS
  <2> HIDE DEF last, ps
  <2>4. ps \in Seq(S) /\ Len(ps) = full /\ \A i \in 1..full : ps[i] = IF i = full THEN last ELSE whole[i]
    BY <1>1, <1>2, <2>1, <2>2, <2>3
  <2>5. ASSUME NEW i \in 1..full, NEW j \in 1..full, i < j PROVE ps[i].end < ps[j].end
    <3>1. i # full /\ ps[i] = whole[i] /\ ps[i].end = i * TpoLen
      BY <1>1, <1>2, <2>4, <2>5
    <3>2. CASE j = full
      <4>1. ps[j].end = SessionLen
        BY <2>2, <2>4, <3>2
      <4>2. i * TpoLen <= full * TpoLen /\ i * TpoLen \in Int /\ full * TpoLen \in Int
        BY <1>1, <1>3
      <4> QED BY <1>1, <1>5, <3>1, <4>1, <4>2
    <3>3. CASE j # full
      BY <1>2, <1>3, <2>4, <2>5, <3>1, <3>3
    <3> QED BY <3>2, <3>3
  <2> QED BY <2>4, <2>5 DEF ps
<1>6. ASSUME SessionLen % TpoLen # 0 PROVE Ordered(Append(whole, [start |-> full * TpoLen, end |-> SessionLen]))
  <2> DEFINE last == [start |-> full * TpoLen, end |-> SessionLen]
             ps == Append(whole, last)
  <2>1. last \in S /\ last.end = SessionLen
    BY <1>1
  <2> HIDE DEF last
  <2>2. /\ ps \in Seq(S) /\ Len(ps) = full + 1 /\ ps[full + 1] = last
        /\ \A i \in 1..full : ps[i] = whole[i]
    BY <1>1, <1>2, <2>1
  <2> HIDE DEF ps
  <2>3. ASSUME NEW i \in 1..(full + 1), NEW j \in 1..(full + 1), i < j PROVE ps[i].end < ps[j].end
    <3>1. i \in 1..full /\ ps[i].end = i * TpoLen
      <4>1. i \in 1..full
        BY <1>1, <2>3
      <4>2. ps[i] = whole[i] /\ whole[i].end = i * TpoLen
        BY <1>2, <2>2, <4>1
      <4> QED BY <4>1, <4>2
    <3>2. CASE j = full + 1
      <4>1. i * TpoLen <= full * TpoLen /\ i * TpoLen \in Int /\ full * TpoLen \in Int
        BY <1>1, <1>3, <3>1
      <4>2. i * TpoLen < SessionLen
        BY <1>1, <1>6, <4>1
      <4>3. ps[j].end = SessionLen
        BY <2>1, <2>2, <3>2
      <4> QED BY <3>1, <4>2, <4>3
    <3>3. CASE j # full + 1
      <4>1. j \in 1..full
        BY <1>1, <3>3
      <4> QED BY <1>2, <1>3, <2>2, <2>3, <3>1, <4>1
    <3> QED BY <3>2, <3>3
  <2> QED BY <2>2, <2>3 DEF ps, last
<1>7. Ordered(Periods)
  <2>1. \/ Periods = whole
        \/ full > 0 /\ SessionLen % TpoLen # 0 /\ Periods = [whole EXCEPT ![full].end = SessionLen]
        \/ SessionLen % TpoLen # 0 /\ Periods = Append(whole, [start |-> full * TpoLen, end |-> SessionLen])
    BY DEF Periods, whole, full
  <2> HIDE DEF Ordered
  <2> QED BY <2>1, <1>4, <1>5, <1>6
<1>8. Periods \in Seq(S)
  BY <1>7
<1>9. Len(Periods) \in Nat /\ DOMAIN Periods = 1..Len(Periods)
  BY <1>8
<1> QED BY <1>7, <1>8, <1>9

\* A finite function takes finitely many values.
LEMMA ImageFinite ==
    ASSUME NEW f, IsFiniteSet(DOMAIN f)
    PROVE  IsFiniteSet({f[x] : x \in DOMAIN f})
<1> DEFINE S == DOMAIN f
           g == [x \in S |-> f[x]]
<1>1. g \in Surjection(S, {f[x] : x \in S})
  BY DEF Surjection
<1> QED BY <1>1, FS_Surjection DEF ExistsSurjection

\* A restriction of a series of bars is one.
LEMMA Restricted ==
    ASSUME NEW f, IsSeries(f), NEW S \in SUBSET DOMAIN f
    PROVE  IsSeries(Restrict(f, S)) /\ DOMAIN Restrict(f, S) = S
<1>1. IsFiniteSet(S)
  BY FS_Subset DEF IsSeries
<1> QED BY <1>1 DEF IsSeries, Restrict

\* The bins a bar overlaps.
LEMMA BinsOfBar ==
    ASSUME NEW low \in Int, NEW high \in Int, low <= high
    PROVE  LET bins == OverlappedBins(low, high)
           IN  IsFiniteSet(bins) /\ bins \in SUBSET Int /\ bins # {} /\ Cardinality(bins) \in Nat \ {0}
<1> DEFINE bins == OverlappedBins(low, high)
<1>1. low \div Bin \in Int /\ high \div Bin \in Int /\ low \div Bin <= high \div Bin
  BY Divides, ProfileAssumption
<1>2. IsFiniteSet(bins) /\ bins \in SUBSET Int /\ bins # {}
  BY <1>1, FS_Interval DEF OverlappedBins
<1> HIDE DEF bins
<1>3. Cardinality(bins) \in Nat /\ Cardinality(bins) # 0
  BY <1>2, FS_CardinalityType, FS_EmptySet
<1> QED BY <1>2, <1>3 DEF bins

\* The metric of some bars.
LEMMA MetricIs ==
    ASSUME NEW kind, NEW f, IsSeries(f), DOMAIN f # {}, NEW n
    PROVE  IsMetric(Metric(kind, f, n))
<1> DEFINE D == DOMAIN f
           bins(i) == OverlappedBins(f[i].low, f[i].high)
           all == UNION {bins(i) : i \in D}
           at(b) == {i \in D : b \in bins(i)}
           share == [i \in D |-> f[i].vol \div Cardinality(bins(i))]
           letters(b) == {PeriodOf(f[i].ts, n) : i \in at(b)}
           value(b) == IF kind = "TPO" THEN Cardinality(letters(b)) ELSE SumOf(share, at(b))
<1>1. Metric(kind, f, n) = [b \in all |-> value(b)]
  BY DEF Metric
<1>2. \A i \in D : /\ IsFiniteSet(bins(i)) /\ bins(i) \in SUBSET Int /\ bins(i) # {}
                   /\ Cardinality(bins(i)) \in Nat \ {0} /\ f[i].vol \in Nat
  BY BinsOfBar DEF IsSeries, BarSet
<1>3. IsFiniteSet(D)
  BY DEF IsSeries
<1> HIDE DEF bins, value
<1>4. IsFiniteSet(all) /\ all \in SUBSET Int /\ all # {}
  <2> DEFINE g == [i \in D |-> bins(i)]
             T == {g[i] : i \in DOMAIN g}
  <2>1. IsFiniteSet(T)
    BY <1>3, ImageFinite
  <2>2. \A t \in T : IsFiniteSet(t)
    BY <1>2
  <2>3. T = {bins(i) : i \in D}
    OBVIOUS
  <2> HIDE DEF T
  <2>4. IsFiniteSet(UNION T)
    BY <2>1, <2>2, FS_UNION
  <2>5. all \in SUBSET Int /\ all # {}
    BY <1>2
  <2> QED BY <2>3, <2>4, <2>5
<1>5. ASSUME NEW b \in all PROVE value(b) \in Nat
  <2>1. at(b) \in SUBSET D /\ IsFiniteSet(at(b))
    BY <1>3, FS_Subset
  <2>2. Cardinality(letters(b)) \in Nat
    <3> DEFINE g == [i \in at(b) |-> PeriodOf(f[i].ts, n)]
    <3>1. IsFiniteSet({g[i] : i \in DOMAIN g})
      <4>1. IsFiniteSet(DOMAIN g)
        BY <2>1
      <4> HIDE DEF g
      <4> QED BY <4>1, ImageFinite
    <3>2. {g[i] : i \in DOMAIN g} = letters(b)
      OBVIOUS
    <3> QED BY <3>1, <3>2, FS_CardinalityType
  <2>3. SumOf(share, at(b)) \in Nat
    <3>1. \A i \in D : share[i] \in Nat
      <4>1. TAKE i \in D
      <4>2. f[i].vol \in Nat /\ Cardinality(bins(i)) \in Nat \ {0}
        BY <1>2
      <4> QED BY <4>2, Divides
    <3> HIDE DEF share, at, D
    <3>2. \A S \in SUBSET D : IsFiniteSet(S) => SumOf(share, S) \in Nat
      BY <3>1, SumsOver, Zenon
    <3> QED BY <2>1, <3>2
  <2> HIDE DEF letters
  <2> QED BY <2>2, <2>3 DEF value
<1> HIDE DEF all
<1> QED BY <1>1, <1>4, <1>5 DEF IsMetric

\* The point of control is one of the bins.
LEMMA PocIs ==
    ASSUME NEW m, IsMetric(m), NEW v, v[1] \in Int, v[2] \in Int
    PROVE  Poc(m, v) \in DOMAIN m
<1> DEFINE best == {b \in DOMAIN m : \A c \in DOMAIN m : m[c] <= m[b]}
           far(b) == LET d == b * Bin * v[2] - v[1] IN IF d < 0 THEN -d ELSE d
           nearest(b) == \A c \in best : far(b) < far(c) \/ (far(b) = far(c) /\ b <= c)
<1>1. Bin \in Int /\ \A b \in DOMAIN m : b \in Int /\ m[b] \in Int
  BY ProfileAssumption DEF IsMetric
<1>2. \A b \in best : b \in Int /\ far(b) \in Int
  <2>1. TAKE b \in best
  <2>2. b \in Int
    BY <1>1
  <2> DEFINE d == b * Bin * v[2] - v[1]
  <2>3. d \in Int
    BY <2>2, <1>1
  <2> HIDE DEF d
  <2>4. (IF d < 0 THEN -d ELSE d) \in Int
    BY <2>3
  <2> QED BY <2>2, <2>4 DEF d
<1>3. IsFiniteSet(best)
  BY FS_Subset DEF IsMetric
<1>4. best # {}
  <2> DEFINE V == {m[b] : b \in DOMAIN m}
  <2>1. IsFiniteSet(V) /\ V \in SUBSET Int /\ V # {}
    BY <1>1, ImageFinite DEF IsMetric
  <2>2. Max(V) \in V /\ \A x \in V : x <= Max(V)
    BY <2>1, Extremes
  <2> QED BY <2>2
<1> HIDE DEF far, best
<1> DEFINE g == [b \in best |-> far(b)]
           F == {g[b] : b \in DOMAIN g}
<1>5. IsFiniteSet(F) /\ F \in SUBSET Int /\ F # {}
  <2>1. IsFiniteSet(F)
    <3>1. IsFiniteSet(DOMAIN g)
      BY <1>3
    <3> HIDE DEF g
    <3> QED BY <3>1, ImageFinite
  <2> QED BY <2>1, <1>2, <1>4
<1>6. Min(F) \in F /\ \A x \in F : Min(F) <= x
  BY <1>5, Extremes
<1> DEFINE N == {b \in best : far(b) = Min(F)}
<1>7. IsFiniteSet(N) /\ N \in SUBSET Int /\ N # {}
  <2>1. N \in SUBSET best /\ N # {}
    BY <1>6
  <2> QED BY <2>1, <1>2, <1>3, FS_Subset
<1>8. Min(N) \in N /\ \A x \in N : Min(N) <= x
  BY <1>7, Extremes
<1>9. \E b \in best : nearest(b)
  <2>1. \A c \in best : far(c) \in F
    OBVIOUS
  <2> HIDE DEF F
  <2>2. Min(N) \in best /\ far(Min(N)) = Min(F)
    BY <1>8
  <2>3. ASSUME NEW c \in best
        PROVE  far(Min(N)) < far(c) \/ (far(Min(N)) = far(c) /\ Min(N) <= c)
    <3>1. Min(F) <= far(c) /\ Min(F) \in Int /\ far(c) \in Int
      BY <2>1, <1>2, <1>5, <1>6
    <3>2. far(c) = Min(F) => Min(N) <= c
      BY <1>8
    <3> QED BY <2>2, <3>1, <3>2
  <2> QED BY <2>2, <2>3
<1>10. Poc(m, v) = CHOOSE b \in best : nearest(b)
  BY DEF Poc, best, far
<1> HIDE DEF nearest
<1>11. Poc(m, v) \in best
  BY <1>9, <1>10
<1> QED BY <1>11 DEF best

\* The highs and the lows of some bars.
LEMMA Ranges ==
    ASSUME NEW f, IsSeries(f), DOMAIN f # {}
    PROVE  /\ Max(Highs(f)) \in Highs(f) /\ \A i \in DOMAIN f : f[i].high <= Max(Highs(f))
           /\ Min(Lows(f)) \in Lows(f) /\ \A i \in DOMAIN f : Min(Lows(f)) <= f[i].low
           /\ Max(Highs(f)) \in Int /\ Min(Lows(f)) \in Int
<1> DEFINE h == [i \in DOMAIN f |-> f[i].high]
           l == [i \in DOMAIN f |-> f[i].low]
<1>1. \A i \in DOMAIN f : f[i].high \in Int /\ f[i].low \in Int
  BY DEF IsSeries, BarSet
<1>2. IsFiniteSet(DOMAIN h) /\ IsFiniteSet(DOMAIN l)
  BY DEF IsSeries
<1>3. Highs(f) = {h[i] : i \in DOMAIN h} /\ Lows(f) = {l[i] : i \in DOMAIN l}
  BY DEF Highs, Lows
<1> HIDE DEF h, l
<1>4. IsFiniteSet(Highs(f)) /\ IsFiniteSet(Lows(f))
  BY <1>2, <1>3, ImageFinite
<1>5. Highs(f) \in SUBSET Int /\ Lows(f) \in SUBSET Int /\ Highs(f) # {} /\ Lows(f) # {}
  BY <1>1 DEF Highs, Lows
<1>6. /\ Max(Highs(f)) \in Highs(f) /\ \A x \in Highs(f) : x <= Max(Highs(f))
      /\ Min(Lows(f)) \in Lows(f) /\ \A x \in Lows(f) : Min(Lows(f)) <= x
  BY <1>4, <1>5, Extremes
<1>7. \A i \in DOMAIN f : f[i].high \in Highs(f) /\ f[i].low \in Lows(f)
  BY DEF Highs, Lows
<1> QED BY <1>5, <1>6, <1>7

\* The volume-weighted price is a fraction of integers.
LEMMA VwapIs ==
    ASSUME NEW f, IsSeries(f), DOMAIN f # {}
    PROVE  Vwap(f)[1] \in Int /\ Vwap(f)[2] \in Int
<1> DEFINE D == DOMAIN f
           vol == [i \in D |-> f[i].vol]
           worth == [i \in D |-> (f[i].high + f[i].low + f[i].close) * f[i].vol]
<1>1. \A i \in D : vol[i] \in Int /\ worth[i] \in Int
  <2>1. TAKE i \in D
  <2>2. f[i].high \in Int /\ f[i].low \in Int /\ f[i].close \in Int /\ f[i].vol \in Int
    BY DEF IsSeries, BarSet
  <2> QED BY <2>2
<1>2. Vwap(f) = IF SumOf(vol, D) > 0 THEN <<SumOf(worth, D), 3 * SumOf(vol, D)>>
                ELSE <<Max(Highs(f)) + Min(Lows(f)), 2>>
  BY DEF Vwap
<1>3. IsFiniteSet(D)
  BY DEF IsSeries
<1> HIDE DEF D, vol, worth
<1>4. SumOf(vol, D) \in Int /\ SumOf(worth, D) \in Int
  BY <1>1, <1>3, SumsIntegral
<1>5. Max(Highs(f)) + Min(Lows(f)) \in Int
  BY Ranges
<1> DEFINE v == SumOf(vol, D)
           w == SumOf(worth, D)
           r == Max(Highs(f)) + Min(Lows(f))
<1>6. v \in Int /\ w \in Int /\ r \in Int /\ Vwap(f) = IF v > 0 THEN <<w, 3 * v>> ELSE <<r, 2>>
  BY <1>2, <1>4, <1>5
<1> HIDE DEF v, w, r
<1> QED BY <1>6

\* What a profile states is of the bars that fell into a period, and of an area
\* that the loop found around the point of control of their metric.
Traded(series, n) == Restrict(series, {i \in DOMAIN series : PeriodOf(series[i].ts, n) # 0})
ValueOf(m, poc, area) ==
    /\ Stretch(m, area) /\ poc \in area /\ Enough(m, area)
    /\ area = {poc} \/ Tight(m, area)

\* A profile that is built has a metric, and in it a point of control and an area that
\* the loop ends with.
LEMMA ProfileIs ==
    ASSUME NEW kind, NEW series, IsSeries(series), NEW n, BuildProfile(kind, series, n) # NoProfile
    PROVE  LET f == Traded(series, n)
               m == Metric(kind, f, n)
           IN  /\ IsSeries(f) /\ DOMAIN f # {} /\ IsMetric(m)
               /\ \E poc \in DOMAIN m, area \in SUBSET DOMAIN m :
                    /\ ValueOf(m, poc, area)
                    /\ BuildProfile(kind, series, n)
                         = Stated(f, LastOf(series).close, n, m, poc, [val |-> Min(area), vah |-> Max(area)])
<1> DEFINE f == Traded(series, n)
           m == Metric(kind, f, n)
           p == BuildProfile(kind, series, n)
           poc == Poc(m, Vwap(f))
           close == LastOf(series).close
<1>1. IsSeries(f)
  BY Restricted DEF Traded
<1>2. p = OfBars(kind, f, close, n)
  BY DEF BuildProfile, Traded
<1> HIDE DEF p, f
<1>3. DOMAIN f # {} /\ p = OfMetric(f, close, n, m)
  BY <1>2 DEF OfBars, p
<1>4. IsMetric(m)
  BY <1>1, <1>3, MetricIs
<1>5. p = Stated(f, close, n, m, poc, ValueArea(m, poc))
  BY <1>3 DEF OfMetric, p
<1>6. poc \in DOMAIN m
  BY <1>1, <1>3, <1>4, VwapIs, PocIs
<1> HIDE DEF m, poc
<1>7. PICK area \in SUBSET DOMAIN m :
          /\ ValueArea(m, poc) = [val |-> Min(area), vah |-> Max(area)]
          /\ Stretch(m, area) /\ poc \in area /\ Enough(m, area)
          /\ area = {poc} \/ Tight(m, area)
  BY <1>4, <1>6, ValueAreaIs
<1>8. ValueOf(m, poc, area)
  BY <1>7 DEF ValueOf
<1>9. p = Stated(f, close, n, m, poc, [val |-> Min(area), vah |-> Max(area)])
  BY <1>5, <1>7
<1> QED BY <1>1, <1>3, <1>4, <1>6, <1>8, <1>9 DEF p, f, m

\* The value area of every profile of a series of bars.
SoundArea(prof) ==
    LET inside == {b \in DOMAIN prof.metric : prof.val <= b * Bin /\ b * Bin <= prof.vah}
        share(S) == 100 * SumOf(prof.metric, S)
        target == ValueAreaPct * SumOf(prof.metric, DOMAIN prof.metric)
        top == {b \in inside : Cardinality({c \in inside : c > b}) < Expansion}
        bottom == {b \in inside : Cardinality({c \in inside : c < b}) < Expansion}
    IN  /\ prof.val <= prof.poc /\ prof.poc <= prof.vah
        /\ share(inside) >= target
        /\ \/ prof.val = prof.vah
           \/ \E cut \in {top, bottom} : share(inside \ cut) < target

\* So the value area of every profile is sound.
LEMMA ProfileSound ==
    ASSUME NEW kind, NEW series, IsSeries(series), NEW n, BuildProfile(kind, series, n) # NoProfile
    PROVE  SoundArea(BuildProfile(kind, series, n))
<1> DEFINE f == Traded(series, n)
           m == Metric(kind, f, n)
           prof == BuildProfile(kind, series, n)
<1>1. IsMetric(m)
  BY ProfileIs
<1>2. PICK poc \in DOMAIN m, area \in SUBSET DOMAIN m :
          /\ ValueOf(m, poc, area)
          /\ prof = Stated(f, LastOf(series).close, n, m, poc, [val |-> Min(area), vah |-> Max(area)])
  BY ProfileIs
<1> HIDE DEF f, m, prof
<1>3. prof.metric = m /\ prof.val = Min(area) * Bin /\ prof.vah = Max(area) * Bin /\ prof.poc = poc * Bin
  BY <1>2 DEF Stated
<1>4. area \in SUBSET Int /\ IsFiniteSet(area) /\ area # {} /\ poc \in area /\ DOMAIN m \in SUBSET Int
  BY <1>1, <1>2, FS_Subset DEF IsMetric, ValueOf
<1>5. /\ Min(area) \in area /\ Max(area) \in area /\ Min(area) \in Int /\ Max(area) \in Int /\ poc \in Int
      /\ \A x \in area : Min(area) <= x /\ x <= Max(area)
  BY <1>4, Extremes
<1>6. Bin \in Nat \ {0}
  BY ProfileAssumption
<1>7. prof.val <= prof.poc /\ prof.poc <= prof.vah
  BY <1>3, <1>4, <1>5, <1>6, Divides
<1> DEFINE inside == {b \in DOMAIN m : Min(area) * Bin <= b * Bin /\ b * Bin <= Max(area) * Bin}
<1>8. inside = area
  <2>1. \A b \in DOMAIN m : /\ (Min(area) * Bin <= b * Bin) <=> Min(area) <= b
                            /\ (b * Bin <= Max(area) * Bin) <=> b <= Max(area)
    BY <1>4, <1>5, <1>6, Divides
  <2>2. inside = {b \in DOMAIN m : Min(area) <= b /\ b <= Max(area)}
    BY <2>1
  <2> HIDE DEF inside
  <2>3. \A b \in DOMAIN m : Min(area) <= b /\ b <= Max(area) => b \in area
    BY <1>2, <1>5 DEF ValueOf, Stretch
  <2> QED BY <1>2, <1>5, <2>2, <2>3
<1> HIDE DEF inside
<1>9. area = {poc} => prof.val = prof.vah
  BY <1>3, <1>5
<1>10. SumOf(m, DOMAIN m) \in Nat /\ \A S \in SUBSET DOMAIN m : SumOf(m, S) \in Nat
  BY <1>1, MetricSums
<1>11. Tight(m, area) => \E cut \in {TopOf(area), BottomOf(area)} :
           100 * SumOf(m, area \ cut) < ValueAreaPct * SumOf(m, DOMAIN m)
  <2>1. \A cut : area \ cut \in SUBSET DOMAIN m
    BY <1>2
  <2>2. ValueAreaPct \in Int
    BY ProfileAssumption
  <2> DEFINE target == ValueAreaPct * SumOf(m, DOMAIN m)
             s(cut) == SumOf(m, area \ cut)
  <2>3. target \in Int /\ \A cut : s(cut) \in Nat
    BY <1>10, <2>1, <2>2
  <2>4. \A cut : ~Enough(m, area \ cut) <=> ~(100 * s(cut) >= target)
    BY DEF Enough
  <2> HIDE DEF target, s
  <2>5. \A cut : ~(100 * s(cut) >= target) => 100 * s(cut) < target
    BY <2>3
  <2> QED BY <2>4, <2>5 DEF Tight, target, s
<1>12. 100 * SumOf(m, area) >= ValueAreaPct * SumOf(m, DOMAIN m)
  BY <1>2 DEF ValueOf, Enough
<1>13. inside = {b \in DOMAIN prof.metric : prof.val <= b * Bin /\ b * Bin <= prof.vah}
  BY <1>3 DEF inside
<1>14. SoundArea(prof) <=>
          /\ prof.val <= prof.poc /\ prof.poc <= prof.vah
          /\ 100 * SumOf(m, area) >= ValueAreaPct * SumOf(m, DOMAIN m)
          /\ \/ prof.val = prof.vah
             \/ \E cut \in {TopOf(area), BottomOf(area)} :
                   100 * SumOf(m, area \ cut) < ValueAreaPct * SumOf(m, DOMAIN m)
  <2> DEFINE Says(w, in) ==
          /\ prof.val <= prof.poc /\ prof.poc <= prof.vah
          /\ 100 * SumOf(w, in) >= ValueAreaPct * SumOf(w, DOMAIN w)
          /\ \/ prof.val = prof.vah
             \/ \E cut \in { {b \in in : Cardinality({c \in in : c > b}) < Expansion},
                             {b \in in : Cardinality({c \in in : c < b}) < Expansion} } :
                   100 * SumOf(w, in \ cut) < ValueAreaPct * SumOf(w, DOMAIN w)
  <2>1. SoundArea(prof) <=>
          Says(prof.metric, {b \in DOMAIN prof.metric : prof.val <= b * Bin /\ b * Bin <= prof.vah})
    BY DEF SoundArea
  <2>2. Says(m, area) <=>
          /\ prof.val <= prof.poc /\ prof.poc <= prof.vah
          /\ 100 * SumOf(m, area) >= ValueAreaPct * SumOf(m, DOMAIN m)
          /\ \/ prof.val = prof.vah
             \/ \E cut \in {TopOf(area), BottomOf(area)} :
                   100 * SumOf(m, area \ cut) < ValueAreaPct * SumOf(m, DOMAIN m)
    BY DEF TopOf, BottomOf
  <2> HIDE DEF Says
  <2> QED BY <1>3, <1>8, <1>13, <2>1, <2>2
<1> QED BY <1>2, <1>7, <1>9, <1>11, <1>12, <1>14 DEF ValueOf, prof

-----------------------------------------------------------------------------
(* The sessions *)

SeriesInv ==
    /\ day \in Days /\ slot \in 0..SessionLen
    /\ bars \in Seq(BarSet)
    /\ \A i \in DOMAIN bars : bars[i].ts <= slot
    /\ \A i, j \in DOMAIN bars : i < j => bars[i].ts < bars[j].ts

\* Bars in the order of their slots are a series.
LEMMA SeriesOf ==
    ASSUME NEW s \in Seq(BarSet), \A i, j \in DOMAIN s : i < j => s[i].ts < s[j].ts
    PROVE  IsSeries(s)
<1>1. DOMAIN s = 1..Len(s) /\ Len(s) \in Nat /\ \A i \in DOMAIN s : s[i] \in BarSet
  OBVIOUS
<1>2. IsFiniteSet(DOMAIN s)
  BY <1>1, FS_Interval
<1> QED BY <1>1, <1>2 DEF IsSeries

\* A bar that prints comes after those there are.
LEMMA SeriesStep == SeriesInv /\ [Next]_vars => SeriesInv'
<1> SUFFICES ASSUME SeriesInv, [Next]_vars PROVE SeriesInv'
  OBVIOUS
<1>1. CASE BarPrints
  <2>1. PICK ts \in PrintSlots, b \in Prints[day] :
          /\ slot - Delay <= ts /\ ts <= slot
          /\ \A i \in DOMAIN bars : bars[i].ts < ts
          /\ bars' = Append(bars, [ts |-> ts, open |-> b.open, low |-> b.low, high |-> b.high,
                                   close |-> b.close, vol |-> b.vol])
          /\ UNCHANGED <<day, slot, row, prior>>
    BY <1>1 DEF BarPrints
  <2> DEFINE new == [ts |-> ts, open |-> b.open, low |-> b.low, high |-> b.high,
                     close |-> b.close, vol |-> b.vol]
  <2>2. new \in BarSet /\ new.ts = ts
    <3>1. b \in [open : Int, low : Int, high : Int, close : Int, vol : Nat] /\ b.low <= b.high
      <4>1. day \in Days /\ Prints[day] \in SUBSET [open : Int, low : Int, high : Int, close : Int, vol : Nat]
        BY EventAssumption DEF SeriesInv, Days
      <4> QED BY <4>1, EventAssumption
    <3> QED BY <3>1 DEF BarSet
  <2> HIDE DEF new
  <2>3. bars' = Append(bars, new) /\ bars \in Seq(BarSet)
    BY <2>1 DEF SeriesInv, new
  <2>4. bars' \in Seq(BarSet) /\ DOMAIN bars' = 1..(Len(bars) + 1) /\ DOMAIN bars = 1..Len(bars) /\ Len(bars) \in Nat
    BY <2>2, <2>3
  <2>5. \A i \in 1..Len(bars) : bars'[i] = bars[i]
    BY <2>2, <2>3
  <2>6. bars'[Len(bars) + 1] = new
    BY <2>2, <2>3
  <2>7. \A i \in DOMAIN bars' : i = Len(bars) + 1 \/ i \in DOMAIN bars
    BY <2>4
  <2>8. \A i \in DOMAIN bars' : bars'[i].ts <= slot
    BY <2>1, <2>2, <2>4, <2>5, <2>6, <2>7 DEF SeriesInv
  <2>9. ASSUME NEW i \in DOMAIN bars', NEW j \in DOMAIN bars', i < j PROVE bars'[i].ts < bars'[j].ts
    <3>1. i \in DOMAIN bars
      BY <2>4, <2>9
    <3>2. CASE j \in DOMAIN bars
      BY <2>4, <2>5, <2>9, <3>1, <3>2 DEF SeriesInv
    <3>3. CASE j = Len(bars) + 1
      BY <2>1, <2>2, <2>4, <2>5, <2>6, <3>1, <3>3
    <3> QED BY <2>7, <3>2, <3>3
  <2> QED BY <2>1, <2>4, <2>8, <2>9 DEF SeriesInv
<1>2. CASE Tick
  <2>1. slot' = slot + 1 /\ slot < SessionLen /\ slot \in 0..SessionLen /\ SessionLen \in Nat
        /\ day' = day /\ bars' = bars
    BY <1>2, ProfileAssumption DEF Tick, SeriesInv
  <2>2. slot' \in 0..SessionLen
    BY <2>1
  <2>3. \A i \in DOMAIN bars : bars[i].ts <= slot'
    <3>1. TAKE i \in DOMAIN bars
    <3>2. bars[i].ts \in Int
      <4>1. bars[i] \in BarSet
        BY DEF SeriesInv
      <4>2. bars[i].ts \in PrintSlots
        BY <4>1 DEF BarSet
      <4>3. \A x \in PrintSlots : x \in Int
        BY EventAssumption, ProfileAssumption
      <4> QED BY <4>2, <4>3, Zenon
    <3> QED BY <2>1, <3>2 DEF SeriesInv
  <2> QED BY <2>1, <2>2, <2>3 DEF SeriesInv
<1>3. CASE Cycle
  BY <1>3 DEF Cycle, SeriesInv
<1>4. CASE NextDay
  <2>1. day' \in Days /\ slot' = 0 /\ bars' = <<>>
    BY <1>4 DEF NextDay
  <2> QED BY <2>1, ProfileAssumption DEF SeriesInv
<1>5. CASE UNCHANGED vars
  BY <1>5 DEF vars, SeriesInv
<1> QED BY <1>1, <1>2, <1>3, <1>4, <1>5 DEF Next

\* A day begins with no bars.
LEMMA SeriesInit == Init => SeriesInv
<1>1. 1 \in Days
  BY EventAssumption DEF Days
<1> QED BY <1>1, ProfileAssumption DEF Init, SeriesInv

\* The bars of a session are in the order of their slots, none later than now:
\* what a cycle hands to build_profile.
THEOREM BarsInOrder == Spec => []SeriesInv
BY SeriesInit, SeriesStep, PTL DEF Spec

\* The value area of every profile a cycle builds (build_profile, its expansion loop)
\* is one stretch around the point of control that holds its share and no more
\* expansions than it needs.
THEOREM ValueAreaHolds == Spec => []ValueAreaSound
<1>1. SeriesInv => ValueAreaSound
  <2> SUFFICES ASSUME SeriesInv,
                      NEW prof \in {BuildProfile(kind, bars, Len(Periods)) : kind \in {"TPO", "VOLUME"}},
                      prof # NoProfile
               PROVE  SoundArea(prof)
    BY DEF ValueAreaSound, SoundArea
  <2>1. IsSeries(bars)
    BY SeriesOf DEF SeriesInv
  <2> QED BY <2>1, ProfileSound
<1> QED BY <1>1, BarsInOrder, PTL

-----------------------------------------------------------------------------
(* The machines of the events *)

Ids == {"MP-010", "MP-011", "MP-016", "MP-017", "MP-019", "MP-020", "MP-015", "MP-012", "MP-013"}
Dirs == {"UP", "DOWN", "NONE"}
Strengths == {"WEAK", "MODERATE", "STRONG"}
States == {"NOT_TRIGGERED", "TRIGGERED", "DEVELOPING", "CONFIRMED", "INVALIDATED", "EXPIRED"}
Histories == Seq([state : States, at : Int])
EventSet ==
    [id : Ids, dir : Dirs, state : States, strength : Strengths, hist : Histories, full : Int, opp : Int,
     developed : BOOLEAN, accepted : BOOLEAN, done : BOOLEAN]

\* An event is in the state its history ends in.
IsEvent(e) ==
    /\ e \in EventSet
    /\ e.hist = <<>> <=> e.state = "NOT_TRIGGERED"
    /\ e.hist # <<>> => e.state = Last(e.hist).state

\* The beginning of a beginning is a beginning.
LEMMA Chains ==
    ASSUME NEW H, NEW a \in Seq(H), NEW b \in Seq(H), NEW c \in Seq(H), IsPrefix(a, b), IsPrefix(b, c)
    PROVE  IsPrefix(a, c)
<1>1. /\ Len(a) <= Len(b) /\ Len(b) <= Len(c) /\ Len(a) \in Nat /\ Len(b) \in Nat /\ Len(c) \in Nat
      /\ \A i \in 1..Len(a) : SubSeq(a, 1, Len(a))[i] = SubSeq(b, 1, Len(a))[i]
      /\ \A i \in 1..Len(b) : SubSeq(b, 1, Len(b))[i] = SubSeq(c, 1, Len(b))[i]
  BY DEF IsPrefix
<1>2. \A i \in 1..Len(a) : a[i] = b[i]
  BY <1>1
<1>3. \A i \in 1..Len(b) : b[i] = c[i]
  BY <1>1
<1>4. \A i \in 1..Len(a) : a[i] = c[i]
  BY <1>1, <1>2, <1>3
<1> QED BY <1>1, <1>4 DEF IsPrefix

\* What a transition does to an event: its history grows, nothing else changes.
LEMMA Transits ==
    ASSUME NEW e, IsEvent(e), NEW state \in States, state # "NOT_TRIGGERED", NEW at \in Int
    PROVE  LET t == Transition(e, state, at)
           IN  /\ IsEvent(t) /\ IsPrefix(e.hist, t.hist) /\ t.hist # <<>>
               /\ t.state = state /\ t.id = e.id /\ t.dir = e.dir /\ t.strength = e.strength
               /\ t.full = e.full /\ t.opp = e.opp
               /\ t.developed = e.developed /\ t.accepted = e.accepted /\ t.done = e.done
<1> DEFINE t == Transition(e, state, at)
           new == [state |-> state, at |-> at]
           H == [state : States, at : Int]
<1>1. CASE e.hist # <<>> /\ Last(e.hist).state = state
  <2>1. t = e
    BY <1>1 DEF Transition
  <2>2. IsPrefix(e.hist, e.hist)
    BY DEF IsPrefix, IsEvent, EventSet, Histories
  <2> QED BY <1>1, <2>1, <2>2 DEF IsEvent
<1>2. CASE ~(e.hist # <<>> /\ Last(e.hist).state = state)
  <2>1. t = [e EXCEPT !.state = state, !.hist = Append(e.hist, new)]
    BY <1>2 DEF Transition
  <2>2. e.hist \in Seq(H) /\ new \in H /\ new.state = state
    BY DEF IsEvent, EventSet, Histories
  <2> HIDE DEF new, H
  <2>3. Append(e.hist, new) \in Seq(H) /\ Append(e.hist, new) # <<>> /\ Last(Append(e.hist, new)) = new
    BY <2>2 DEF Last
  <2>4. IsPrefix(e.hist, Append(e.hist, new))
    <3>1. /\ Len(e.hist) <= Len(Append(e.hist, new))
          /\ \A i \in 1..Len(e.hist) : e.hist[i] = Append(e.hist, new)[i]
      BY <2>2
    <3> QED BY <2>2, <2>3, <3>1 DEF IsPrefix
  <2>5. t \in EventSet
    BY <2>1, <2>3 DEF IsEvent, EventSet, H, Histories
  <2>6. /\ t.hist = Append(e.hist, new) /\ t.state = state /\ t.id = e.id /\ t.dir = e.dir
        /\ t.strength = e.strength /\ t.full = e.full /\ t.opp = e.opp
        /\ t.developed = e.developed /\ t.accepted = e.accepted /\ t.done = e.done
    BY <2>1 DEF IsEvent, EventSet
  <2> QED BY <2>2, <2>3, <2>4, <2>5, <2>6 DEF IsEvent
<1> QED BY <1>1, <1>2

\* What an acceptance is, from its first bracket to its last: accepted exactly
\* while confirmed, developed before, and over when it has failed.
Levels == {"prev_vah", "prev_val", "prev_high", "prev_low", "ib_high", "ib_low"}
IsAcceptance(e) ==
    /\ IsEvent(e)
    /\ e.done => e.state = "INVALIDATED"
    /\ ~e.done => /\ e.state \in {"NOT_TRIGGERED", "TRIGGERED", "DEVELOPING", "CONFIRMED"}
                  /\ e.accepted <=> e.state = "CONFIRMED"
    /\ e.accepted => e.developed

\* A new event is one that has not been triggered.
LEMMA BeginsAcceptance ==
    ASSUME NEW id \in Ids, NEW dir \in Dirs, NEW strength \in Strengths
    PROVE  LET e == NewEvent(id, dir, strength)
           IN  IsAcceptance(e) /\ e.id = id /\ e.full = 0 /\ ~e.developed /\ ~e.accepted /\ ~e.done
<1>1. <<>> \in Histories
  BY DEF Histories
<1> QED BY <1>1 DEF NewEvent, IsAcceptance, IsEvent, EventSet, States

\* What a bracket beyond the level makes of it.
LEMMA StepsFull ==
    ASSUME NEW e, IsAcceptance(e), ~e.done, NEW p \in Int, NEW s, NEW dir, NEW level
    PROVE  LET n == FullStep(e, p, s, dir, level)
               enough == e.full + 1 >= Brackets /\ ~e.accepted
               edge == IF dir = "UP" THEN s.dev.val ELSE s.dev.vah
           IN  /\ IsAcceptance(n) /\ n.id = e.id /\ ~n.done
               /\ IsPrefix(e.hist, n.hist) /\ n.hist # <<>>
               /\ n.full = e.full + 1
               /\ n.developed = (e.developed \/ enough)
               /\ n.accepted = (e.accepted \/ (n.developed /\ Beyond(dir, edge, level)))
<1> DEFINE full == e.full + 1
           begun == IF e.state = "NOT_TRIGGERED" THEN Transition(e, "TRIGGERED", p) ELSE e
           enough == full >= Brackets /\ ~e.accepted
           built == IF enough /\ begun.state \in {"TRIGGERED", "DEVELOPING"}
                    THEN Transition(begun, "DEVELOPING", p) ELSE begun
           edge == IF dir = "UP" THEN s.dev.val ELSE s.dev.vah
           developed == e.developed \/ enough
           beyond == Beyond(dir, edge, level)
           n == FullStep(e, p, s, dir, level)
           Same(x, y) == /\ x.id = y.id /\ x.dir = y.dir /\ x.full = y.full
                         /\ x.developed = y.developed /\ x.accepted = y.accepted /\ x.done = y.done
<1>0. /\ e \in EventSet /\ IsEvent(e) /\ full \in Int /\ e.accepted \in BOOLEAN /\ developed \in BOOLEAN
      /\ IsPrefix(e.hist, e.hist)
  BY DEF IsAcceptance, IsEvent, EventSet, IsPrefix, Histories
<1>1. n = IF developed /\ beyond /\ built.state # "CONFIRMED"
          THEN [Transition(built, "CONFIRMED", p) EXCEPT
                   !.full = full, !.opp = 0, !.developed = TRUE, !.accepted = TRUE, !.strength = "STRONG"]
          ELSE [built EXCEPT !.full = full, !.opp = 0, !.developed = developed]
  BY DEF FullStep
<1>2. /\ IsEvent(begun) /\ Same(begun, e) /\ IsPrefix(e.hist, begun.hist) /\ begun.hist # <<>>
      /\ begun.state \in {"TRIGGERED", "DEVELOPING", "CONFIRMED"}
      /\ begun.state = "CONFIRMED" <=> e.state = "CONFIRMED"
  <2>1. CASE e.state = "NOT_TRIGGERED"
    <3> DEFINE t == Transition(e, "TRIGGERED", p)
    <3>1. /\ IsEvent(t) /\ Same(t, e) /\ IsPrefix(e.hist, t.hist) /\ t.hist # <<>> /\ t.state = "TRIGGERED"
      <4>1. IsEvent(e) /\ "TRIGGERED" \in States
        BY <1>0 DEF States
      <4> HIDE DEF begun, built, enough, full, developed, n, beyond, edge
      <4> QED BY <4>1, Transits
    <3>2. begun = t
      BY <2>1
    <3> HIDE DEF begun, t
    <3> QED BY <2>1, <3>1, <3>2
  <2>2. CASE e.state # "NOT_TRIGGERED"
    <3>1. begun = e /\ e.hist # <<>>
      BY <1>0, <2>2 DEF IsEvent
    <3> HIDE DEF begun
    <3>2. e.state \in {"TRIGGERED", "DEVELOPING", "CONFIRMED"}
      BY <2>2 DEF IsAcceptance
    <3> QED BY <1>0, <3>1, <3>2
  <2> QED BY <2>1, <2>2
<1> HIDE DEF begun
<1>3. /\ IsEvent(built) /\ Same(built, e) /\ IsPrefix(begun.hist, built.hist) /\ built.hist # <<>>
      /\ built.state \in {"TRIGGERED", "DEVELOPING", "CONFIRMED"}
      /\ built.state = "CONFIRMED" <=> e.state = "CONFIRMED"
  <2>1. IsPrefix(begun.hist, begun.hist)
    BY <1>2 DEF IsEvent, EventSet, IsPrefix, Histories
  <2>2. CASE enough /\ begun.state \in {"TRIGGERED", "DEVELOPING"}
    <3> DEFINE t == Transition(begun, "DEVELOPING", p)
    <3>1. /\ IsEvent(t) /\ Same(t, begun) /\ IsPrefix(begun.hist, t.hist) /\ t.hist # <<>> /\ t.state = "DEVELOPING"
      BY <1>2, Transits DEF States
    <3>2. built = t
      BY <2>2
    <3> HIDE DEF built, t
    <3> QED BY <1>2, <2>2, <3>1, <3>2
  <2>3. CASE ~(enough /\ begun.state \in {"TRIGGERED", "DEVELOPING"})
    <3>1. built = begun
      BY <2>3
    <3> HIDE DEF built
    <3> QED BY <1>2, <2>1, <3>1
  <2> QED BY <2>2, <2>3
<1> HIDE DEF built
<1>4. IsPrefix(e.hist, built.hist)
  <2>1. e.hist \in Histories /\ begun.hist \in Histories
        /\ built.hist \in Histories
    BY <1>0, <1>2, <1>3 DEF IsEvent, EventSet
  <2> QED BY <1>2, <1>3, <2>1, Chains DEF Histories
<1>5. CASE developed /\ beyond /\ built.state # "CONFIRMED"
  <2> DEFINE c == Transition(built, "CONFIRMED", p)
  <2>1. /\ IsEvent(c) /\ Same(c, e) /\ IsPrefix(built.hist, c.hist) /\ c.hist # <<>> /\ c.state = "CONFIRMED"
    <3>1. IsEvent(built) /\ "CONFIRMED" \in States
      BY <1>3 DEF States
    <3> HIDE DEF n, full, enough, developed, beyond, edge
    <3> QED BY <1>3, <3>1, Transits
  <2>2. n = [c EXCEPT !.full = full, !.opp = 0, !.developed = TRUE, !.accepted = TRUE, !.strength = "STRONG"]
    BY <1>1, <1>5
  <2> HIDE DEF c, full, n, developed, beyond
  <2>3. /\ n \in EventSet /\ n.hist = c.hist /\ n.state = "CONFIRMED" /\ n.id = e.id /\ n.full = full
        /\ n.developed = TRUE /\ n.accepted = TRUE /\ ~n.done
    <3>1. c \in EventSet /\ full \in Int /\ "STRONG" \in Strengths /\ c.done = e.done /\ c.id = e.id
      BY <1>0, <2>1 DEF IsEvent, Strengths
    <3> HIDE DEF Same
    <3>2. n = [id |-> c.id, dir |-> c.dir, state |-> c.state, strength |-> "STRONG", hist |-> c.hist,
               full |-> full, opp |-> 0, developed |-> TRUE, accepted |-> TRUE, done |-> c.done]
      BY <2>2, <3>1 DEF EventSet
    <3>4. n \in EventSet
      BY <3>1, <3>2 DEF EventSet
    <3>3. /\ n.hist = c.hist /\ n.state = c.state /\ n.id = c.id /\ n.full = full
          /\ n.developed = TRUE /\ n.accepted = TRUE /\ n.done = c.done
      BY <3>2
    <3> QED BY <2>1, <3>1, <3>3, <3>4
  <2>4. IsAcceptance(n)
    BY <2>1, <2>3 DEF IsAcceptance, IsEvent
  <2>5. IsPrefix(e.hist, n.hist)
    <3>1. e.hist \in Histories /\ built.hist \in Histories
          /\ c.hist \in Histories
      BY <1>0, <1>3, <2>1 DEF IsEvent, EventSet
    <3> QED BY <1>4, <2>1, <2>3, <3>1, Chains DEF Histories
  <2> QED BY <1>5, <2>1, <2>3, <2>4, <2>5 DEF full, n, developed, beyond
<1>6. CASE ~(developed /\ beyond /\ built.state # "CONFIRMED")
  <2>1. n = [built EXCEPT !.full = full, !.opp = 0, !.developed = developed]
    BY <1>1, <1>6
  <2> HIDE DEF full, n, beyond, developed
  <2>2. /\ n \in EventSet /\ n.hist = built.hist /\ n.state = built.state /\ n.id = e.id /\ n.full = full
        /\ n.developed = developed /\ n.accepted = e.accepted /\ ~n.done
    <3>1. built \in EventSet /\ full \in Int /\ developed \in BOOLEAN
          /\ built.done = e.done /\ built.id = e.id /\ built.accepted = e.accepted
      BY <1>0, <1>3 DEF IsEvent, developed, full
    <3> HIDE DEF Same
    <3>2. n = [id |-> built.id, dir |-> built.dir, state |-> built.state, strength |-> built.strength,
               hist |-> built.hist, full |-> full, opp |-> 0, developed |-> developed,
               accepted |-> built.accepted, done |-> built.done]
      BY <2>1, <3>1 DEF EventSet
    <3>4. n \in EventSet
      BY <3>1, <3>2 DEF EventSet
    <3>3. /\ n.hist = built.hist /\ n.state = built.state /\ n.id = built.id /\ n.full = full
          /\ n.developed = developed /\ n.accepted = built.accepted /\ n.done = built.done
      BY <3>2
    <3> QED BY <3>1, <3>3, <3>4
  <2>3. e.accepted => developed
    BY DEF IsAcceptance, developed
  <2>4. e.accepted <=> e.state = "CONFIRMED"
    BY DEF IsAcceptance
  <2>5. IsAcceptance(n)
    BY <1>3, <2>2, <2>3, <2>4 DEF IsAcceptance, IsEvent
  <2>6. n.accepted = (e.accepted \/ (n.developed /\ beyond))
    BY <1>0, <1>3, <1>6, <2>2, <2>4
  <2> QED BY <1>3, <1>4, <2>2, <2>5, <2>6 DEF full, n, developed, beyond
<1> QED BY <1>5, <1>6

\* Its counters may be set.
Reset(e, opp) == [e EXCEPT !.opp = opp, !.full = 0]

\* A reset of the counters leaves the event as it is.
LEMMA Resets ==
    ASSUME NEW e, NEW opp \in Int, NEW n, IsAcceptance(e), ~e.done, n = Reset(e, opp)
    PROVE  /\ IsAcceptance(n) /\ n.id = e.id /\ n.hist = e.hist /\ IsPrefix(e.hist, n.hist) /\ n.full = 0
           /\ n.developed = e.developed /\ n.accepted = e.accepted
<1>0. e \in EventSet /\ IsEvent(e) /\ IsPrefix(e.hist, e.hist)
  BY DEF IsAcceptance, IsEvent, EventSet, IsPrefix, Histories
<1>1. n = [id |-> e.id, dir |-> e.dir, state |-> e.state, strength |-> e.strength, hist |-> e.hist,
           full |-> 0, opp |-> opp, developed |-> e.developed, accepted |-> e.accepted, done |-> e.done]
  BY <1>0 DEF EventSet, Reset
<1>2. n \in EventSet
  BY <1>0, <1>1 DEF EventSet
<1>3. /\ n.hist = e.hist /\ n.state = e.state /\ n.id = e.id /\ n.full = 0 /\ n.done = e.done
      /\ n.developed = e.developed /\ n.accepted = e.accepted
  BY <1>1
<1>4. IsAcceptance(n)
  BY <1>0, <1>2, <1>3 DEF IsAcceptance, IsEvent
<1> QED BY <1>0, <1>3, <1>4

\* What a bracket on the other side of the level makes of it.
LEMMA StepsOpposite ==
    ASSUME NEW e, IsAcceptance(e), ~e.done, NEW p \in Int, NEW s, NEW dir, NEW level, NEW isRange
    PROVE  LET n == OppositeStep(e, p, s, dir, level, isRange)
           IN  /\ IsAcceptance(n) /\ n.id = e.id /\ IsPrefix(e.hist, n.hist)
               /\ n.done \/ (n.full = 0 /\ n.developed = e.developed /\ n.accepted = e.accepted)
<1> DEFINE opp == e.opp + 1
           origin == ~Beyond(dir, s.dev.poc, level)
           fails == \/ (e.developed \/ e.accepted) /\ opp >= 2 /\ origin
                    \/ isRange /\ e.state = "TRIGGERED" /\ InValue(s) /\ origin
           n == OppositeStep(e, p, s, dir, level, isRange)
           t == Transition(e, "INVALIDATED", p)
<1>0. e \in EventSet /\ IsEvent(e) /\ opp \in Int /\ e.hist \in Histories
  BY DEF IsAcceptance, IsEvent, EventSet
<1>1. n = IF fails THEN [t EXCEPT !.strength = "STRONG", !.done = TRUE] ELSE [e EXCEPT !.opp = opp, !.full = 0]
  BY DEF OppositeStep
<1> HIDE DEF fails, opp, n
<1>2. CASE fails
  <2>1. /\ IsEvent(t) /\ IsPrefix(e.hist, t.hist) /\ t.state = "INVALIDATED" /\ t.id = e.id
        /\ t.developed = e.developed /\ t.accepted = e.accepted
    <3>1. "INVALIDATED" \in States
      BY DEF States
    <3> QED BY <1>0, <3>1, Transits
  <2>2. n = [t EXCEPT !.strength = "STRONG", !.done = TRUE]
    BY <1>1, <1>2
  <2> HIDE DEF t
  <2>3. n = [id |-> t.id, dir |-> t.dir, state |-> t.state, strength |-> "STRONG", hist |-> t.hist,
             full |-> t.full, opp |-> t.opp, developed |-> t.developed, accepted |-> t.accepted, done |-> TRUE]
    BY <2>1, <2>2 DEF IsEvent, EventSet
  <2>4. n \in EventSet
    BY <2>1, <2>3 DEF IsEvent, EventSet, Strengths
  <2>5. /\ n.hist = t.hist /\ n.state = "INVALIDATED" /\ n.id = t.id /\ n.done = TRUE
        /\ n.developed = t.developed /\ n.accepted = t.accepted
    BY <2>1, <2>3
  <2>6. n.accepted => n.developed
    BY <2>1, <2>5 DEF IsAcceptance
  <2>7. IsEvent(n)
    BY <2>1, <2>4, <2>5 DEF IsEvent
  <2>8. IsAcceptance(n)
    BY <2>5, <2>6, <2>7 DEF IsAcceptance
  <2> QED BY <2>1, <2>5, <2>8 DEF n
<1>3. CASE ~fails
  <2>1. n = Reset(e, opp)
    BY <1>1, <1>3 DEF Reset
  <2>2. /\ IsAcceptance(n) /\ n.id = e.id /\ n.hist = e.hist /\ IsPrefix(e.hist, n.hist) /\ n.full = 0
        /\ n.developed = e.developed /\ n.accepted = e.accepted
    <3> HIDE DEF t, origin
    <3> QED BY <1>0, <2>1, Resets
  <2> QED BY <2>2 DEF n
<1> QED BY <1>2, <1>3

\* One bracket.
Stepped(e, s, name, dir, n, full) ==
    /\ IsAcceptance(n) /\ n.id = e.id /\ IsPrefix(e.hist, n.hist)
    /\ e.done => n = e
    /\ ~e.done /\ s.rel[name] = Full(dir) => n = full
    /\ ~e.done /\ s.rel[name] # Full(dir) =>
           n.done \/ (n.full = 0 /\ n.developed = e.developed /\ n.accepted = e.accepted)

\* What one bracket makes of an acceptance.
LEMMA StepsAcceptance ==
    ASSUME NEW e, NEW p \in Int, NEW s, NEW name, NEW dir \in {"UP", "DOWN"}, NEW level, NEW isRange,
           IsAcceptance(e)
    PROVE  Stepped(e, s, name, dir, AcceptanceStep(e, p, s, name, dir, level, isRange),
                   FullStep(e, p, s, dir, level))
<1> DEFINE rel == s.rel[name]
           probed == IF rel \in Partial /\ e.state = "NOT_TRIGGERED" THEN Transition(e, "TRIGGERED", p) ELSE e
           n == AcceptanceStep(e, p, s, name, dir, level, isRange)
<1>0. e \in EventSet /\ IsEvent(e) /\ e.hist \in Histories /\ IsPrefix(e.hist, e.hist)
  BY DEF IsAcceptance, IsEvent, EventSet, IsPrefix, Histories
<1>1. n = CASE e.done -> e
            [] ~e.done /\ rel = Full(dir) -> FullStep(probed, p, s, dir, level)
            [] ~e.done /\ rel = Full(Opposite(dir)) -> OppositeStep(probed, p, s, dir, level, isRange)
            [] OTHER -> [probed EXCEPT !.full = 0, !.opp = 0]
  BY DEF AcceptanceStep
<1>2. Full(dir) \notin Partial /\ Full(Opposite(dir)) \notin Partial /\ Full(dir) # Full(Opposite(dir))
  BY DEF Full, Partial, Opposite
<1>3. rel \notin Partial => probed = e
  OBVIOUS
<1> HIDE DEF n, rel, Stepped
<1>4. CASE e.done
  <2>1. n = e
    BY <1>1, <1>4
  <2> QED BY <1>0, <1>4, <2>1 DEF n, rel, Stepped
<1>5. CASE ~e.done /\ rel = Full(dir)
  <2>1. n = FullStep(e, p, s, dir, level)
    <3>1. probed = e
      BY <1>2, <1>3, <1>5
    <3> HIDE DEF probed
    <3> QED BY <1>1, <1>2, <1>5, <3>1
  <2>2. IsAcceptance(n) /\ n.id = e.id /\ IsPrefix(e.hist, n.hist)
    BY <1>5, <2>1, StepsFull
  <2> QED BY <1>5, <2>1, <2>2 DEF n, rel, Stepped
<1>6. CASE ~e.done /\ rel = Full(Opposite(dir))
  <2>1. n = OppositeStep(e, p, s, dir, level, isRange)
    <3>1. probed = e
      BY <1>2, <1>3, <1>6
    <3> HIDE DEF probed
    <3> QED BY <1>1, <1>2, <1>6, <3>1
  <2>2. /\ IsAcceptance(n) /\ n.id = e.id /\ IsPrefix(e.hist, n.hist)
        /\ n.done \/ (n.full = 0 /\ n.developed = e.developed /\ n.accepted = e.accepted)
    BY <1>6, <2>1, StepsOpposite
  <2> QED BY <1>2, <1>6, <2>2 DEF n, rel, Stepped
<1>7. CASE ~e.done /\ rel # Full(dir) /\ rel # Full(Opposite(dir))
  <2>1. /\ IsAcceptance(probed) /\ probed.id = e.id /\ IsPrefix(e.hist, probed.hist) /\ ~probed.done
        /\ probed.developed = e.developed /\ probed.accepted = e.accepted
    <3>1. CASE rel \in Partial /\ e.state = "NOT_TRIGGERED"
      <4> DEFINE t == Transition(e, "TRIGGERED", p)
      <4>1. /\ IsEvent(t) /\ IsPrefix(e.hist, t.hist) /\ t.state = "TRIGGERED" /\ t.id = e.id
            /\ t.developed = e.developed /\ t.accepted = e.accepted /\ t.done = e.done
        <5>1. "TRIGGERED" \in States
          BY DEF States
        <5> HIDE DEF probed
        <5> QED BY <1>0, <5>1, Transits
      <4>2. probed = t
        BY <3>1
      <4>3. ~e.accepted
        BY <1>7, <3>1 DEF IsAcceptance
      <4> HIDE DEF t, probed
      <4> QED BY <1>7, <4>1, <4>2, <4>3 DEF IsAcceptance
    <3>2. CASE ~(rel \in Partial /\ e.state = "NOT_TRIGGERED")
      <4>1. probed = e
        BY <3>2
      <4> HIDE DEF probed
      <4> QED BY <1>0, <1>7, <4>1
    <3> QED BY <3>1, <3>2
  <2> HIDE DEF probed
  <2>2. n = [probed EXCEPT !.full = 0, !.opp = 0]
    BY <1>1, <1>7
  <2>3. n = Reset(probed, 0)
    BY <2>1, <2>2 DEF IsAcceptance, IsEvent, EventSet, Reset
  <2>4. /\ IsAcceptance(n) /\ n.id = probed.id /\ n.hist = probed.hist /\ n.full = 0
        /\ n.developed = probed.developed /\ n.accepted = probed.accepted
    <3>1. 0 \in Int
      OBVIOUS
    <3> QED BY <2>1, <2>3, <3>1, Resets
  <2> QED BY <1>7, <2>1, <2>4 DEF n, rel, Stepped
<1> QED BY <1>4, <1>5, <1>6, <1>7

\* In short: what a turn does to what makes it accept.
Turned(e, n, full, beyond) ==
    /\ e.done => n = e
    /\ ~e.done /\ full =>
          /\ n.full = e.full + 1
          /\ n.developed = (e.developed \/ (e.full + 1 >= Brackets /\ ~e.accepted))
          /\ n.accepted = (e.accepted \/ (n.developed /\ beyond))
    /\ ~e.done /\ ~full => n.done \/ (n.full = 0 /\ n.developed = e.developed /\ n.accepted = e.accepted)

\* And in short.
LEMMA Turns ==
    ASSUME NEW e, NEW p \in Int, NEW s, NEW name, NEW dir \in {"UP", "DOWN"}, NEW level, NEW isRange,
           IsAcceptance(e)
    PROVE  Turned(e, AcceptanceStep(e, p, s, name, dir, level, isRange), s.rel[name] = Full(dir),
                  Beyond(dir, IF dir = "UP" THEN s.dev.val ELSE s.dev.vah, level))
<1> DEFINE n == AcceptanceStep(e, p, s, name, dir, level, isRange)
           edge == IF dir = "UP" THEN s.dev.val ELSE s.dev.vah
           full == s.rel[name] = Full(dir)
           beyond == Beyond(dir, edge, level)
<1>1. Stepped(e, s, name, dir, n, FullStep(e, p, s, dir, level))
  BY StepsAcceptance, Zenon
<1> HIDE DEF n
<1>2. ASSUME ~e.done, full
      PROVE  /\ n.full = e.full + 1
             /\ n.developed = (e.developed \/ (e.full + 1 >= Brackets /\ ~e.accepted))
             /\ n.accepted = (e.accepted \/ (n.developed /\ beyond))
  <2>1. n = FullStep(e, p, s, dir, level)
    BY <1>1, <1>2 DEF Stepped
  <2> QED BY <1>2, <2>1, StepsFull
<1> HIDE DEF beyond
<1>3. Turned(e, n, full, beyond)
  BY <1>1, <1>2 DEF Turned, Stepped
<1> QED BY <1>3 DEF n, beyond

-----------------------------------------------------------------------------
(* The machines over the brackets *)

\* The level of a name, and one turn of the machine of <<f, name, dir, isRange>>.
LevelOf(f, name, s) ==
    CASE name = "ib_high" -> s.dev.ibHigh [] name = "ib_low" -> s.dev.ibLow [] OTHER -> PriorLevel(f.prior, name)
AccStep(c, e, p) ==
    IF p \in DOMAIN c[1].snaps
    THEN IF c[2] \in DOMAIN c[1].snaps[p].rel
         THEN AcceptanceStep(e, p, c[1].snaps[p], c[2], c[3], LevelOf(c[1], c[2], c[1].snaps[p]), c[4])
         ELSE e
    ELSE e
AccRun(c, id, k) == FoldLeft(LAMBDA a, i : AccStep(c, a, i), NewEvent(id, c[3], "WEAK"), [i \in 1..k |-> i])

\* After every bracket: one machine, and of two the inner ahead of the outer.
RunHolds(x, k) ==
    LET e == AccRun(x[1], x[2], k)
    IN  IsAcceptance(e) /\ e.id = x[2]
Ahead(outer, inner) ==
    \/ outer.done \/ inner.done
    \/ /\ outer.full <= inner.full /\ 0 <= inner.full
       /\ outer.developed => inner.developed
       /\ outer.accepted => inner.accepted

RunFold == INSTANCE FoldFacts WITH Step <- AccStep, Holds <- RunHolds

\* The machine takes one turn after the other.
LEMMA RunFolds ==
    ASSUME NEW c, NEW id
    PROVE  /\ AccRun(c, id, 0) = NewEvent(id, c[3], "WEAK")
           /\ \A k \in Nat : AccRun(c, id, k + 1) = AccStep(c, AccRun(c, id, k), k + 1)
<1> DEFINE start == NewEvent(id, c[3], "WEAK")
<1>1. \A k : AccRun(c, id, k) = RunFold!Folded(c, start, k)
  BY DEF AccRun, RunFold!Folded, FoldLeft, RunFold!FoldLeft, MapThenFoldSet, RunFold!MapThenFoldSet, Max, RunFold!Max
<1>2. /\ RunFold!Folded(c, start, 0) = start
      /\ \A k \in Nat : RunFold!Folded(c, start, k + 1) = AccStep(c, RunFold!Folded(c, start, k), k + 1)
  BY RunFold!FoldNext, Zenon
<1> HIDE DEF start
<1>3. AccRun(c, id, 0) = start /\ \A k \in Nat : AccRun(c, id, k + 1) = AccStep(c, AccRun(c, id, k), k + 1)
  BY <1>1, <1>2
<1> QED BY <1>3 DEF start

\* The event is what the machine ends with, closed.
LEMMA AcceptanceRuns ==
    ASSUME NEW f, NEW id, NEW name, NEW dir, NEW isRange
    PROVE  AcceptanceEvent(f, id, name, dir, isRange)
             = AtClose(f, AccRun(<<f, name, dir, isRange>>, id, Len(Periods)))
BY DEF AcceptanceEvent, Over, AccRun, AccStep, LevelOf

\* One turn of one machine.
LEMMA RunSteps ==
    ASSUME NEW c, NEW e, NEW p \in Int, IsAcceptance(e), c[3] \in {"UP", "DOWN"}
    PROVE  LET n == AccStep(c, e, p)
           IN  IsAcceptance(n) /\ n.id = e.id /\ IsPrefix(e.hist, n.hist)
<1>1. IsPrefix(e.hist, e.hist)
  BY DEF IsAcceptance, IsEvent, EventSet, IsPrefix, Histories
<1> DEFINE s == c[1].snaps[p]
           n == AcceptanceStep(e, p, s, c[2], c[3], LevelOf(c[1], c[2], s), c[4])
<1>2. AccStep(c, e, p) = e \/ AccStep(c, e, p) = n
  BY DEF AccStep
<1>3. IsAcceptance(n) /\ n.id = e.id /\ IsPrefix(e.hist, n.hist)
  <2> DEFINE dir == c[3]
             level == LevelOf(c[1], c[2], s)
             name == c[2]
             isRange == c[4]
  <2>1. dir \in {"UP", "DOWN"}
    OBVIOUS
  <2> HIDE DEF s, dir, level, name, isRange
  <2>2. Stepped(e, s, name, dir, AcceptanceStep(e, p, s, name, dir, level, isRange), FullStep(e, p, s, dir, level))
    BY <2>1, StepsAcceptance, Zenon
  <2> QED BY <2>2 DEF dir, level, name, isRange, Stepped
<1> HIDE DEF n
<1> QED BY <1>1, <1>2, <1>3

\* Two levels of which who is beyond the outer is beyond the inner, and who is on the
\* other side of the inner is on that of the outer.
Nested(f, out, in, dir) ==
    \A p \in DOMAIN f.snaps :
        LET s == f.snaps[p]
            edge == IF dir = "UP" THEN s.dev.val ELSE s.dev.vah
        IN  /\ out \in DOMAIN s.rel /\ in \in DOMAIN s.rel
            /\ s.rel[out] = Full(dir) => s.rel[in] = Full(dir)
            /\ Beyond(dir, edge, LevelOf(f, out, s)) => Beyond(dir, edge, LevelOf(f, in, s))
            /\ s.rel[in] = Full(Opposite(dir)) => s.rel[out] = Full(Opposite(dir))
            /\ ~Beyond(dir, s.dev.poc, LevelOf(f, in, s)) => ~Beyond(dir, s.dev.poc, LevelOf(f, out, s))

\* One turn keeps the inner ahead of the outer.
LEMMA NestSteps ==
    ASSUME NEW f, NEW out, NEW in, NEW dir \in {"UP", "DOWN"}, Nested(f, out, in, dir),
           NEW r1, NEW r2, NEW e1, NEW e2, NEW p \in Int,
           IsAcceptance(e1), IsAcceptance(e2), Ahead(e1, e2)
    PROVE  Ahead(AccStep(<<f, out, dir, r1>>, e1, p), AccStep(<<f, in, dir, r2>>, e2, p))
<1> DEFINE s == f.snaps[p]
           l1 == LevelOf(f, out, s)
           l2 == LevelOf(f, in, s)
           edge == IF dir = "UP" THEN s.dev.val ELSE s.dev.vah
           n1 == AccStep(<<f, out, dir, r1>>, e1, p)
           n2 == AccStep(<<f, in, dir, r2>>, e2, p)
           a1 == AcceptanceStep(e1, p, s, out, dir, l1, r1)
           a2 == AcceptanceStep(e2, p, s, in, dir, l2, r2)
<1>1. CASE p \notin DOMAIN f.snaps
  <2>1. n1 = e1 /\ n2 = e2
    BY <1>1 DEF AccStep
  <2> HIDE DEF n1, n2
  <2> QED BY <2>1 DEF n1, n2
<1>2. CASE p \in DOMAIN f.snaps
  <2>1. /\ out \in DOMAIN s.rel /\ in \in DOMAIN s.rel
        /\ s.rel[out] = Full(dir) => s.rel[in] = Full(dir)
        /\ Beyond(dir, edge, l1) => Beyond(dir, edge, l2)
    BY <1>2 DEF Nested
  <2>2. n1 = a1 /\ n2 = a2
    BY <1>2, <2>1 DEF AccStep
  <2> DEFINE g1 == s.rel[out] = Full(dir)
             g2 == s.rel[in] = Full(dir)
             b1 == Beyond(dir, edge, l1)
             b2 == Beyond(dir, edge, l2)
  <2>3. Turned(e1, a1, g1, b1) /\ Turned(e2, a2, g2, b2)
    <3> HIDE DEF s, l1, l2
    <3>1. Turned(e1, a1, g1, b1)
      BY Turns, Zenon
    <3>2. Turned(e2, a2, g2, b2)
      BY Turns, Zenon
    <3> HIDE DEF a1, a2, g1, g2, b1, b2
    <3> QED BY <3>1, <3>2
  <2>4. (g1 => g2) /\ (b1 => b2)
    BY <2>1
  <2> HIDE DEF s, l1, l2, edge, a1, a2, g1, g2, b1, b2
  <2>5. Ahead(a1, a2)
    <3>1. CASE e1.done \/ e2.done
      BY <2>3, <3>1 DEF Ahead, Turned
    <3>2. CASE ~e1.done /\ ~e2.done
      <4>1. /\ e1.full <= e2.full /\ 0 <= e2.full /\ e1.full \in Int /\ e2.full \in Int
            /\ e1.developed => e2.developed
            /\ e1.accepted => e2.accepted
        BY <3>2 DEF Ahead, IsAcceptance, IsEvent, EventSet
      <4>2. CASE ~g1
        <5>1. a1.done \/ (a1.full = 0 /\ a1.developed = e1.developed /\ a1.accepted = e1.accepted)
          BY <2>3, <3>2, <4>2 DEF Turned
        <5>2. a2.done \/ /\ 0 <= a2.full
                         /\ e2.developed => a2.developed
                         /\ e2.accepted => a2.accepted
          <6>1. CASE ~g2
            BY <2>3, <3>2, <4>1, <6>1 DEF Turned
          <6>2. CASE g2
            <7>1. /\ a2.full = e2.full + 1 /\ 0 <= e2.full /\ e2.full \in Int
                  /\ a2.developed = (e2.developed \/ (e2.full + 1 >= Brackets /\ ~e2.accepted))
                  /\ a2.accepted = (e2.accepted \/ (a2.developed /\ b2))
              BY <2>3, <3>2, <4>1, <6>2 DEF Turned
            <7>2. 0 <= a2.full
              BY <7>1
            <7> DEFINE d == e2.full + 1 >= Brackets /\ ~e2.accepted
            <7>3. a2.developed = (e2.developed \/ d)
              BY <7>1
            <7> HIDE DEF d
            <7> QED BY <7>1, <7>2, <7>3
          <6> QED BY <6>1, <6>2
        <5> QED BY <4>1, <5>1, <5>2 DEF Ahead
      <4>3. CASE g1
        <5>1. /\ a1.full = e1.full + 1 /\ a2.full = e2.full + 1
              /\ a1.developed = (e1.developed \/ (e1.full + 1 >= Brackets /\ ~e1.accepted))
              /\ a1.accepted = (e1.accepted \/ (a1.developed /\ b1))
              /\ a2.developed = (e2.developed \/ (e2.full + 1 >= Brackets /\ ~e2.accepted))
              /\ a2.accepted = (e2.accepted \/ (a2.developed /\ b2))
          BY <2>3, <2>4, <3>2, <4>3 DEF Turned
        <5>2. e2.accepted => e2.developed
          BY DEF IsAcceptance
        <5> DEFINE h1 == e1.full + 1 >= Brackets
                   h2 == e2.full + 1 >= Brackets
        <5>3. h1 => h2
          BY <4>1, EventAssumption
        <5> HIDE DEF h1, h2
        <5>4. (a1.developed => a2.developed) /\ (a1.accepted => a2.accepted)
          BY <2>4, <4>1, <5>1, <5>2, <5>3 DEF h1, h2
        <5>5. a1.full <= a2.full /\ 0 <= a2.full
          BY <4>1, <5>1
        <5> QED BY <5>4, <5>5 DEF Ahead
      <4> QED BY <4>2, <4>3
    <3> QED BY <3>1, <3>2
  <2> HIDE DEF n1, n2, a1, a2
  <2> QED BY <2>2, <2>5 DEF n1, n2
<1> QED BY <1>1, <1>2

\* So of a machine after every bracket, and of two of them.
LEMMA RunIs ==
    ASSUME NEW c, c[3] \in {"UP", "DOWN"}, NEW id \in Ids
    PROVE  \A k \in Nat : IsAcceptance(AccRun(c, id, k)) /\ AccRun(c, id, k).id = id
<1> DEFINE x == <<c, id>>
<1>1. RunHolds(x, 0)
  <2>1. c[3] \in Dirs /\ "WEAK" \in Strengths
    BY DEF Dirs, Strengths
  <2>2. IsAcceptance(NewEvent(id, c[3], "WEAK")) /\ NewEvent(id, c[3], "WEAK").id = id
    BY <2>1, BeginsAcceptance
  <2> QED BY <2>2, RunFolds DEF RunHolds
<1>2. ASSUME NEW k \in Nat, RunHolds(x, k) PROVE RunHolds(x, k + 1)
  <2> DEFINE e == AccRun(c, id, k)
             n == AccStep(c, e, k + 1)
  <2>1. IsAcceptance(e) /\ e.id = id /\ k + 1 \in Int
    BY <1>2 DEF RunHolds
  <2>2. IsAcceptance(n) /\ n.id = e.id
    <3> HIDE DEF e
    <3> QED BY <2>1, RunSteps
  <2>3. AccRun(c, id, k + 1) = n
    BY RunFolds
  <2> HIDE DEF e, n
  <2> QED BY <2>1, <2>2, <2>3 DEF RunHolds
<1> HIDE DEF x
<1>3. \A k \in Nat : RunHolds(x, k) => RunHolds(x, k + 1)
  BY <1>2
<1>4. \A k \in Nat : RunHolds(x, k)
  BY <1>1, <1>3, RunFold!Induction, Zenon
<1> QED BY <1>4 DEF RunHolds, x

\* What the histories say: the entries of a history, and what a turn adds to them.
\* Developed and confirmed only by a bracket beyond the level, failed only by one
\* on the other side.
Marks(e) == Range(e.hist)
Accepting == {"DEVELOPING", "CONFIRMED"}
Marched(e, n, p, full, opposite, origin, isRange) ==
    /\ e.done => n = e
    /\ Marks(e) \subseteq Marks(n)
    /\ \A h \in Marks(n) \ Marks(e) :
          /\ h.at = p
          /\ h.state \in Accepting => full /\ n.developed
          /\ h.state = "CONFIRMED" => n.accepted /\ ~n.done
          /\ h.state = "INVALIDATED" /\ ~isRange => opposite /\ e.developed /\ e.opp + 1 >= 2 /\ origin
    /\ ~e.done /\ opposite => /\ e.developed /\ e.opp + 1 >= 2 /\ origin => n.done
                              /\ n.done \/ n.opp = e.opp + 1
    /\ ~e.done /\ ~opposite => n.opp = 0

\* The entries of a history that has grown by one.
LEMMA AppendMarks ==
    ASSUME NEW S, NEW s \in Seq(S), NEW x \in S
    PROVE  Range(Append(s, x)) = Range(s) \cup {x}
<1>1. /\ Len(Append(s, x)) = Len(s) + 1 /\ Append(s, x)[Len(s) + 1] = x
      /\ \A i \in 1..Len(s) : Append(s, x)[i] = s[i]
      /\ Append(s, x) \in Seq(S) /\ Len(s) \in Nat
  OBVIOUS
<1>2. DOMAIN s = 1..Len(s) /\ DOMAIN Append(s, x) = 1..(Len(s) + 1)
  BY <1>1
<1>3. DOMAIN Append(s, x) = DOMAIN s \cup {Len(s) + 1}
  BY <1>1, <1>2
<1> QED BY <1>1, <1>2, <1>3 DEF Range

\* The state of an event is that of one of its entries.
LEMMA StateMarked ==
    ASSUME NEW e, IsEvent(e), e.hist # <<>>
    PROVE  \E h \in Marks(e) : h.state = e.state
<1>1. e.hist \in Histories
  BY DEF IsEvent, EventSet
<1>2. Len(e.hist) \in DOMAIN e.hist
  BY <1>1 DEF Histories
<1> QED BY <1>2 DEF IsEvent, Marks, Range, Last

\* A transition adds at most one entry.
LEMMA TransitMarks ==
    ASSUME NEW e, IsEvent(e), NEW state, NEW at
    PROVE  LET t == Transition(e, state, at)
           IN  /\ Marks(e) \subseteq Marks(t)
               /\ \A h \in Marks(t) \ Marks(e) : h.at = at /\ h.state = state
<1> DEFINE t == Transition(e, state, at)
           new == [state |-> state, at |-> at]
           H == [state : States, at : Int] \cup {new}
<1>1. CASE e.hist # <<>> /\ Last(e.hist).state = state
  BY <1>1 DEF Transition
<1>2. CASE ~(e.hist # <<>> /\ Last(e.hist).state = state)
  <2>1. t = [e EXCEPT !.state = state, !.hist = Append(e.hist, new)]
    BY <1>2 DEF Transition
  <2>2. e.hist \in Seq(H) /\ new \in H /\ e \in EventSet
    <3>1. e.hist \in Seq([state : States, at : Int]) /\ e \in EventSet
      BY DEF IsEvent, EventSet, Histories
    <3> DEFINE K == [state : States, at : Int]
    <3>2. K \subseteq H /\ new \in H /\ e.hist \in Seq(K)
      BY <3>1
    <3> HIDE DEF H, K
    <3>3. e.hist \in Seq(H)
      BY <3>2
    <3> QED BY <3>1, <3>2, <3>3
  <2>3. t.hist = Append(e.hist, new)
    BY <2>1, <2>2 DEF EventSet
  <2> HIDE DEF new, H, t
  <2>4. Marks(t) = Marks(e) \cup {new}
    BY <2>2, <2>3, AppendMarks DEF Marks
  <2> QED BY <2>3, <2>4 DEF new, t
<1> QED BY <1>1, <1>2

\* What a bracket beyond the level adds.
LEMMA FullMarks ==
    ASSUME NEW e, IsAcceptance(e), ~e.done, NEW p \in Int, NEW s, NEW dir, NEW level
    PROVE  LET n == FullStep(e, p, s, dir, level)
           IN  /\ Marks(e) \subseteq Marks(n) /\ n.opp = 0
               /\ \A h \in Marks(n) \ Marks(e) :
                     /\ h.at = p /\ h.state # "INVALIDATED"
                     /\ h.state \in Accepting => n.developed
                     /\ h.state = "CONFIRMED" => n.accepted
<1> DEFINE full == e.full + 1
           begun == IF e.state = "NOT_TRIGGERED" THEN Transition(e, "TRIGGERED", p) ELSE e
           enough == full >= Brackets /\ ~e.accepted
           built == IF enough /\ begun.state \in {"TRIGGERED", "DEVELOPING"}
                    THEN Transition(begun, "DEVELOPING", p) ELSE begun
           edge == IF dir = "UP" THEN s.dev.val ELSE s.dev.vah
           developed == e.developed \/ enough
           beyond == Beyond(dir, edge, level)
           c == Transition(built, "CONFIRMED", p)
           n == FullStep(e, p, s, dir, level)
<1>0. IsEvent(e) /\ {"TRIGGERED", "DEVELOPING", "CONFIRMED"} \subseteq States
  BY DEF IsAcceptance, States
<1>1. n = IF developed /\ beyond /\ built.state # "CONFIRMED"
          THEN [c EXCEPT !.full = full, !.opp = 0, !.developed = TRUE, !.accepted = TRUE, !.strength = "STRONG"]
          ELSE [built EXCEPT !.full = full, !.opp = 0, !.developed = developed]
  BY DEF FullStep
<1>2. /\ IsEvent(begun) /\ Marks(e) \subseteq Marks(begun)
      /\ \A h \in Marks(begun) \ Marks(e) : h.at = p /\ h.state = "TRIGGERED"
  <2> HIDE DEF enough, built, developed, beyond, c, n
  <2>1. CASE e.state = "NOT_TRIGGERED"
    <3> DEFINE t == Transition(e, "TRIGGERED", p)
    <3>1. /\ IsEvent(t) /\ Marks(e) \subseteq Marks(t)
          /\ \A h \in Marks(t) \ Marks(e) : h.at = p /\ h.state = "TRIGGERED"
      BY <1>0, Transits, TransitMarks
    <3> HIDE DEF t
    <3> QED BY <2>1, <3>1 DEF t
  <2>2. CASE e.state # "NOT_TRIGGERED"
    BY <1>0, <2>2
  <2> QED BY <2>1, <2>2
<1> HIDE DEF begun
<1>3. /\ IsEvent(built) /\ Marks(begun) \subseteq Marks(built)
      /\ \A h \in Marks(built) \ Marks(begun) : h.at = p /\ h.state = "DEVELOPING" /\ developed
  <2> HIDE DEF beyond, c, n
  <2>1. CASE enough /\ begun.state \in {"TRIGGERED", "DEVELOPING"}
    <3> DEFINE t == Transition(begun, "DEVELOPING", p)
    <3>1. /\ IsEvent(t) /\ Marks(begun) \subseteq Marks(t)
          /\ \A h \in Marks(t) \ Marks(begun) : h.at = p /\ h.state = "DEVELOPING"
      BY <1>0, <1>2, Transits, TransitMarks
    <3>2. built = t
      BY <2>1
    <3> HIDE DEF t, built
    <3> QED BY <2>1, <3>1, <3>2
  <2>2. CASE ~(enough /\ begun.state \in {"TRIGGERED", "DEVELOPING"})
    <3>1. built = begun
      BY <2>2
    <3> HIDE DEF built
    <3> QED BY <1>2, <3>1
  <2> QED BY <2>1, <2>2
<1> HIDE DEF built
<1>4. /\ IsEvent(c) /\ Marks(built) \subseteq Marks(c)
      /\ \A h \in Marks(c) \ Marks(built) : h.at = p /\ h.state = "CONFIRMED"
  <2> HIDE DEF n, developed, beyond
  <2> QED BY <1>0, <1>3, Transits, TransitMarks
<1> HIDE DEF c, full, developed, beyond
<1>5. CASE developed /\ beyond /\ built.state # "CONFIRMED"
  <2>1. n = [c EXCEPT !.full = full, !.opp = 0, !.developed = TRUE, !.accepted = TRUE, !.strength = "STRONG"]
    BY <1>1, <1>5
  <2> HIDE DEF n
  <2>2. n.hist = c.hist /\ n.opp = 0 /\ n.developed /\ n.accepted
    BY <1>4, <2>1 DEF IsEvent, EventSet
  <2>3. Marks(n) = Marks(c)
    BY <2>2 DEF Marks
  <2> QED BY <1>2, <1>3, <1>4, <2>2, <2>3 DEF n
<1>6. CASE ~(developed /\ beyond /\ built.state # "CONFIRMED")
  <2>1. n = [built EXCEPT !.full = full, !.opp = 0, !.developed = developed]
    BY <1>1, <1>6
  <2> HIDE DEF n
  <2>2. n.hist = built.hist /\ n.opp = 0 /\ n.developed = developed
    BY <1>3, <2>1 DEF IsEvent, EventSet
  <2>3. Marks(n) = Marks(built)
    BY <2>2 DEF Marks
  <2> QED BY <1>2, <1>3, <2>2, <2>3 DEF n, Accepting
<1> QED BY <1>5, <1>6

\* What a bracket on the other side adds: nothing, or that it has failed.
LEMMA OppositeMarks ==
    ASSUME NEW e, IsAcceptance(e), ~e.done, NEW p \in Int, NEW s, NEW dir, NEW level, NEW isRange
    PROVE  LET n == OppositeStep(e, p, s, dir, level, isRange)
               due == e.developed /\ e.opp + 1 >= 2 /\ ~Beyond(dir, s.dev.poc, level)
           IN  /\ Marks(e) \subseteq Marks(n)
               /\ \A h \in Marks(n) \ Marks(e) : h.at = p /\ h.state = "INVALIDATED" /\ (isRange \/ due)
               /\ due => n.done
               /\ n.done \/ n.opp = e.opp + 1
<1> DEFINE opp == e.opp + 1
           origin == ~Beyond(dir, s.dev.poc, level)
           fails == \/ (e.developed \/ e.accepted) /\ opp >= 2 /\ origin
                    \/ isRange /\ e.state = "TRIGGERED" /\ InValue(s) /\ origin
           n == OppositeStep(e, p, s, dir, level, isRange)
           t == Transition(e, "INVALIDATED", p)
<1>0. IsEvent(e) /\ e \in EventSet /\ "INVALIDATED" \in States /\ (e.accepted => e.developed)
  BY DEF IsAcceptance, IsEvent, States
<1>1. n = IF fails THEN [t EXCEPT !.strength = "STRONG", !.done = TRUE] ELSE [e EXCEPT !.opp = opp, !.full = 0]
  BY DEF OppositeStep
<1>2. fails => isRange \/ (e.developed /\ opp >= 2 /\ origin)
  BY <1>0
<1>3. e.developed /\ opp >= 2 /\ origin => fails
  OBVIOUS
<1> HIDE DEF fails, origin, n
<1>4. CASE fails
  <2>1. /\ IsEvent(t) /\ Marks(e) \subseteq Marks(t)
        /\ \A h \in Marks(t) \ Marks(e) : h.at = p /\ h.state = "INVALIDATED"
    BY <1>0, Transits, TransitMarks
  <2>2. n = [t EXCEPT !.strength = "STRONG", !.done = TRUE]
    BY <1>1, <1>4
  <2> HIDE DEF t
  <2>3. n.hist = t.hist /\ n.done
    BY <2>1, <2>2 DEF IsEvent, EventSet
  <2>4. Marks(n) = Marks(t)
    BY <2>3 DEF Marks
  <2> QED BY <1>2, <1>4, <2>1, <2>3, <2>4 DEF n, origin
<1>5. CASE ~fails
  <2>1. n = [e EXCEPT !.opp = opp, !.full = 0]
    BY <1>1, <1>5
  <2>2. n.hist = e.hist /\ n.opp = opp
    BY <1>0, <2>1 DEF EventSet
  <2>3. Marks(n) = Marks(e)
    BY <2>2 DEF Marks
  <2> QED BY <1>3, <1>5, <2>2, <2>3 DEF n, origin
<1> QED BY <1>4, <1>5

\* One turn.
LEMMA Marches ==
    ASSUME NEW e, NEW p \in Int, NEW s, NEW name, NEW dir \in {"UP", "DOWN"}, NEW level, NEW isRange,
           IsAcceptance(e)
    PROVE  Marched(e, AcceptanceStep(e, p, s, name, dir, level, isRange), p, s.rel[name] = Full(dir),
                   s.rel[name] = Full(Opposite(dir)), ~Beyond(dir, s.dev.poc, level), isRange)
<1> DEFINE rel == s.rel[name]
           probed == IF rel \in Partial /\ e.state = "NOT_TRIGGERED" THEN Transition(e, "TRIGGERED", p) ELSE e
           n == AcceptanceStep(e, p, s, name, dir, level, isRange)
           origin == ~Beyond(dir, s.dev.poc, level)
<1>1. n = CASE e.done -> e
            [] ~e.done /\ rel = Full(dir) -> FullStep(probed, p, s, dir, level)
            [] ~e.done /\ rel = Full(Opposite(dir)) -> OppositeStep(probed, p, s, dir, level, isRange)
            [] OTHER -> [probed EXCEPT !.full = 0, !.opp = 0]
  BY DEF AcceptanceStep
<1>2. Full(dir) \notin Partial /\ Full(Opposite(dir)) \notin Partial /\ Full(dir) # Full(Opposite(dir))
  BY DEF Full, Partial, Opposite
<1>3. rel \notin Partial => probed = e
  OBVIOUS
<1>4. IsEvent(e) /\ "TRIGGERED" \in States
  BY DEF IsAcceptance, States
<1> SUFFICES Marched(e, n, p, rel = Full(dir), rel = Full(Opposite(dir)), origin, isRange)
  OBVIOUS
<1> HIDE DEF n, rel
<1>5. CASE e.done
  BY <1>1, <1>5 DEF Marched
<1>6. CASE ~e.done /\ rel = Full(dir)
  <2>1. n = FullStep(e, p, s, dir, level)
    <3>1. probed = e
      BY <1>2, <1>3, <1>6
    <3> HIDE DEF probed
    <3> QED BY <1>1, <1>2, <1>6, <3>1
  <2>2. /\ Marks(e) \subseteq Marks(n) /\ n.opp = 0 /\ ~n.done
        /\ \A h \in Marks(n) \ Marks(e) :
              /\ h.at = p /\ h.state # "INVALIDATED"
              /\ h.state \in Accepting => n.developed
              /\ h.state = "CONFIRMED" => n.accepted
    BY <1>6, <2>1, FullMarks, StepsFull
  <2> HIDE DEF origin, probed
  <2> QED BY <1>2, <1>6, <2>2 DEF Marched
<1>7. CASE ~e.done /\ rel = Full(Opposite(dir))
  <2>1. n = OppositeStep(e, p, s, dir, level, isRange)
    <3>1. probed = e
      BY <1>2, <1>3, <1>7
    <3> HIDE DEF probed
    <3> QED BY <1>1, <1>2, <1>7, <3>1
  <2> DEFINE due == e.developed /\ e.opp + 1 >= 2 /\ origin
  <2>2. /\ Marks(e) \subseteq Marks(n)
        /\ \A h \in Marks(n) \ Marks(e) : h.at = p /\ h.state = "INVALIDATED" /\ (isRange \/ due)
        /\ due => n.done
        /\ n.done \/ n.opp = e.opp + 1
    BY <1>7, <2>1, OppositeMarks
  <2> HIDE DEF origin, probed
  <2> QED BY <1>2, <1>7, <2>2 DEF Marched, Accepting
<1>8. CASE ~e.done /\ rel # Full(dir) /\ rel # Full(Opposite(dir))
  <2>1. /\ IsEvent(probed) /\ Marks(e) \subseteq Marks(probed)
        /\ \A h \in Marks(probed) \ Marks(e) : h.at = p /\ h.state = "TRIGGERED"
    <3>1. CASE rel \in Partial /\ e.state = "NOT_TRIGGERED"
      <4> DEFINE t == Transition(e, "TRIGGERED", p)
      <4>1. /\ IsEvent(t) /\ Marks(e) \subseteq Marks(t)
            /\ \A h \in Marks(t) \ Marks(e) : h.at = p /\ h.state = "TRIGGERED"
        <5> HIDE DEF probed
        <5> QED BY <1>4, Transits, TransitMarks
      <4>2. probed = t
        BY <3>1
      <4> HIDE DEF t, probed
      <4> QED BY <4>1, <4>2
    <3>2. CASE ~(rel \in Partial /\ e.state = "NOT_TRIGGERED")
      <4>1. probed = e
        BY <3>2
      <4> HIDE DEF probed
      <4> QED BY <1>4, <4>1
    <3> QED BY <3>1, <3>2
  <2> HIDE DEF probed
  <2>2. n = [probed EXCEPT !.full = 0, !.opp = 0]
    BY <1>1, <1>8
  <2>3. n.hist = probed.hist /\ n.opp = 0
    BY <2>1, <2>2 DEF IsEvent, EventSet
  <2>4. Marks(n) = Marks(probed)
    BY <2>3 DEF Marks
  <2> HIDE DEF origin
  <2> QED BY <1>8, <2>1, <2>3, <2>4 DEF Marched, Accepting
<1> QED BY <1>5, <1>6, <1>7, <1>8

\* After a bracket: nothing is dated later, and who has not developed says so.
Marked(e, k) ==
    /\ IsAcceptance(e)
    /\ e.done \/ 0 <= e.opp
    /\ \A h \in Marks(e) : h.at <= k
    /\ e.done \/ e.developed \/ \A h \in Marks(e) : h.state \notin Accepting

\* Entries are dated by brackets, and counters are numbers.
LEMMA MarksDated ==
    ASSUME NEW e, IsAcceptance(e)
    PROVE  e.opp \in Int /\ \A h \in Marks(e) : h.at \in Int
<1> DEFINE H == [state : States, at : Int]
<1>1. e.hist \in Seq(H) /\ e.opp \in Int
  BY DEF IsAcceptance, IsEvent, EventSet, Histories
<1>2. \A h \in H : h.at \in Int
  OBVIOUS
<1> HIDE DEF H
<1>3. \A i \in DOMAIN e.hist : e.hist[i] \in H
  BY <1>1
<1> QED BY <1>1, <1>2, <1>3 DEF Marks, Range

\* One turn keeps that.
LEMMA MarkedSteps ==
    ASSUME NEW e, NEW n, NEW k \in Nat, NEW full, NEW beyond, NEW opposite, NEW origin, NEW isRange,
           Marked(e, k), IsAcceptance(n), full \in BOOLEAN,
           Turned(e, n, full, beyond), Marched(e, n, k + 1, full, opposite, origin, isRange)
    PROVE  Marked(n, k + 1)
<1>1. /\ IsAcceptance(e) /\ \A h \in Marks(e) : h.at <= k
      /\ e.opp \in Int /\ \A h \in Marks(e) : h.at \in Int
  BY MarksDated DEF Marked
<1>2. CASE e.done
  <2>1. n = e
    BY <1>2 DEF Marched
  <2>2. \A h \in Marks(e) : h.at <= k + 1
    BY <1>1
  <2> QED BY <1>1, <1>2, <2>1, <2>2 DEF Marked
<1>3. CASE ~e.done
  <2>1. \A h \in Marks(n) : h.at <= k + 1
    <3>1. TAKE h \in Marks(n)
    <3>2. h \in Marks(e) \/ h.at = k + 1
      BY DEF Marched
    <3> QED BY <1>1, <3>2
  <2>2. n.done \/ 0 <= n.opp
    <3>1. n.done \/ n.opp = e.opp + 1 \/ n.opp = 0
      BY <1>3 DEF Marched
    <3> QED BY <1>1, <1>3, <3>1 DEF Marked
  <2>3. n.done \/ n.developed \/ \A h \in Marks(n) : h.state \notin Accepting
    <3>1. SUFFICES ASSUME ~n.done, ~n.developed, NEW h \in Marks(n) PROVE h.state \notin Accepting
      OBVIOUS
    <3>2. CASE h \in Marks(e)
      <4>1. ~e.developed
        <5>1. CASE full
          BY <1>3, <3>1, <5>1 DEF Turned
        <5>2. CASE ~full
          BY <1>3, <3>1, <5>2 DEF Turned
        <5> QED BY <5>1, <5>2
      <4> QED BY <1>3, <3>2, <4>1 DEF Marked
    <3>3. CASE h \notin Marks(e)
      BY <3>1, <3>3 DEF Marched
    <3> QED BY <3>2, <3>3
  <2> QED BY <2>1, <2>2, <2>3 DEF Marked
<1> QED BY <1>2, <1>3

\* Failing brackets count without as they do within.
Behind(outer, inner) == outer.done \/ inner.done \/ inner.opp <= outer.opp

\* One turn of both, the bracket being beyond the inner level if beyond the outer,
\* and on the other side of the outer if on that of the inner.
PairTurned(k, e1, e2, n1, n2, g1, o1, w1, r1, g2, o2, w2) ==
    /\ Marked(e1, k) /\ Marked(e2, k) /\ Marked(n1, k + 1) /\ Marked(n2, k + 1)
    /\ Behind(e1, e2) /\ Ahead(n1, n2) /\ NestWithin(Marks(e1), Marks(e2))
    /\ Marched(e1, n1, k + 1, g1, o1, w1, r1) /\ Marched(e2, n2, k + 1, g2, o2, w2, FALSE)
    /\ {g1, o1, w1, g2, o2, w2} \subseteq BOOLEAN
    /\ (o2 => o1) /\ (w2 => w1) /\ (o1 => ~g1)

\* It keeps them so.
LEMMA PairSteps ==
    ASSUME NEW k \in Nat, NEW e1, NEW e2, NEW n1, NEW n2, NEW g1, NEW o1, NEW w1, NEW r1, NEW g2, NEW o2, NEW w2,
           PairTurned(k, e1, e2, n1, n2, g1, o1, w1, r1, g2, o2, w2)
    PROVE  Behind(n1, n2) /\ NestWithin(Marks(n1), Marks(n2))
<1>0. /\ Marked(e1, k) /\ Marked(e2, k) /\ Marked(n1, k + 1) /\ Marked(n2, k + 1)
      /\ Behind(e1, e2) /\ Ahead(n1, n2) /\ NestWithin(Marks(e1), Marks(e2))
      /\ Marched(e1, n1, k + 1, g1, o1, w1, r1) /\ Marched(e2, n2, k + 1, g2, o2, w2, FALSE)
      /\ g1 \in BOOLEAN /\ o1 \in BOOLEAN /\ w1 \in BOOLEAN /\ g2 \in BOOLEAN /\ o2 \in BOOLEAN /\ w2 \in BOOLEAN
      /\ (o2 => o1) /\ (w2 => w1) /\ (o1 => ~g1)
  BY DEF PairTurned
<1> USE <1>0
<1>1. /\ IsAcceptance(e1) /\ IsAcceptance(e2) /\ IsAcceptance(n1) /\ IsAcceptance(n2)
      /\ e1.opp \in Int /\ e2.opp \in Int /\ n1.opp \in Int /\ n2.opp \in Int
      /\ \A h \in Marks(n1) \cup Marks(n2) \cup Marks(e1) \cup Marks(e2) : h.at \in Int
  BY <1>0, MarksDated DEF Marked
<1>2. Behind(n1, n2)
  <2>1. SUFFICES ASSUME ~n1.done, ~n2.done PROVE n2.opp <= n1.opp
    BY DEF Behind
  <2>2. ~e1.done /\ ~e2.done
    BY <2>1 DEF Marched
  <2>3. CASE o2
    BY <1>1, <2>1, <2>2, <2>3 DEF Marched, Behind
  <2>4. CASE ~o2
    BY <1>1, <2>1, <2>2, <2>4 DEF Marched, Marked
  <2> QED BY <2>3, <2>4
<1>3. ASSUME NEW c \in Marks(n1), c.state = "CONFIRMED"
      PROVE  \E d \in Marks(n2) : d.state \in {"CONFIRMED", "INVALIDATED"} /\ d.at <= c.at
  <2>1. CASE c \in Marks(e1)
    BY <1>3, <2>1 DEF NestWithin, Marched
  <2>2. CASE c \notin Marks(e1)
    <3>1. c.at = k + 1 /\ n1.accepted /\ ~n1.done
      BY <1>3, <2>2 DEF Marched
    <3>2. n2.state \in {"CONFIRMED", "INVALIDATED"}
      BY <1>1, <3>1 DEF Ahead, IsAcceptance
    <3>3. IsEvent(n2) /\ n2.hist # <<>>
      BY <1>1, <3>2 DEF IsAcceptance, IsEvent
    <3>4. PICK d \in Marks(n2) : d.state = n2.state
      BY <3>3, StateMarked
    <3> QED BY <3>1, <3>2, <3>4 DEF Marked
  <2> QED BY <2>1, <2>2
<1>4. ASSUME NEW x \in Marks(n2), NEW c \in Marks(n1),
             x.state = "INVALIDATED", c.state \in {"DEVELOPING", "CONFIRMED"}, c.at <= x.at
      PROVE  \E y \in Marks(n1) : y.state = "INVALIDATED" /\ y.at <= x.at
  <2>1. CASE x \in Marks(e2)
    <3>1. c \in Marks(e1)
      <4>1. x.at <= k /\ x.at \in Int /\ c.at \in Int
        BY <1>1, <2>1 DEF Marked
      <4>2. c.at # k + 1
        BY <1>4, <4>1
      <4> QED BY <4>2 DEF Marched
    <3>2. PICK y \in Marks(e1) : y.state = "INVALIDATED" /\ y.at <= x.at
      BY <1>4, <2>1, <3>1 DEF NestWithin
    <3> QED BY <3>2 DEF Marched
  <2>2. CASE x \notin Marks(e2)
    <3>1. x.at = k + 1 /\ o2 /\ e2.developed /\ e2.opp + 1 >= 2 /\ w2 /\ ~e2.done
      BY <1>4, <2>2 DEF Marched
    <3>2. c \in Marks(e1)
      BY <1>4, <3>1 DEF Marched, Accepting
    <3>3. n1.done
      <4>1. CASE e1.done
        BY <4>1 DEF Marched
      <4>2. CASE ~e1.done
        <5>1. e1.developed
          BY <1>4, <3>2, <4>2 DEF Marked, Accepting
        <5>2. e1.opp + 1 >= 2
          BY <1>1, <3>1, <4>2 DEF Behind
        <5> QED BY <3>1, <4>2, <5>1, <5>2 DEF Marched
      <4> QED BY <4>1, <4>2
    <3>4. n1.state = "INVALIDATED" /\ IsEvent(n1) /\ n1.hist # <<>>
      BY <1>1, <3>3 DEF IsAcceptance, IsEvent
    <3>5. PICK y \in Marks(n1) : y.state = "INVALIDATED"
      BY <3>4, StateMarked
    <3> QED BY <3>1, <3>5 DEF Marked
  <2> QED BY <2>1, <2>2
<1> QED BY <1>2, <1>3, <1>4 DEF NestWithin

\* Closing an event adds at most that it has expired, and keeps what was said.
LEMMA ClosedMarks ==
    ASSUME NEW f, f.prior # NoPrior, NEW end, IsEvent(end)
    PROVE  LET closed == UNION {Marks(e) : e \in AtClose(f, end)}
           IN  Marks(end) \subseteq closed /\ \A h \in closed \ Marks(end) : h.state = "EXPIRED"
<1> DEFINE closed == UNION {Marks(e) : e \in AtClose(f, end)}
           t == Transition(end, "EXPIRED", Max(DOMAIN f.snaps))
<1>1. Marks(end) \subseteq Marks(t) /\ \A h \in Marks(t) \ Marks(end) : h.state = "EXPIRED"
  BY TransitMarks
<1>2. AtClose(f, end) \in {{end}, {t}} \/ (AtClose(f, end) = {} /\ end.state = "NOT_TRIGGERED")
  BY DEF AtClose
<1>3. end.state = "NOT_TRIGGERED" => Marks(end) = {}
  BY DEF IsEvent, Marks, Range
<1> HIDE DEF t
<1>4. closed \in {Marks(end), Marks(t)} \/ (closed = {} /\ Marks(end) = {})
  BY <1>2, <1>3
<1> HIDE DEF closed
<1>5. Marks(end) \subseteq closed /\ \A h \in closed \ Marks(end) : h.state = "EXPIRED"
  BY <1>1, <1>4
<1> QED BY <1>5 DEF closed

\* So after every bracket of the day.
PairHolds(x, k) ==
    LET outer == AccRun(x[1], x[2], k)
        inner == AccRun(x[3], x[4], k)
    IN  /\ Marked(outer, k) /\ Marked(inner, k) /\ Ahead(outer, inner)
        /\ Behind(outer, inner) /\ NestWithin(Marks(outer), Marks(inner))
PairFold == INSTANCE FoldFacts WITH Step <- AccStep, Holds <- PairHolds

\* One turn of the machines of two levels, the inner one of which is not of a range.
LEMMA LevelsStep ==
    ASSUME NEW f, NEW out, NEW in, NEW dir \in {"UP", "DOWN"}, Nested(f, out, in, dir),
           NEW r1, NEW e1, NEW e2, NEW k \in Nat, Marked(e1, k), Marked(e2, k), Ahead(e1, e2),
           Behind(e1, e2), NestWithin(Marks(e1), Marks(e2))
    PROVE  LET n1 == AccStep(<<f, out, dir, r1>>, e1, k + 1)
               n2 == AccStep(<<f, in, dir, FALSE>>, e2, k + 1)
           IN  /\ Marked(n1, k + 1) /\ Marked(n2, k + 1) /\ Ahead(n1, n2)
               /\ Behind(n1, n2) /\ NestWithin(Marks(n1), Marks(n2))
<1> DEFINE p == k + 1
           s == f.snaps[p]
           l1 == LevelOf(f, out, s)
           l2 == LevelOf(f, in, s)
           n1 == AccStep(<<f, out, dir, r1>>, e1, p)
           n2 == AccStep(<<f, in, dir, FALSE>>, e2, p)
<1>0. IsAcceptance(e1) /\ IsAcceptance(e2) /\ p \in Int
  BY DEF Marked
<1>1. Ahead(n1, n2)
  <2> HIDE DEF p
  <2> QED BY <1>0, NestSteps
<1>2. CASE p \notin DOMAIN f.snaps
  <2>1. n1 = e1 /\ n2 = e2
    BY <1>2 DEF AccStep
  <2>2. \A e : Marked(e, k) => Marked(e, k + 1)
    <3>1. TAKE e
    <3>2. IsAcceptance(e) => \A h \in Marks(e) : h.at \in Int
      BY MarksDated
    <3> QED BY <3>2 DEF Marked
  <2> HIDE DEF n1, n2
  <2> QED BY <1>1, <2>1, <2>2 DEF n1, n2
<1>3. CASE p \in DOMAIN f.snaps
  <2> DEFINE a1 == AcceptanceStep(e1, p, s, out, dir, l1, r1)
             a2 == AcceptanceStep(e2, p, s, in, dir, l2, FALSE)
             edge == IF dir = "UP" THEN s.dev.val ELSE s.dev.vah
             g1 == s.rel[out] = Full(dir)
             g2 == s.rel[in] = Full(dir)
             o1 == s.rel[out] = Full(Opposite(dir))
             o2 == s.rel[in] = Full(Opposite(dir))
             w1 == ~Beyond(dir, s.dev.poc, l1)
             w2 == ~Beyond(dir, s.dev.poc, l2)
             b1 == Beyond(dir, edge, l1)
             b2 == Beyond(dir, edge, l2)
  <2>1. n1 = a1 /\ n2 = a2
    BY <1>3 DEF AccStep, Nested
  <2>2. (o2 => o1) /\ (w2 => w1) /\ (o1 => ~g1)
    <3>1. (o2 => o1) /\ (w2 => w1)
      BY <1>3 DEF Nested
    <3>2. Full(dir) # Full(Opposite(dir))
      BY DEF Full, Opposite
    <3> QED BY <3>1, <3>2
  <2>3. /\ Turned(e1, a1, g1, b1) /\ Marched(e1, a1, p, g1, o1, w1, r1)
        /\ Turned(e2, a2, g2, b2) /\ Marched(e2, a2, p, g2, o2, w2, FALSE)
    <3> HIDE DEF s, l1, l2, p
    <3>1. Turned(e1, a1, g1, b1)
      BY <1>0, Turns, Zenon
    <3>2. Turned(e2, a2, g2, b2)
      BY <1>0, Turns, Zenon
    <3>3. Marched(e1, a1, p, g1, o1, w1, r1)
      BY <1>0, Marches, Zenon
    <3>4. Marched(e2, a2, p, g2, o2, w2, FALSE)
      BY <1>0, Marches, Zenon
    <3> HIDE DEF a1, a2, g1, g2, b1, b2, o1, o2, w1, w2
    <3> QED BY <3>1, <3>2, <3>3, <3>4
  <2>4. IsAcceptance(n1) /\ IsAcceptance(n2)
    <3> DEFINE c1 == <<f, out, dir, r1>>
               c2 == <<f, in, dir, FALSE>>
    <3>1. c1[3] \in {"UP", "DOWN"} /\ c2[3] \in {"UP", "DOWN"}
      OBVIOUS
    <3> HIDE DEF c1, c2, p
    <3>2. IsAcceptance(AccStep(c1, e1, p)) /\ IsAcceptance(AccStep(c2, e2, p))
      BY <1>0, <3>1, RunSteps
    <3> QED BY <3>2 DEF c1, c2
  <2>5. /\ g1 \in BOOLEAN /\ g2 \in BOOLEAN /\ o1 \in BOOLEAN /\ o2 \in BOOLEAN
        /\ w1 \in BOOLEAN /\ w2 \in BOOLEAN
    BY DEF Beyond
  <2> HIDE DEF s, l1, l2, n1, n2, a1, a2, g1, g2, b1, b2, o1, o2, w1, w2, edge
  <2>6. Marked(n1, k + 1) /\ Marked(n2, k + 1)
    BY <2>1, <2>3, <2>4, <2>5, MarkedSteps
  <2>7. Behind(n1, n2) /\ NestWithin(Marks(n1), Marks(n2))
    <3>1. /\ Marched(e1, n1, k + 1, g1, o1, w1, r1) /\ Marched(e2, n2, k + 1, g2, o2, w2, FALSE)
          /\ Ahead(n1, n2)
      BY <1>1, <2>1, <2>3
    <3>2. PairTurned(k, e1, e2, n1, n2, g1, o1, w1, r1, g2, o2, w2)
      BY <2>2, <2>5, <2>6, <3>1 DEF PairTurned
    <3> QED BY <3>2, PairSteps, Zenon
  <2> QED BY <1>1, <2>6, <2>7 DEF n1, n2
<1> QED BY <1>2, <1>3

\* The histories of two levels nest after every bracket.
LEMMA RunsPair ==
    ASSUME NEW f, NEW out, NEW in, NEW dir \in {"UP", "DOWN"}, NEW r1,
           NEW id1 \in Ids, NEW id2 \in Ids, Nested(f, out, in, dir)
    PROVE  \A k \in Nat : PairHolds(<< <<f, out, dir, r1>>, id1, <<f, in, dir, FALSE>>, id2 >>, k)
<1> DEFINE c1 == <<f, out, dir, r1>>
           c2 == <<f, in, dir, FALSE>>
           x == <<c1, id1, c2, id2>>
<1>1. PairHolds(x, 0)
  <2>1. dir \in Dirs /\ "WEAK" \in Strengths
    BY DEF Dirs, Strengths
  <2> DEFINE e1 == NewEvent(id1, dir, "WEAK")
             e2 == NewEvent(id2, dir, "WEAK")
  <2>2. /\ IsAcceptance(e1) /\ e1.full = 0 /\ ~e1.developed /\ ~e1.accepted
        /\ IsAcceptance(e2) /\ e2.full = 0 /\ ~e2.developed /\ ~e2.accepted
    BY <2>1, BeginsAcceptance
  <2>3. e1.opp = 0 /\ e1.hist = <<>> /\ e2.opp = 0 /\ e2.hist = <<>>
    BY DEF NewEvent
  <2>4. AccRun(c1, id1, 0) = e1 /\ AccRun(c2, id2, 0) = e2
    BY RunFolds
  <2> HIDE DEF e1, e2, c1, c2
  <2>5. Marks(e1) = {} /\ Marks(e2) = {}
    BY <2>3 DEF Marks, Range
  <2>6. Marked(e1, 0) /\ Marked(e2, 0) /\ Ahead(e1, e2) /\ Behind(e1, e2) /\ NestWithin(Marks(e1), Marks(e2))
    BY <2>2, <2>3, <2>5 DEF Marked, Ahead, Behind, NestWithin
  <2> QED BY <2>4, <2>6 DEF PairHolds
<1>2. ASSUME NEW k \in Nat, PairHolds(x, k) PROVE PairHolds(x, k + 1)
  <2> DEFINE e1 == AccRun(c1, id1, k)
             e2 == AccRun(c2, id2, k)
             n1 == AccStep(c1, e1, k + 1)
             n2 == AccStep(c2, e2, k + 1)
  <2>1. Marked(e1, k) /\ Marked(e2, k) /\ Ahead(e1, e2) /\ Behind(e1, e2) /\ NestWithin(Marks(e1), Marks(e2))
    BY <1>2 DEF PairHolds
  <2>2. AccRun(c1, id1, k + 1) = n1 /\ AccRun(c2, id2, k + 1) = n2
    BY RunFolds
  <2> HIDE DEF e1, e2
  <2>3. /\ Marked(n1, k + 1) /\ Marked(n2, k + 1) /\ Ahead(n1, n2)
        /\ Behind(n1, n2) /\ NestWithin(Marks(n1), Marks(n2))
    BY <2>1, LevelsStep
  <2> HIDE DEF n1, n2, c1, c2
  <2> QED BY <2>2, <2>3 DEF PairHolds
<1> HIDE DEF x
<1>3. \A k \in Nat : PairHolds(x, k) => PairHolds(x, k + 1)
  BY <1>2
<1>4. \A k \in Nat : PairHolds(x, k)
  BY <1>1, <1>3, PairFold!Induction, Zenon
<1> QED BY <1>4 DEF x

\* So do the histories of the events they end as.
LEMMA EventsPair ==
    ASSUME NEW f, f.prior # NoPrior, NEW out, NEW in, NEW dir \in {"UP", "DOWN"}, NEW r1,
           NEW id1 \in Ids, NEW id2 \in Ids, Nested(f, out, in, dir)
    PROVE  NestWithin(UNION {Marks(e) : e \in AcceptanceEvent(f, id1, out, dir, r1)},
                      UNION {Marks(e) : e \in AcceptanceEvent(f, id2, in, dir, FALSE)})
<1> DEFINE c1 == <<f, out, dir, r1>>
           c2 == <<f, in, dir, FALSE>>
           outer == AccRun(c1, id1, Len(Periods))
           inner == AccRun(c2, id2, Len(Periods))
           range == UNION {Marks(e) : e \in AtClose(f, outer)}
           value == UNION {Marks(e) : e \in AtClose(f, inner)}
<1>1. AcceptanceEvent(f, id1, out, dir, r1) = AtClose(f, outer) /\ AcceptanceEvent(f, id2, in, dir, FALSE) = AtClose(f, inner)
  BY AcceptanceRuns
<1>2. PairHolds(<<c1, id1, c2, id2>>, Len(Periods))
  BY PeriodsAre, RunsPair
<1> HIDE DEF c1, c2
<1>3. IsEvent(outer) /\ IsEvent(inner) /\ NestWithin(Marks(outer), Marks(inner))
  BY <1>2 DEF PairHolds, Marked, IsAcceptance
<1> HIDE DEF outer, inner
<1>4. /\ Marks(outer) \subseteq range /\ \A h \in range \ Marks(outer) : h.state = "EXPIRED"
      /\ Marks(inner) \subseteq value /\ \A h \in value \ Marks(inner) : h.state = "EXPIRED"
  BY <1>3, ClosedMarks
<1> HIDE DEF range, value
<1>5. NestWithin(range, value)
  <2>1. ASSUME NEW c \in range, c.state = "CONFIRMED"
        PROVE  \E d \in value : d.state \in {"CONFIRMED", "INVALIDATED"} /\ d.at <= c.at
    BY <1>3, <1>4, <2>1 DEF NestWithin
  <2>2. ASSUME NEW x \in value, NEW c \in range,
               x.state = "INVALIDATED", c.state \in {"DEVELOPING", "CONFIRMED"}, c.at <= x.at
        PROVE  \E y \in range : y.state = "INVALIDATED" /\ y.at <= x.at
    BY <1>3, <1>4, <2>2 DEF NestWithin
  <2> QED BY <2>1, <2>2 DEF NestWithin
<1> QED BY <1>1, <1>5 DEF range, value

-----------------------------------------------------------------------------
(* The machine of the developing value outside *)

IsOutside(e) ==
    /\ IsEvent(e)
    /\ e.state \in {"NOT_TRIGGERED", "TRIGGERED", "DEVELOPING", "INVALIDATED"}
    /\ e.done => e.state = "INVALIDATED"
OutsideAt(s, pr) == s.dev.val > pr.vah \/ s.dev.vah < pr.val

Turning(e, full, dir) == [e EXCEPT !.full = full, !.dir = dir]
Ending(e) == [e EXCEPT !.done = TRUE]
Counting(e, full) == [e EXCEPT !.full = full]
Kept(e, n) == IsEvent(n) /\ n.id = e.id /\ n.hist = e.hist /\ n.state = e.state

\* The counters and the end of an event leave its history as it is.
LEMMA Changes ==
    ASSUME NEW e, NEW full \in Int, NEW dir \in Dirs, IsEvent(e)
    PROVE  /\ Kept(e, Turning(e, full, dir)) /\ Turning(e, full, dir).done = e.done
           /\ Kept(e, Ending(e)) /\ Ending(e).done = TRUE
           /\ Kept(e, Counting(e, full)) /\ Counting(e, full).done = e.done
<1>0. e \in EventSet
  BY DEF IsEvent
<1> DEFINE n == Turning(e, full, dir)
           m == Ending(e)
           z == Counting(e, full)
<1>1. n = Turning(e, full, dir) /\ m = Ending(e) /\ z = Counting(e, full)
  OBVIOUS
<1> HIDE DEF n, m, z
<1>2. n = [id |-> e.id, dir |-> dir, state |-> e.state, strength |-> e.strength, hist |-> e.hist,
           full |-> full, opp |-> e.opp, developed |-> e.developed, accepted |-> e.accepted, done |-> e.done]
  BY <1>0, <1>1 DEF EventSet, Turning
<1>3. m = [id |-> e.id, dir |-> e.dir, state |-> e.state, strength |-> e.strength, hist |-> e.hist,
           full |-> e.full, opp |-> e.opp, developed |-> e.developed, accepted |-> e.accepted, done |-> TRUE]
  BY <1>0, <1>1 DEF EventSet, Ending
<1>4. z = [id |-> e.id, dir |-> e.dir, state |-> e.state, strength |-> e.strength, hist |-> e.hist,
           full |-> full, opp |-> e.opp, developed |-> e.developed, accepted |-> e.accepted, done |-> e.done]
  BY <1>0, <1>1 DEF EventSet, Counting
<1>5. n \in EventSet /\ n.id = e.id /\ n.hist = e.hist /\ n.state = e.state /\ n.done = e.done
  BY <1>0, <1>2 DEF EventSet
<1>6. m \in EventSet /\ m.id = e.id /\ m.hist = e.hist /\ m.state = e.state /\ m.done = TRUE
  BY <1>0, <1>3 DEF EventSet
<1>7. z \in EventSet /\ z.id = e.id /\ z.hist = e.hist /\ z.state = e.state /\ z.done = e.done
  BY <1>0, <1>4 DEF EventSet
<1>8. Kept(e, n) /\ n.done = e.done /\ Kept(e, m) /\ m.done = TRUE /\ Kept(e, z) /\ z.done = e.done
  BY <1>0, <1>5, <1>6, <1>7 DEF IsEvent, Kept
<1> QED BY <1>8 DEF n, m, z

Outward(e, s, pr, n) ==
    /\ IsOutside(n) /\ n.id = e.id /\ IsPrefix(e.hist, n.hist)
    /\ e.state # "NOT_TRIGGERED" \/ OutsideAt(s, pr) => n.state # "NOT_TRIGGERED"

\* What one bracket makes of the value outside.
LEMMA StepsOutside ==
    ASSUME NEW e, NEW p \in Int, NEW s, NEW pr, IsOutside(e)
    PROVE  Outward(e, s, pr, OutsideStep(e, p, s, pr))
<1> DEFINE up == s.dev.val > pr.vah
           down == s.dev.vah < pr.val
           dir == IF up THEN "UP" ELSE "DOWN"
           full == e.full + 1
           out == Turning(e, full, dir)
           n == OutsideStep(e, p, s, pr)
           Met(x) == IsEvent(x) /\ x.id = e.id /\ IsPrefix(e.hist, x.hist)
<1>0. /\ IsEvent(e) /\ full \in Int /\ dir \in Dirs /\ e.hist \in Histories /\ IsPrefix(e.hist, e.hist)
      /\ {"TRIGGERED", "DEVELOPING", "INVALIDATED"} \in SUBSET States
  BY DEF IsOutside, IsEvent, EventSet, Dirs, States, IsPrefix, Histories
<1>1. n = CASE e.done -> e
            [] ~e.done /\ (up \/ down) ->
                 IF e.state = "NOT_TRIGGERED" THEN Transition(out, "TRIGGERED", p)
                 ELSE IF out.full >= 3 /\ e.state = "TRIGGERED" THEN Transition(out, "DEVELOPING", p)
                 ELSE out
            [] OTHER -> IF e.state \in {"TRIGGERED", "DEVELOPING"} THEN Ending(Transition(e, "INVALIDATED", p))
                        ELSE Counting(e, 0)
  BY DEF OutsideStep, Turning, Ending, Counting
<1>2. OutsideAt(s, pr) = (up \/ down)
  BY DEF OutsideAt
<1> HIDE DEF n, up, down, full, dir
<1>3. Kept(e, out) /\ out.done = e.done /\ Kept(e, Counting(e, 0)) /\ Counting(e, 0).done = e.done
  <2>1. Kept(e, out) /\ out.done = e.done
    BY <1>0, Changes
  <2>2. Kept(e, Counting(e, 0)) /\ Counting(e, 0).done = e.done
    <3>1. 0 \in Int
      OBVIOUS
    <3>2. \A x \in Int : Kept(e, Counting(e, x)) /\ Counting(e, x).done = e.done
      BY <1>0, Changes
    <3> QED BY <3>1, <3>2
  <2> HIDE DEF out
  <2> QED BY <2>1, <2>2
<1>4. Met(out) /\ Met(Counting(e, 0)) /\ Met(e)
  BY <1>0, <1>3 DEF Kept
<1> HIDE DEF out
<1>5. CASE e.done
  BY <1>0, <1>1, <1>5 DEF Outward, n, IsOutside
<1>6. CASE ~e.done /\ (up \/ down)
  <2> DEFINE t == Transition(out, "TRIGGERED", p)
             d == Transition(out, "DEVELOPING", p)
  <2>1. /\ Met(t) /\ t.state = "TRIGGERED" /\ t.done = e.done
        /\ Met(d) /\ d.state = "DEVELOPING" /\ d.done = e.done
    <3>1. "TRIGGERED" \in States /\ "DEVELOPING" \in States /\ out.hist = e.hist /\ out.id = e.id /\ IsEvent(out)
      BY <1>0, <1>3 DEF Kept
    <3>2. IsEvent(t) /\ t.id = out.id /\ IsPrefix(out.hist, t.hist) /\ t.state = "TRIGGERED" /\ t.done = out.done
      BY <3>1, Transits
    <3>3. IsEvent(d) /\ d.id = out.id /\ IsPrefix(out.hist, d.hist) /\ d.state = "DEVELOPING" /\ d.done = out.done
      BY <3>1, Transits
    <3> HIDE DEF t, d
    <3> QED BY <1>3, <3>1, <3>2, <3>3
  <2>2. n \in {t, d, out} /\ (e.state = "NOT_TRIGGERED" => n = t)
    BY <1>1, <1>6
  <2>3. out.state = e.state /\ out.done = e.done
    BY <1>3 DEF Kept
  <2> HIDE DEF t, d
  <2> QED BY <1>4, <1>6, <2>1, <2>2, <2>3 DEF Outward, n, IsOutside
<1>7. CASE ~e.done /\ ~(up \/ down)
  <2> DEFINE i == Transition(e, "INVALIDATED", p)
             c == Counting(e, 0)
  <2>1. Met(Ending(i)) /\ Ending(i).state = "INVALIDATED" /\ Ending(i).done = TRUE
    <3>1. "INVALIDATED" \in States
      BY <1>0
    <3>2. IsEvent(i) /\ i.id = e.id /\ IsPrefix(e.hist, i.hist) /\ i.state = "INVALIDATED"
      BY <1>0, <3>1, Transits
    <3> HIDE DEF i
    <3>3. Kept(i, Ending(i)) /\ Ending(i).done = TRUE
      BY <3>2, <1>0, Changes
    <3> QED BY <3>2, <3>3 DEF Kept
  <2>2. n = IF e.state \in {"TRIGGERED", "DEVELOPING"} THEN Ending(i) ELSE c
    BY <1>1, <1>7
  <2>3. Met(c) /\ c.state = e.state /\ c.done = e.done
    BY <1>3, <1>4 DEF Kept
  <2> HIDE DEF i, c
  <2>4. IsOutside(n)
    BY <2>1, <2>2, <2>3 DEF IsOutside
  <2>5. Met(n) /\ (e.state # "NOT_TRIGGERED" => n.state # "NOT_TRIGGERED")
    BY <2>1, <2>2, <2>3
  <2> QED BY <1>2, <1>7, <2>4, <2>5 DEF Outward, n
<1> QED BY <1>5, <1>6, <1>7

OutStep(f, e, p) == IF p \in DOMAIN f.snaps THEN OutsideStep(e, p, f.snaps[p], f.prior) ELSE e
OutRun(f, k) == FoldLeft(LAMBDA a, i : OutStep(f, a, i), NewEvent("MP-015", "NONE", "STRONG"), [i \in 1..k |-> i])

\* After every bracket: it has begun if the value was outside in one of them.
OutHolds(f, k) ==
    LET e == OutRun(f, k)
    IN  /\ IsOutside(e) /\ e.id = "MP-015"
        /\ (\E p \in 1..k : p \in DOMAIN f.snaps /\ OutsideAt(f.snaps[p], f.prior)) => e.state # "NOT_TRIGGERED"

OutFold == INSTANCE FoldFacts WITH Step <- OutStep, Holds <- OutHolds

\* The machine takes one turn after the other.
LEMMA OutFolds ==
    ASSUME NEW f
    PROVE  /\ OutRun(f, 0) = NewEvent("MP-015", "NONE", "STRONG")
           /\ \A k \in Nat : OutRun(f, k + 1) = OutStep(f, OutRun(f, k), k + 1)
<1> DEFINE start == NewEvent("MP-015", "NONE", "STRONG")
<1>1. \A k : OutRun(f, k) = OutFold!Folded(f, start, k)
  BY DEF OutRun, OutFold!Folded, FoldLeft, OutFold!FoldLeft, MapThenFoldSet, OutFold!MapThenFoldSet, Max, OutFold!Max
<1>2. /\ OutFold!Folded(f, start, 0) = start
      /\ \A k \in Nat : OutFold!Folded(f, start, k + 1) = OutStep(f, OutFold!Folded(f, start, k), k + 1)
  BY OutFold!FoldNext, Zenon
<1> HIDE DEF start
<1>3. OutRun(f, 0) = start /\ \A k \in Nat : OutRun(f, k + 1) = OutStep(f, OutRun(f, k), k + 1)
  BY <1>1, <1>2
<1> QED BY <1>3 DEF start

\* One turn of the machine over the brackets.
LEMMA OutSteps ==
    ASSUME NEW f, NEW e, NEW p \in Int, IsOutside(e)
    PROVE  /\ IsOutside(OutStep(f, e, p)) /\ OutStep(f, e, p).id = e.id
           /\ IsPrefix(e.hist, OutStep(f, e, p).hist)
           /\ e.state # "NOT_TRIGGERED" \/ (p \in DOMAIN f.snaps /\ OutsideAt(f.snaps[p], f.prior))
                => OutStep(f, e, p).state # "NOT_TRIGGERED"
<1>1. IsPrefix(e.hist, e.hist)
  BY DEF IsOutside, IsEvent, EventSet, IsPrefix, Histories
<1>2. CASE p \notin DOMAIN f.snaps
  <2>1. OutStep(f, e, p) = e
    BY <1>2 DEF OutStep
  <2> QED BY <1>1, <1>2, <2>1
<1>3. CASE p \in DOMAIN f.snaps
  <2> DEFINE s == f.snaps[p]
             n == OutsideStep(e, p, s, f.prior)
  <2>1. OutStep(f, e, p) = n
    BY <1>3 DEF OutStep
  <2>2. Outward(e, s, f.prior, n)
    <3> HIDE DEF s
    <3> QED BY StepsOutside, Zenon
  <2> HIDE DEF n
  <2> QED BY <2>1, <2>2 DEF Outward
<1> QED BY <1>2, <1>3

\* So after every bracket.
LEMMA OutRuns == ASSUME NEW f PROVE \A k \in Nat : OutHolds(f, k)
<1>1. OutHolds(f, 0)
  <2> DEFINE e == NewEvent("MP-015", "NONE", "STRONG")
  <2>1. "MP-015" \in Ids /\ "NONE" \in Dirs /\ "STRONG" \in Strengths
    BY DEF Ids, Dirs, Strengths
  <2>2. IsAcceptance(e) /\ e.id = "MP-015" /\ ~e.done
    BY <2>1, BeginsAcceptance
  <2>3. e.state = "NOT_TRIGGERED"
    BY DEF NewEvent
  <2>4. OutRun(f, 0) = e
    BY OutFolds
  <2> HIDE DEF e
  <2>5. IsOutside(e)
    BY <2>2, <2>3 DEF IsOutside, IsAcceptance
  <2> QED BY <2>2, <2>4, <2>5 DEF OutHolds
<1>2. ASSUME NEW k \in Nat, OutHolds(f, k) PROVE OutHolds(f, k + 1)
  <2> DEFINE e == OutRun(f, k)
             n == OutStep(f, e, k + 1)
  <2>1. /\ IsOutside(e) /\ e.id = "MP-015" /\ k + 1 \in Int
        /\ (\E p \in 1..k : p \in DOMAIN f.snaps /\ OutsideAt(f.snaps[p], f.prior)) => e.state # "NOT_TRIGGERED"
    BY <1>2 DEF OutHolds
  <2>2. OutRun(f, k + 1) = n
    BY OutFolds
  <2>3. /\ IsOutside(n) /\ n.id = e.id
        /\ e.state # "NOT_TRIGGERED" \/ (k + 1 \in DOMAIN f.snaps /\ OutsideAt(f.snaps[k + 1], f.prior))
                => n.state # "NOT_TRIGGERED"
    <3> HIDE DEF e
    <3> QED BY <2>1, OutSteps
  <2>4. \A p \in 1..(k + 1) : p \in 1..k \/ p = k + 1
    OBVIOUS
  <2> HIDE DEF e, n
  <2> QED BY <2>1, <2>2, <2>3, <2>4 DEF OutHolds
<1>3. \A k \in Nat : OutHolds(f, k) => OutHolds(f, k + 1)
  BY <1>2
<1> QED BY <1>1, <1>3, OutFold!Induction, Zenon

-----------------------------------------------------------------------------
(* What the events of a session are called *)

HasId(e, id) == "id" \in DOMAIN e /\ e.id = id

\* A transition keeps the name of the event.
LEMMA Named ==
    ASSUME NEW e, NEW id, NEW state, NEW at, HasId(e, id)
    PROVE  HasId(Transition(e, state, at), id)
<1>1. CASE e.hist # <<>> /\ Last(e.hist).state = state
  BY <1>1 DEF Transition
<1>2. CASE ~(e.hist # <<>> /\ Last(e.hist).state = state)
  <2>1. Transition(e, state, at) = [e EXCEPT !.state = state, !.hist = Append(e.hist, [state |-> state, at |-> at])]
    BY <1>2 DEF Transition
  <2> QED BY <2>1 DEF HasId
<1> QED BY <1>1, <1>2

\* Every event has a name.
LEMMA EventNamed == ASSUME NEW e, IsEvent(e) PROVE HasId(e, e.id)
BY DEF IsEvent, EventSet, HasId

\* An acceptance is called what it was begun as.
LEMMA AcceptanceNamed ==
    ASSUME NEW f, NEW id \in Ids, NEW name, NEW dir \in {"UP", "DOWN"}, NEW isRange
    PROVE  \A x \in AcceptanceEvent(f, id, name, dir, isRange) : x.id = id
<1> DEFINE c == <<f, name, dir, isRange>>
           end == AccRun(c, id, Len(Periods))
<1>1. AcceptanceEvent(f, id, name, dir, isRange) = AtClose(f, end)
  BY AcceptanceRuns
<1>2. c[3] \in {"UP", "DOWN"}
  OBVIOUS
<1> HIDE DEF c
<1>3. IsAcceptance(end) /\ end.id = id
  BY <1>2, RunIs, PeriodsAre
<1> HIDE DEF end
<1>4. \A x \in AtClose(f, end) : x = end \/ \E at : x = Transition(end, "EXPIRED", at)
  BY DEF AtClose
<1>5. HasId(end, id)
  BY <1>3, EventNamed DEF IsAcceptance
<1>6. \A at : HasId(Transition(end, "EXPIRED", at), id)
  BY <1>5, Named
<1> QED BY <1>1, <1>4, <1>5, <1>6 DEF HasId

\* So is a rejection.
LEMMA RejectionNamed ==
    ASSUME NEW f, NEW id \in Ids, NEW name, NEW dir \in {"UP", "DOWN"}
    PROVE  \A x \in RejectionEvent(f, id, name, dir) : x.id = id
<1> DEFINE new == NewEvent(id, dir, "MODERATE")
           begun(at) == Transition(new, "TRIGGERED", at)
<1>1. IsEvent(new) /\ new.id = id
  <2>1. dir \in Dirs /\ "MODERATE" \in Strengths
    BY DEF Dirs, Strengths
  <2> QED BY <2>1, BeginsAcceptance DEF IsAcceptance
<1>2. \A x \in RejectionEvent(f, id, name, dir) :
         \E at1, at2, strength : \/ x = begun(at1)
                                 \/ x = [Transition(begun(at1), "CONFIRMED", at2) EXCEPT !.strength = strength]
  <2> SUFFICES ASSUME NEW x \in RejectionEvent(f, id, name, dir)
               PROVE  \E at1, at2, strength :
                         \/ x = begun(at1)
                         \/ x = [Transition(begun(at1), "CONFIRMED", at2) EXCEPT !.strength = strength]
    OBVIOUS
  <2>1. \/ \E at1 : x = begun(at1)
        \/ \E at1, at2, strength :
              x = [Transition(begun(at1), "CONFIRMED", at2) EXCEPT !.strength = strength]
    BY DEF RejectionEvent
  <2> HIDE DEF begun
  <2> QED BY <2>1
<1>3. HasId(new, id)
  BY <1>1, EventNamed
<1> HIDE DEF new
<1>4. \A at1, at2 : HasId(begun(at1), id) /\ HasId(Transition(begun(at1), "CONFIRMED", at2), id)
  BY <1>3, Named
<1> HIDE DEF begun
<1>5. ASSUME NEW t, NEW strength, HasId(t, id) PROVE [t EXCEPT !.strength = strength].id = id
  BY <1>5 DEF HasId
<1> QED BY <1>2, <1>4, <1>5 DEF HasId

\* So is the value outside.
LEMMA OutsideNamed == ASSUME NEW f PROVE \A x \in OutsideEvent(f) : x.id = "MP-015"
<1> DEFINE end == OutRun(f, Len(Periods))
<1>1. \A x \in OutsideEvent(f) : x = end \/ \E state, at : x = Transition(end, state, at)
  BY DEF OutsideEvent, Over, OutRun, OutStep
<1>2. IsOutside(end) /\ end.id = "MP-015"
  BY OutRuns, PeriodsAre DEF OutHolds
<1> HIDE DEF end
<1>3. HasId(end, "MP-015")
  BY <1>2, EventNamed DEF IsOutside
<1>4. \A state, at : HasId(Transition(end, state, at), "MP-015")
  BY <1>3, Named
<1> QED BY <1>1, <1>3, <1>4 DEF HasId

\* So the events of an acceptance's id are its own.
LEMMA EventsAre ==
    ASSUME NEW f
    PROVE  LET L == Lifecycles(f)
           IN  /\ {x \in L : x.id = "MP-010"} = AcceptanceEvent(f, "MP-010", "prev_vah", "UP", FALSE)
               /\ {x \in L : x.id = "MP-011"} = AcceptanceEvent(f, "MP-011", "prev_val", "DOWN", FALSE)
               /\ {x \in L : x.id = "MP-016"} = AcceptanceEvent(f, "MP-016", "prev_high", "UP", TRUE)
               /\ {x \in L : x.id = "MP-017"} = AcceptanceEvent(f, "MP-017", "prev_low", "DOWN", TRUE)
               /\ {x \in L : x.id = "MP-015"} = OutsideEvent(f)
<1> DEFINE E10 == AcceptanceEvent(f, "MP-010", "prev_vah", "UP", FALSE)
           E11 == AcceptanceEvent(f, "MP-011", "prev_val", "DOWN", FALSE)
           E16 == AcceptanceEvent(f, "MP-016", "prev_high", "UP", TRUE)
           E17 == AcceptanceEvent(f, "MP-017", "prev_low", "DOWN", TRUE)
           E19 == AcceptanceEvent(f, "MP-019", "ib_high", "UP", TRUE)
           E20 == AcceptanceEvent(f, "MP-020", "ib_low", "DOWN", TRUE)
           E12 == RejectionEvent(f, "MP-012", "prev_vah", "UP")
           E13 == RejectionEvent(f, "MP-013", "prev_val", "DOWN")
           E15 == OutsideEvent(f)
<1>1. Lifecycles(f) = E10 \cup E11 \cup E16 \cup E17 \cup E19 \cup E20 \cup E12 \cup E13 \cup E15
  BY DEF Lifecycles
<1>2. {"MP-010", "MP-011", "MP-016", "MP-017", "MP-019", "MP-020", "MP-012", "MP-013", "MP-015"} \in SUBSET Ids
  BY DEF Ids
<1>3. /\ \A x \in E10 : x.id = "MP-010"
      /\ \A x \in E11 : x.id = "MP-011"
      /\ \A x \in E16 : x.id = "MP-016"
      /\ \A x \in E17 : x.id = "MP-017"
  BY <1>2, AcceptanceNamed
<1>4. /\ \A x \in E19 : x.id = "MP-019"
      /\ \A x \in E20 : x.id = "MP-020"
  BY <1>2, AcceptanceNamed
<1>5. /\ \A x \in E12 : x.id = "MP-012"
      /\ \A x \in E13 : x.id = "MP-013"
      /\ \A x \in E15 : x.id = "MP-015"
  BY <1>2, RejectionNamed, OutsideNamed
<1> HIDE DEF E10, E11, E16, E17, E19, E20, E12, E13, E15
<1> DEFINE L == Lifecycles(f)
<1>6. /\ {x \in L : x.id = "MP-010"} = E10
      /\ {x \in L : x.id = "MP-011"} = E11
      /\ {x \in L : x.id = "MP-016"} = E16
      /\ {x \in L : x.id = "MP-017"} = E17
      /\ {x \in L : x.id = "MP-015"} = E15
  BY <1>1, <1>3, <1>4, <1>5
<1> HIDE DEF L
<1> QED BY <1>6, Zenon DEF L, E10, E11, E16, E17, E15

\* So are their states.
LEMMA StatesAre ==
    ASSUME NEW f
    PROVE  /\ StatesOf("MP-010", Lifecycles(f)) = {e.state : e \in AcceptanceEvent(f, "MP-010", "prev_vah", "UP", FALSE)}
           /\ StatesOf("MP-011", Lifecycles(f)) = {e.state : e \in AcceptanceEvent(f, "MP-011", "prev_val", "DOWN", FALSE)}
           /\ StatesOf("MP-016", Lifecycles(f)) = {e.state : e \in AcceptanceEvent(f, "MP-016", "prev_high", "UP", TRUE)}
           /\ StatesOf("MP-017", Lifecycles(f)) = {e.state : e \in AcceptanceEvent(f, "MP-017", "prev_low", "DOWN", TRUE)}
           /\ StatesOf("MP-015", Lifecycles(f)) = {e.state : e \in OutsideEvent(f)}
<1> DEFINE L == Lifecycles(f)
           OfId(id) == {x \in L : x.id = id}
<1>1. \A id : StatesOf(id, L) = {e.state : e \in OfId(id)}
  BY DEF StatesOf
<1>2. /\ OfId("MP-010") = AcceptanceEvent(f, "MP-010", "prev_vah", "UP", FALSE)
      /\ OfId("MP-011") = AcceptanceEvent(f, "MP-011", "prev_val", "DOWN", FALSE)
      /\ OfId("MP-016") = AcceptanceEvent(f, "MP-016", "prev_high", "UP", TRUE)
      /\ OfId("MP-017") = AcceptanceEvent(f, "MP-017", "prev_low", "DOWN", TRUE)
      /\ OfId("MP-015") = OutsideEvent(f)
  BY EventsAre
<1> HIDE DEF L, OfId
<1>3. \A id, E : OfId(id) = E => StatesOf(id, L) = {e.state : e \in E}
  BY <1>1
<1> QED BY <1>2, <1>3 DEF L

-----------------------------------------------------------------------------
(* What the events read of a profile, of the prior one and of a bracket *)

\* The levels of a profile: its value lies around its point of control, and below
\* the high of its range; its edges are those of bins.
OnBin(price) == \E b \in Int : price = b * Bin
Levelled(prof) ==
    /\ prof.poc \in Int /\ prof.vah \in Int /\ prof.val \in Int
    /\ prof.high \in Int /\ prof.low \in Int /\ prof.close \in Int
    /\ prof.val <= prof.poc /\ prof.poc <= prof.vah
    /\ prof.low <= prof.high /\ prof.vah <= prof.high
    /\ OnBin(prof.vah) /\ OnBin(prof.val)

\* An area lies within the bins of the bars.
LEMMA AreaWithin ==
    ASSUME NEW kind, NEW f, IsSeries(f), DOMAIN f # {}, NEW n, NEW b \in DOMAIN Metric(kind, f, n)
    PROVE  b \in Int /\ b * Bin <= Max(Highs(f))
<1>1. DOMAIN Metric(kind, f, n) = UNION {OverlappedBins(f[i].low, f[i].high) : i \in DOMAIN f}
  BY DEF Metric
<1>2. PICK i \in DOMAIN f : b \in OverlappedBins(f[i].low, f[i].high)
  BY <1>1
<1>3. f[i].low \in Int /\ f[i].high \in Int
  BY DEF IsSeries, BarSet
<1>4. Bin \in Nat \ {0}
  BY ProfileAssumption
<1> DEFINE q == f[i].high \div Bin
<1>5. b \in Int /\ b <= q /\ q \in Int
  <2>1. f[i].low \div Bin \in Int /\ q \in Int
    BY <1>3, <1>4, Divides
  <2> QED BY <1>2, <2>1 DEF OverlappedBins
<1>6. q * Bin <= f[i].high
  BY <1>3, <1>4
<1>7. f[i].high <= Max(Highs(f)) /\ Max(Highs(f)) \in Int
  BY Ranges
<1>8. b * Bin <= q * Bin
  <2> HIDE DEF q
  <2> QED BY <1>4, <1>5, Divides
<1>9. b * Bin \in Int /\ q * Bin \in Int
  BY <1>4, <1>5
<1> QED BY <1>3, <1>5, <1>6, <1>7, <1>8, <1>9

\* Every profile that is built has its levels in order.
LEMMA LevelsOf ==
    ASSUME NEW kind, NEW series, IsSeries(series), NEW n, BuildProfile(kind, series, n) # NoProfile
    PROVE  Levelled(BuildProfile(kind, series, n))
<1> DEFINE f == Traded(series, n)
           m == Metric(kind, f, n)
           p == BuildProfile(kind, series, n)
           close == LastOf(series).close
<1>1. PICK poc \in DOMAIN m, area \in SUBSET DOMAIN m :
          /\ IsSeries(f) /\ DOMAIN f # {} /\ IsMetric(m)
          /\ ValueOf(m, poc, area)
          /\ p = Stated(f, close, n, m, poc, [val |-> Min(area), vah |-> Max(area)])
  BY ProfileIs
<1>2. /\ IsFiniteSet(area) /\ area \in SUBSET Int /\ area # {} /\ poc \in area
  BY <1>1, FS_Subset DEF IsMetric, ValueOf, Stretch
<1>3. /\ Max(area) \in area /\ poc <= Max(area) /\ Min(area) \in area /\ Min(area) <= poc
      /\ Max(area) \in Int /\ Min(area) \in Int /\ poc \in Int
  BY <1>2, Extremes
<1>4. Max(area) * Bin <= Max(Highs(f))
  <2>1. Max(area) \in DOMAIN m
    BY <1>3
  <2> HIDE DEF f
  <2> QED BY <1>1, <2>1, AreaWithin
<1>5. Bin \in Nat \ {0}
  BY ProfileAssumption
<1>6. close \in Int
  <2>1. DOMAIN series # {}
    <3>1. DOMAIN series = {} => DOMAIN f = {}
      BY DEF Traded, Restrict
    <3> QED BY <1>1, <3>1
  <2>2. Max(DOMAIN series) \in DOMAIN series
    <3>1. IsFiniteSet(DOMAIN series) /\ DOMAIN series \in SUBSET Int
      BY DEF IsSeries
    <3> QED BY <2>1, <3>1, Extremes
  <2> QED BY <2>2 DEF LastOf, IsSeries, BarSet
<1>7. /\ Max(Highs(f)) \in Int /\ Min(Lows(f)) \in Int /\ Min(Lows(f)) <= Max(Highs(f))
  <2> HIDE DEF f
  <2>1. PICK i \in DOMAIN f : TRUE
    BY <1>1
  <2>2. f[i].low \in Int /\ f[i].high \in Int /\ f[i].low <= f[i].high
    BY <1>1 DEF IsSeries, BarSet
  <2>3. /\ Max(Highs(f)) \in Int /\ Min(Lows(f)) \in Int /\ Min(Lows(f)) <= f[i].low /\ f[i].high <= Max(Highs(f))
    BY <1>1, Ranges
  <2> QED BY <2>2, <2>3
<1>8. /\ p.poc = poc * Bin /\ p.vah = Max(area) * Bin /\ p.val = Min(area) * Bin
      /\ p.high = Max(Highs(f)) /\ p.low = Min(Lows(f)) /\ p.close = close
  BY <1>1 DEF Stated
<1>9. Min(area) * Bin <= poc * Bin /\ poc * Bin <= Max(area) * Bin
  BY <1>3, <1>5, Divides
<1>10. poc * Bin \in Int /\ Max(area) * Bin \in Int /\ Min(area) * Bin \in Int
  BY <1>3, <1>5
<1>11. OnBin(p.vah) /\ OnBin(p.val)
  BY <1>3, <1>8 DEF OnBin
<1> HIDE DEF p, f, m, close
<1>12. Levelled(p)
  BY <1>4, <1>6, <1>7, <1>8, <1>9, <1>10, <1>11 DEF Levelled
<1> QED BY <1>12 DEF p

\* The bars a bracket is read from.
LEMMA SliceIs ==
    ASSUME NEW series, IsSeries(series), NEW p
    PROVE  IsSeries(Slice(series, p))
BY Restricted DEF Slice

\* The snapshot of a bracket.
SnapshotOK(s, pr) ==
    /\ Levelled(s.dev) /\ s.dev # NoProfile /\ s.high \in Int /\ s.low \in Int
    /\ pr # NoPrior => \A name \in {"prev_vah", "prev_val", "prev_high", "prev_low"} :
                          name \in DOMAIN s.rel /\ s.rel[name] = RelToLevel(s.low, s.high, PriorLevel(pr, name))

\* The snapshots are of closed brackets with a profile, related to the prior levels.
LEMMA SnapshotsAre ==
    ASSUME NEW series, IsSeries(series), NEW now, NEW pr, NEW p \in DOMAIN Snapshots(series, now, pr)
    PROVE  /\ p \in DOMAIN Periods /\ Periods[p].end <= now
           /\ Developing(Slice(series, p), p) # NoProfile
           /\ Snapshots(series, now, pr)[p] = Snapshot(Slice(series, p), p, pr, Developing(Slice(series, p), p))
           /\ SnapshotOK(Snapshots(series, now, pr)[p], pr)
<1> DEFINE sliced == Slice(series, p)
           dev == Developing(sliced, p)
           own == Restrict(sliced, {i \in DOMAIN sliced : sliced[i].ts >= Periods[p].start})
           s == Snapshot(sliced, p, pr, dev)
<1>1. /\ p \in DOMAIN Periods /\ Periods[p].end <= now /\ dev # NoProfile
      /\ Snapshots(series, now, pr)[p] = s
  BY DEF Snapshots
<1>2. IsSeries(sliced)
  BY SliceIs
<1> HIDE DEF sliced
<1>3. DOMAIN sliced # {} /\ dev = BuildProfile("TPO", sliced, p)
  BY <1>1 DEF Developing
<1>4. Levelled(dev)
  BY <1>1, <1>2, <1>3, LevelsOf
<1>5. IsSeries(own)
  BY <1>2, Restricted
<1>6. /\ s.high = IF DOMAIN own = {} THEN dev.high ELSE Max(Highs(own))
      /\ s.low = IF DOMAIN own = {} THEN dev.low ELSE Min(Lows(own))
      /\ s.dev = dev
  BY DEF Snapshot
<1>7. s.high \in Int /\ s.low \in Int
  <2> HIDE DEF s, own, dev
  <2> QED BY <1>4, <1>5, <1>6, Ranges DEF Levelled
<1>8. ASSUME pr # NoPrior, NEW name \in {"prev_vah", "prev_val", "prev_high", "prev_low"}
      PROVE  name \in DOMAIN s.rel /\ s.rel[name] = RelToLevel(s.low, s.high, PriorLevel(pr, name))
  <2> HIDE DEF own, dev
  <2>1. name # "ib_high" /\ name # "ib_low"
    BY <1>8
  <2> QED BY <1>8, <2>1 DEF Snapshot, s, own
<1>9. SnapshotOK(s, pr)
  <2> HIDE DEF s, dev
  <2> QED BY <1>1, <1>4, <1>6, <1>7, <1>8 DEF SnapshotOK
<1> HIDE DEF s, dev
<1> QED BY <1>1, <1>9 DEF s, dev, sliced

-----------------------------------------------------------------------------
(* The acceptances nest *)

\* The counts of bins beyond a level, with a tolerance of half a bin.
AboveOf(low, high, level) == {b \in OverlappedBins(low, high) : 2 * b * Bin > 2 * level + Bin}
BelowOf(low, high, level) == {b \in OverlappedBins(low, high) : 2 * b * Bin < 2 * level - Bin}

\* Who is beyond a level is beyond every level nearer by.
LEMMA FartherCounts ==
    ASSUME NEW low \in Int, NEW high \in Int, NEW inner \in Int, NEW outer \in Int, inner <= outer
    PROVE  /\ Cardinality(AboveOf(low, high, outer)) <= Cardinality(AboveOf(low, high, inner))
           /\ Cardinality(BelowOf(low, high, inner)) <= Cardinality(BelowOf(low, high, outer))
           /\ \A level \in Int : /\ Cardinality(AboveOf(low, high, level)) \in Nat
                                 /\ Cardinality(BelowOf(low, high, level)) \in Nat
           /\ Cardinality(OverlappedBins(low, high)) \in Nat
<1> DEFINE bins == OverlappedBins(low, high)
<1>1. Bin \in Nat \ {0}
  BY ProfileAssumption
<1>2. IsFiniteSet(bins) /\ Cardinality(bins) \in Nat /\ bins \in SUBSET Int
  <2>1. low \div Bin \in Int /\ high \div Bin \in Int
    BY <1>1, Divides
  <2> DEFINE l == low \div Bin
             h == high \div Bin
  <2> HIDE DEF l, h
  <2>2. l \in Int /\ h \in Int /\ bins = l..h
    BY <2>1 DEF OverlappedBins, l, h
  <2>3. IsFiniteSet(bins)
    BY <2>2, FS_Interval
  <2> QED BY <2>2, <2>3, FS_CardinalityType
<1> HIDE DEF bins
<1>3. \A level \in Int : /\ AboveOf(low, high, level) \in SUBSET bins /\ BelowOf(low, high, level) \in SUBSET bins
                         /\ IsFiniteSet(AboveOf(low, high, level)) /\ IsFiniteSet(BelowOf(low, high, level))
  <2>1. TAKE level \in Int
  <2>2. AboveOf(low, high, level) \in SUBSET bins /\ BelowOf(low, high, level) \in SUBSET bins
    BY DEF AboveOf, BelowOf, bins
  <2> QED BY <1>2, <2>2, FS_Subset
<1>4. /\ \A b \in AboveOf(low, high, outer) : b \in AboveOf(low, high, inner)
      /\ \A b \in BelowOf(low, high, inner) : b \in BelowOf(low, high, outer)
  <2>1. \A b \in bins : b \in Int
    BY <1>2
  <2>2. \A b \in bins : 2 * b * Bin \in Int
    BY <1>1, <2>1
  <2>3. \A b \in bins : /\ 2 * b * Bin > 2 * outer + Bin => 2 * b * Bin > 2 * inner + Bin
                        /\ 2 * b * Bin < 2 * inner - Bin => 2 * b * Bin < 2 * outer - Bin
    <3>1. TAKE b \in bins
    <3> DEFINE x == 2 * b * Bin
    <3>2. x \in Int
      BY <2>2
    <3> HIDE DEF x
    <3>3. (x > 2 * outer + Bin => x > 2 * inner + Bin) /\ (x < 2 * inner - Bin => x < 2 * outer - Bin)
      BY <1>1, <3>2
    <3> QED BY <3>3 DEF x
  <2> QED BY <2>3 DEF AboveOf, BelowOf, bins
<1>5. AboveOf(low, high, outer) \subseteq AboveOf(low, high, inner)
  BY <1>4
<1>6. BelowOf(low, high, inner) \subseteq BelowOf(low, high, outer)
  BY <1>4
<1> QED BY <1>2, <1>3, <1>5, <1>6, FS_Subset, FS_CardinalityType DEF bins

\* What full beyond a level means.
LEMMA FullOf ==
    ASSUME NEW low \in Int, NEW high \in Int, NEW level \in Int
    PROVE  LET n == Cardinality(OverlappedBins(low, high))
               above == Cardinality(AboveOf(low, high, level))
               below == Cardinality(BelowOf(low, high, level))
           IN  /\ RelToLevel(low, high, level) = "ABOVE_FULL" <=> 100 * above >= AcceptPct * n
               /\ RelToLevel(low, high, level) = "BELOW_FULL"
                    <=> 100 * above < AcceptPct * n /\ 100 * below >= AcceptPct * n
<1> DEFINE n == Cardinality(OverlappedBins(low, high))
           above == Cardinality(AboveOf(low, high, level))
           below == Cardinality(BelowOf(low, high, level))
<1>1. n \in Nat /\ above \in Nat /\ below \in Nat /\ AcceptPct \in Nat
  <2>1. level <= level
    OBVIOUS
  <2>2. n \in Nat /\ above \in Nat /\ below \in Nat
    BY <2>1, FartherCounts
  <2> QED BY <2>2, EventAssumption
<1> DEFINE a == 100 * above >= AcceptPct * n
           b == 100 * below >= AcceptPct * n
           fewer == 100 * above < AcceptPct * n
           rest == IF low < level /\ level < high THEN "SPANNING"
                      ELSE IF above > 0 THEN "ABOVE_PARTIAL"
                      ELSE IF below > 0 THEN "BELOW_PARTIAL" ELSE "SPANNING"
<1>2. fewer <=> ~a
  <2> DEFINE x == AcceptPct * n
  <2>1. x \in Int
    BY <1>1
  <2> HIDE DEF n, above, x
  <2>2. (100 * above < x) <=> ~(100 * above >= x)
    BY <1>1, <2>1
  <2> QED BY <2>2 DEF x
<1>3. RelToLevel(low, high, level)
        = CASE a -> "ABOVE_FULL" [] fewer /\ b -> "BELOW_FULL" [] OTHER -> rest
  BY DEF RelToLevel, AboveOf, BelowOf
<1>4. rest \notin {"ABOVE_FULL", "BELOW_FULL"}
  OBVIOUS
<1> HIDE DEF a, b, fewer, rest
<1>5. /\ RelToLevel(low, high, level) = "ABOVE_FULL" <=> a
      /\ RelToLevel(low, high, level) = "BELOW_FULL" <=> fewer /\ b
  BY <1>2, <1>3, <1>4
<1> QED BY <1>5 DEF a, b, fewer

\* Full beyond the farther level is full beyond the nearer one.
LEMMA FartherFull ==
    ASSUME NEW low \in Int, NEW high \in Int, NEW inner \in Int, NEW outer \in Int, inner <= outer
    PROVE  /\ RelToLevel(low, high, outer) = "ABOVE_FULL" => RelToLevel(low, high, inner) = "ABOVE_FULL"
           /\ RelToLevel(low, high, inner) = "BELOW_FULL" => RelToLevel(low, high, outer) = "BELOW_FULL"
<1> DEFINE x == AcceptPct * Cardinality(OverlappedBins(low, high))
           ao == Cardinality(AboveOf(low, high, outer))
           ai == Cardinality(AboveOf(low, high, inner))
           bo == Cardinality(BelowOf(low, high, outer))
           bi == Cardinality(BelowOf(low, high, inner))
<1>1. x \in Int /\ ao \in Nat /\ ai \in Nat /\ bo \in Nat /\ bi \in Nat /\ ao <= ai /\ bi <= bo
  <2> DEFINE n == Cardinality(OverlappedBins(low, high))
  <2>1. n \in Nat /\ ao \in Nat /\ ai \in Nat /\ bo \in Nat /\ bi \in Nat /\ ao <= ai /\ bi <= bo
    BY FartherCounts
  <2> HIDE DEF n, ao, ai, bo, bi
  <2>2. AcceptPct * n \in Int
    BY <2>1, EventAssumption
  <2> QED BY <2>1, <2>2 DEF n
<1>2. /\ RelToLevel(low, high, outer) = "ABOVE_FULL" <=> 100 * ao >= x
      /\ RelToLevel(low, high, inner) = "ABOVE_FULL" <=> 100 * ai >= x
      /\ RelToLevel(low, high, outer) = "BELOW_FULL" <=> (100 * ao < x /\ 100 * bo >= x)
      /\ RelToLevel(low, high, inner) = "BELOW_FULL" <=> (100 * ai < x /\ 100 * bi >= x)
  BY FullOf
<1> HIDE DEF x, ao, ai, bo, bi
<1>3. (100 * ao >= x => 100 * ai >= x) /\ (100 * ai < x => 100 * ao < x) /\ (100 * bi >= x => 100 * bo >= x)
  BY <1>1
<1> QED BY <1>2, <1>3

\* So the extreme of the prior range is the outer level, its value the inner.
LEMMA RangeNests ==
    ASSUME NEW series, IsSeries(series), NEW now, NEW pr, pr # NoPrior, Levelled(pr)
    PROVE  LET f == Facts(series, now, pr)
           IN  /\ Nested(f, "prev_high", "prev_vah", "UP")
               /\ pr.low <= pr.val => Nested(f, "prev_low", "prev_val", "DOWN")
<1> DEFINE f == Facts(series, now, pr)
<1>1. f.snaps = Snapshots(series, now, pr) /\ f.prior = pr
  BY DEF Facts, FactsOf
<1> HIDE DEF f
<1>2. /\ pr.high \in Int /\ pr.vah \in Int /\ pr.low \in Int /\ pr.val \in Int /\ pr.vah <= pr.high
  BY DEF Levelled
<1>3. ASSUME NEW p \in DOMAIN f.snaps
      PROVE  LET s == f.snaps[p]
             IN  /\ {"prev_vah", "prev_val", "prev_high", "prev_low"} \subseteq DOMAIN s.rel
                 /\ s.high \in Int /\ s.low \in Int /\ s.dev.val \in Int /\ s.dev.vah \in Int /\ s.dev.poc \in Int
                 /\ s.rel["prev_vah"] = RelToLevel(s.low, s.high, pr.vah)
                 /\ s.rel["prev_val"] = RelToLevel(s.low, s.high, pr.val)
                 /\ s.rel["prev_high"] = RelToLevel(s.low, s.high, pr.high)
                 /\ s.rel["prev_low"] = RelToLevel(s.low, s.high, pr.low)
                 /\ LevelOf(f, "prev_vah", s) = pr.vah /\ LevelOf(f, "prev_val", s) = pr.val
                 /\ LevelOf(f, "prev_high", s) = pr.high /\ LevelOf(f, "prev_low", s) = pr.low
  <2> DEFINE s == f.snaps[p]
  <2>1. SnapshotOK(s, pr)
    BY <1>1, <1>3, SnapshotsAre
  <2> HIDE DEF s
  <2>2. \A name \in {"prev_vah", "prev_val", "prev_high", "prev_low"} :
             name \in DOMAIN s.rel /\ s.rel[name] = RelToLevel(s.low, s.high, PriorLevel(pr, name))
    BY <2>1 DEF SnapshotOK
  <2>3. /\ PriorLevel(pr, "prev_vah") = pr.vah /\ PriorLevel(pr, "prev_val") = pr.val
        /\ PriorLevel(pr, "prev_high") = pr.high /\ PriorLevel(pr, "prev_low") = pr.low
    BY DEF PriorLevel
  <2>4. /\ LevelOf(f, "prev_vah", s) = pr.vah /\ LevelOf(f, "prev_val", s) = pr.val
        /\ LevelOf(f, "prev_high", s) = pr.high /\ LevelOf(f, "prev_low", s) = pr.low
    BY <1>1, <2>3 DEF LevelOf
  <2> QED BY <2>1, <2>2, <2>3, <2>4 DEF SnapshotOK, Levelled, s
<1>4. Nested(f, "prev_high", "prev_vah", "UP")
  <2> SUFFICES ASSUME NEW p \in DOMAIN f.snaps
               PROVE  LET s == f.snaps[p]
                      IN  /\ "prev_high" \in DOMAIN s.rel /\ "prev_vah" \in DOMAIN s.rel
                          /\ s.rel["prev_high"] = "ABOVE_FULL" => s.rel["prev_vah"] = "ABOVE_FULL"
                          /\ s.dev.val > LevelOf(f, "prev_high", s) => s.dev.val > LevelOf(f, "prev_vah", s)
                          /\ s.rel["prev_vah"] = "BELOW_FULL" => s.rel["prev_high"] = "BELOW_FULL"
                          /\ ~(s.dev.poc > LevelOf(f, "prev_vah", s)) => ~(s.dev.poc > LevelOf(f, "prev_high", s))
    BY DEF Nested, Full, Opposite, Beyond
  <2> QED BY <1>2, <1>3, FartherFull
<1>5. ASSUME pr.low <= pr.val PROVE Nested(f, "prev_low", "prev_val", "DOWN")
  <2> SUFFICES ASSUME NEW p \in DOMAIN f.snaps
               PROVE  LET s == f.snaps[p]
                      IN  /\ "prev_low" \in DOMAIN s.rel /\ "prev_val" \in DOMAIN s.rel
                          /\ s.rel["prev_low"] = "BELOW_FULL" => s.rel["prev_val"] = "BELOW_FULL"
                          /\ s.dev.vah < LevelOf(f, "prev_low", s) => s.dev.vah < LevelOf(f, "prev_val", s)
                          /\ s.rel["prev_val"] = "ABOVE_FULL" => s.rel["prev_low"] = "ABOVE_FULL"
                          /\ ~(s.dev.poc < LevelOf(f, "prev_val", s)) => ~(s.dev.poc < LevelOf(f, "prev_low", s))
    BY DEF Nested, Full, Opposite, Beyond
  <2> QED BY <1>2, <1>3, <1>5, FartherFull
<1> QED BY <1>4, <1>5 DEF f

\* What is stored of a day: the row of bars that have printed, with a profile, and
\* no bar after it by more than it may come late; and the levels of the day before.
RowInv ==
    row # NoRow =>
        /\ row.now \in Int /\ row.now <= slot
        /\ row.bars \in Seq(BarSet) /\ IsPrefix(row.bars, bars)
        /\ \A i \in DOMAIN bars : i > Len(row.bars) => bars[i].ts >= row.now - Delay
        /\ BuildProfile("TPO", row.bars, Len(Periods)) # NoProfile
PriorInv == prior # NoPrior => Levelled(prior)
SessionInv == SeriesInv /\ RowInv /\ PriorInv

\* The bars of a row are in their order too.
LEMMA RowIsSeries ==
    ASSUME SeriesInv, RowInv, row # NoRow
    PROVE  /\ IsSeries(row.bars) /\ Len(row.bars) <= Len(bars) /\ Len(row.bars) \in Nat
           /\ DOMAIN row.bars = 1..Len(row.bars)
           /\ \A i \in 1..Len(row.bars) : i \in DOMAIN bars /\ bars[i] = row.bars[i]
<1> DEFINE r == row.bars
<1>1. r \in Seq(BarSet) /\ bars \in Seq(BarSet) /\ IsPrefix(r, bars)
  BY DEF RowInv, SeriesInv
<1> HIDE DEF r
<1>2. /\ Len(r) <= Len(bars) /\ Len(r) \in Nat /\ DOMAIN r = 1..Len(r)
      /\ \A i \in 1..Len(r) : i \in DOMAIN bars /\ bars[i] = r[i]
  <2>1. Len(r) <= Len(bars) /\ r = SubSeq(bars, 1, Len(r))
    BY <1>1 DEF IsPrefix
  <2>2. \A i \in 1..Len(r) : r[i] = bars[i]
    BY <1>1, <2>1
  <2> QED BY <1>1, <2>1, <2>2
<1>3. \A i, j \in DOMAIN r : i < j => r[i].ts < r[j].ts
  BY <1>2 DEF SeriesInv
<1>4. IsSeries(r)
  BY <1>1, <1>3, SeriesOf
<1> QED BY <1>2, <1>4 DEF r

\* The beginning of a sequence is that of a longer one.
LEMMA PrefixAppends ==
    ASSUME NEW S, NEW s \in Seq(S), NEW x \in S, NEW r \in Seq(S), IsPrefix(r, s)
    PROVE  IsPrefix(r, Append(s, x)) /\ Len(r) <= Len(s)
<1>1. Len(r) <= Len(s) /\ r = SubSeq(s, 1, Len(r)) /\ Len(r) \in Nat /\ Len(s) \in Nat
  BY DEF IsPrefix
<1>2. Append(s, x) \in Seq(S) /\ Len(Append(s, x)) = Len(s) + 1
  OBVIOUS
<1>3. \A i \in 1..Len(r) : Append(s, x)[i] = r[i]
  BY <1>1
<1>4. SubSeq(Append(s, x), 1, Len(r)) \in Seq(S) /\ Len(SubSeq(Append(s, x), 1, Len(r))) = Len(r)
  BY <1>1, <1>2
<1>5. \A i \in 1..Len(r) : SubSeq(Append(s, x), 1, Len(r))[i] = r[i]
  BY <1>1, <1>2, <1>3
<1>6. r = SubSeq(Append(s, x), 1, Len(r))
  BY <1>1, <1>4, <1>5
<1> QED BY <1>1, <1>2, <1>6 DEF IsPrefix

\* A step keeps what a row is of the bars: bars only come after it.
LEMMA RowStep == SessionInv /\ [Next]_vars => RowInv'
<1> SUFFICES ASSUME SessionInv, [Next]_vars PROVE RowInv'
  OBVIOUS
<1>1. CASE BarPrints
  <2>1. PICK ts \in PrintSlots, b \in Prints[day] :
          /\ slot - Delay <= ts /\ ts <= slot
          /\ \A i \in DOMAIN bars : bars[i].ts < ts
          /\ bars' = Append(bars, [ts |-> ts, open |-> b.open, low |-> b.low, high |-> b.high,
                                   close |-> b.close, vol |-> b.vol])
          /\ UNCHANGED <<day, slot, row, prior>>
    BY <1>1 DEF BarPrints
  <2> DEFINE new == [ts |-> ts, open |-> b.open, low |-> b.low, high |-> b.high,
                     close |-> b.close, vol |-> b.vol]
  <2>2. new \in BarSet /\ new.ts = ts
    <3>1. b \in [open : Int, low : Int, high : Int, close : Int, vol : Nat] /\ b.low <= b.high
      <4>1. day \in Days /\ Prints[day] \in SUBSET [open : Int, low : Int, high : Int, close : Int, vol : Nat]
        BY EventAssumption DEF SessionInv, SeriesInv, Days
      <4> QED BY <4>1, EventAssumption
    <3> QED BY <3>1 DEF BarSet
  <2> HIDE DEF new
  <2>3. bars' = Append(bars, new) /\ bars \in Seq(BarSet) /\ row' = row /\ slot' = slot
    BY <2>1 DEF SessionInv, SeriesInv, new
  <2> SUFFICES ASSUME row # NoRow
               PROVE  /\ IsPrefix(row.bars, bars')
                      /\ \A i \in DOMAIN bars' : i > Len(row.bars) => bars'[i].ts >= row.now - Delay
    BY <2>3 DEF SessionInv, RowInv
  <2>4. /\ row.bars \in Seq(BarSet) /\ IsPrefix(row.bars, bars) /\ row.now \in Int /\ row.now <= slot
        /\ \A i \in DOMAIN bars : i > Len(row.bars) => bars[i].ts >= row.now - Delay
    BY DEF SessionInv, RowInv
  <2>5. IsPrefix(row.bars, bars')
    BY <2>2, <2>3, <2>4, PrefixAppends
  <2>6. \A i \in DOMAIN bars' : (i \in DOMAIN bars /\ bars'[i] = bars[i]) \/ bars'[i] = new
    BY <2>2, <2>3
  <2>7. new.ts >= row.now - Delay
    <3>1. slot \in Int /\ Delay \in Int /\ ts \in Int
      <4>1. \A x \in PrintSlots : x \in Int
        BY EventAssumption, ProfileAssumption
      <4> QED BY <4>1, EventAssumption, ProfileAssumption DEF SessionInv, SeriesInv
    <3> QED BY <2>1, <2>2, <2>4, <3>1
  <2> QED BY <2>4, <2>5, <2>6, <2>7
<1>2. CASE Tick
  <2>1. slot' = slot + 1 /\ bars' = bars /\ row' = row /\ slot \in Int
    BY <1>2, ProfileAssumption DEF Tick, SessionInv, SeriesInv
  <2>2. ASSUME row # NoRow PROVE row.now <= slot + 1
    BY <2>1, <2>2 DEF SessionInv, RowInv
  <2> QED BY <2>1, <2>2 DEF SessionInv, RowInv
<1>3. CASE Cycle
  <2>1. /\ row' = [bars |-> bars, now |-> slot] /\ bars' = bars /\ slot' = slot
        /\ Profiles(bars, TRUE) # <<>> /\ slot \in Int /\ bars \in Seq(BarSet) /\ Len(bars) \in Nat
    <3>1. row' = [bars |-> bars, now |-> slot] /\ bars' = bars /\ slot' = slot /\ Profiles(bars, TRUE) # <<>>
      BY <1>3 DEF Cycle
    <3>2. slot \in Int /\ bars \in Seq(BarSet)
      BY ProfileAssumption DEF SessionInv, SeriesInv
    <3>3. Len(bars) \in Nat
      BY <3>2
    <3> QED BY <3>1, <3>2, <3>3
  <2>2. BuildProfile("TPO", bars, Len(Periods)) # NoProfile
    BY <2>1 DEF Profiles, Kinds
  <2>3. IsPrefix(bars, bars) /\ \A i \in DOMAIN bars : ~(i > Len(bars))
    <3>1. bars = SubSeq(bars, 1, Len(bars))
      BY <2>1
    <3> QED BY <2>1, <3>1 DEF IsPrefix
  <2> QED BY <2>1, <2>2, <2>3 DEF RowInv
<1>4. CASE NextDay
  BY <1>4 DEF NextDay, RowInv
<1>5. CASE UNCHANGED vars
  BY <1>5 DEF vars, SessionInv, RowInv
<1> QED BY <1>1, <1>2, <1>3, <1>4, <1>5 DEF Next

\* A step keeps the levels of the prior profile in order: they are those of a profile.
LEMMA PriorStep == SessionInv /\ [Next]_vars => PriorInv'
<1> SUFFICES ASSUME SessionInv, [Next]_vars PROVE PriorInv'
  OBVIOUS
<1>1. CASE NextDay
  <2> DEFINE prof == BuildProfile("TPO", row.bars, Len(Periods))
             levels == [x \in {"poc", "vah", "val", "high", "low", "close"} |-> prof[x]]
  <2>1. prior' = prior \/ (row # NoRow /\ prior' = levels)
    BY <1>1 DEF NextDay
  <2>2. ASSUME row # NoRow PROVE Levelled(levels)
    <3>1. Levelled(prof)
      <4>1. prof # NoProfile
        BY <2>2 DEF SessionInv, RowInv
      <4>2. IsSeries(row.bars)
        BY <2>2, RowIsSeries DEF SessionInv
      <4> QED BY <4>1, <4>2, LevelsOf
    <3> HIDE DEF prof
    <3> QED BY <3>1 DEF Levelled
  <2> HIDE DEF levels
  <2> QED BY <2>1, <2>2 DEF SessionInv, PriorInv
<1>2. CASE UNCHANGED prior
  BY <1>2 DEF SessionInv, PriorInv
<1> QED BY <1>1, <1>2 DEF Next, BarPrints, Tick, Cycle, vars

\* The inductive invariant of the sessions: the stored row is a beginning of the
\* day's bars with a profile, later bars come after its clock, and the prior levels
\* (get_prior_session) are those of a profile.
THEOREM SessionsHold == Spec => []SessionInv
<1>1. Init => SessionInv
  BY SeriesInit DEF Init, SessionInv, RowInv, PriorInv
<1>2. SessionInv /\ [Next]_vars => SessionInv'
  BY SeriesStep, RowStep, PriorStep DEF SessionInv
<1> QED BY <1>1, <1>2, PTL DEF Spec

\* What closes an event leaves it as it is, or expires it.
LEMMA Closes ==
    ASSUME NEW f, NEW end, IsEvent(end)
    PROVE  \A x \in AtClose(f, end) : x = end \/ x.state = "EXPIRED"
<1>1. \A x \in AtClose(f, end) : x = end \/ \E at : x = Transition(end, "EXPIRED", at)
  BY DEF AtClose
<1>2. ASSUME NEW at PROVE Transition(end, "EXPIRED", at).state = "EXPIRED"
  <2>1. CASE end.hist # <<>> /\ Last(end.hist).state = "EXPIRED"
    <3>1. Transition(end, "EXPIRED", at) = end
      BY <2>1 DEF Transition
    <3> QED BY <2>1, <3>1 DEF IsEvent
  <2>2. CASE ~(end.hist # <<>> /\ Last(end.hist).state = "EXPIRED")
    <3>1. Transition(end, "EXPIRED", at)
            = [end EXCEPT !.state = "EXPIRED", !.hist = Append(end.hist, [state |-> "EXPIRED", at |-> at])]
      BY <2>2 DEF Transition
    <3>2. "state" \in DOMAIN end
      BY DEF IsEvent, EventSet
    <3> QED BY <3>1, <3>2
  <2> QED BY <2>1, <2>2
<1> QED BY <1>1, <1>2

\* The acceptances nest (_acceptance_event over prior_vah and prior_high, prior_val
\* and prior_low): one beyond the prior range is confirmed only after the one beyond
\* the prior value has been confirmed or has failed, and fails with it if it was
\* under way.
THEOREM AcceptancesHold == Spec => []AcceptancesNest
<1>1. SessionInv => AcceptancesNest
  <2> SUFFICES ASSUME SessionInv, prior # NoPrior
               PROVE  LET entries(id) == EntriesOf(id, Lifecycles(Facts(bars, slot, prior)))
                      IN  /\ NestWithin(entries("MP-016"), entries("MP-010"))
                          /\ prior.low <= prior.val => NestWithin(entries("MP-017"), entries("MP-011"))
    BY DEF AcceptancesNest
  <2> DEFINE f == Facts(bars, slot, prior)
             marks(E) == UNION {Marks(e) : e \in E}
  <2>1. IsSeries(bars) /\ Levelled(prior)
    BY SeriesOf DEF SessionInv, SeriesInv, PriorInv
  <2>2. /\ Nested(f, "prev_high", "prev_vah", "UP")
        /\ prior.low <= prior.val => Nested(f, "prev_low", "prev_val", "DOWN")
    BY <2>1, RangeNests
  <2>3. f.prior # NoPrior
    BY DEF Facts, FactsOf
  <2> HIDE DEF f
  <2> DEFINE E10 == AcceptanceEvent(f, "MP-010", "prev_vah", "UP", FALSE)
             E11 == AcceptanceEvent(f, "MP-011", "prev_val", "DOWN", FALSE)
             E16 == AcceptanceEvent(f, "MP-016", "prev_high", "UP", TRUE)
             E17 == AcceptanceEvent(f, "MP-017", "prev_low", "DOWN", TRUE)
  <2>4. \A id : EntriesOf(id, Lifecycles(f)) = marks({x \in Lifecycles(f) : x.id = id})
    BY DEF EntriesOf, Marks
  <2>5. /\ "MP-016" \in Ids /\ "MP-010" \in Ids /\ "MP-017" \in Ids /\ "MP-011" \in Ids
        /\ "UP" \in {"UP", "DOWN"} /\ "DOWN" \in {"UP", "DOWN"}
    BY DEF Ids
  <2>6. NestWithin(marks(E16), marks(E10))
    BY <2>2, <2>3, <2>5, EventsPair
  <2>7. prior.low <= prior.val => NestWithin(marks(E17), marks(E11))
    BY <2>2, <2>3, <2>5, EventsPair
  <2>8. /\ {x \in Lifecycles(f) : x.id = "MP-016"} = E16 /\ {x \in Lifecycles(f) : x.id = "MP-010"} = E10
        /\ {x \in Lifecycles(f) : x.id = "MP-017"} = E17 /\ {x \in Lifecycles(f) : x.id = "MP-011"} = E11
    BY EventsAre
  <2> HIDE DEF E10, E11, E16, E17, marks
  <2>9. /\ EntriesOf("MP-016", Lifecycles(f)) = marks(E16) /\ EntriesOf("MP-010", Lifecycles(f)) = marks(E10)
        /\ EntriesOf("MP-017", Lifecycles(f)) = marks(E17) /\ EntriesOf("MP-011", Lifecycles(f)) = marks(E11)
    BY <2>4, <2>8
  <2> QED BY <2>6, <2>7, <2>9 DEF f
<1> QED BY <1>1, SessionsHold, PTL

-----------------------------------------------------------------------------
(* The readings of the value *)

\* The larger and the smaller of two.
LEMMA Pairs ==
    ASSUME NEW a \in Int, NEW b \in Int
    PROVE  /\ Max({a, b}) \in Int /\ a <= Max({a, b}) /\ b <= Max({a, b}) /\ Max({a, b}) \in {a, b}
           /\ Min({a, b}) \in Int /\ Min({a, b}) <= a /\ Min({a, b}) <= b /\ Min({a, b}) \in {a, b}
<1>1. IsFiniteSet({a, b})
  <2>1. IsFiniteSet({a})
    BY FS_Singleton
  <2>2. IsFiniteSet({a} \cup {b})
    BY <2>1, FS_AddElement
  <2>3. {a, b} = {a} \cup {b}
    OBVIOUS
  <2> QED BY <2>2, <2>3
<1>2. {a, b} \in SUBSET Int /\ {a, b} # {} /\ a \in {a, b} /\ b \in {a, b}
  OBVIOUS
<1> DEFINE S == {a, b}
<1> HIDE DEF S
<1>3. Max(S) \in S /\ Min(S) \in S /\ \A x \in S : x <= Max(S) /\ Min(S) <= x
  BY <1>1, <1>2, Extremes DEF S
<1>4. \A x \in S : x \in Int
  BY <1>2 DEF S
<1> QED BY <1>2, <1>3, <1>4 DEF S

\* Two edges of bins are a bin apart, or the same.
LEMMA BinsApart ==
    ASSUME NEW a \in Int, NEW b \in Int, OnBin(a), OnBin(b), a < b
    PROVE  b - a >= Bin
<1>1. PICK x \in Int : a = x * Bin
  BY DEF OnBin
<1>2. PICK y \in Int : b = y * Bin
  BY DEF OnBin
<1>3. Bin \in Nat \ {0}
  BY ProfileAssumption
<1>4. x < y
  <2>1. y <= x => b <= a
    BY <1>1, <1>2, <1>3, Divides
  <2> QED BY <2>1
<1>5. (x + 1) * Bin <= b
  <2>1. x + 1 <= y
    BY <1>4
  <2> QED BY <1>2, <1>3, <2>1, Divides
<1>6. (x + 1) * Bin = a + Bin
  BY <1>1, <1>3
<1> QED BY <1>3, <1>5, <1>6

\* What the width of the prior value is, and what a shift of it is.
LEMMA WidthIs ==
    ASSUME NEW f, Levelled(f.prior)
    PROVE  LET w == PriorWidth(f)
           IN  /\ w \in Nat /\ w > 0 /\ ShiftPct * w \in Nat /\ ShiftPct * w <= 100 * w
               /\ -ShiftPct * w \in Int /\ -ShiftPct * w = -(ShiftPct * w)
               /\ \A d \in Int : (OnBin(f.prior.val + d) /\ f.prior.val + d > f.prior.vah => w <= d)
               /\ \A d \in Int : (OnBin(f.prior.vah - d) /\ f.prior.vah - d < f.prior.val => w <= d)
<1> DEFINE w == PriorWidth(f)
           hi == f.prior.vah
           lo == f.prior.val
<1>1. hi \in Int /\ lo \in Int /\ lo <= hi /\ OnBin(hi) /\ OnBin(lo)
  BY DEF Levelled
<1>2. w = IF hi > lo THEN hi - lo ELSE Bin
  BY DEF PriorWidth
<1>3. Bin \in Nat \ {0} /\ ShiftPct \in 0..100
  BY ProfileAssumption, EventAssumption
<1> HIDE DEF w, hi, lo
<1>4. w \in Nat /\ w > 0
  BY <1>1, <1>2, <1>3
<1>5. ShiftPct * w \in Nat /\ ShiftPct * w <= 100 * w
  <2>1. \A k \in 0..100 : k * w \in Nat /\ k * w <= 100 * w
    BY <1>4
  <2> QED BY <1>3, <2>1
<1>6. -ShiftPct * w \in Int /\ -ShiftPct * w = -(ShiftPct * w)
  BY <1>3, <1>4
<1>7. ASSUME NEW d \in Int, OnBin(lo + d), lo + d > hi PROVE w <= d
  <2>1. CASE hi > lo
    BY <1>1, <1>2, <1>7, <2>1
  <2>2. CASE ~(hi > lo)
    <3>1. lo + d - lo >= Bin
      BY <1>1, <1>7, <2>2, BinsApart
    <3> QED BY <1>1, <1>2, <1>3, <2>2, <3>1
  <2> QED BY <2>1, <2>2
<1>8. ASSUME NEW d \in Int, OnBin(hi - d), hi - d < lo PROVE w <= d
  <2>1. CASE hi > lo
    BY <1>1, <1>2, <1>8, <2>1
  <2>2. CASE ~(hi > lo)
    <3>1. hi - (hi - d) >= Bin
      BY <1>1, <1>8, <2>2, BinsApart
    <3> QED BY <1>1, <1>2, <1>3, <2>2, <3>1
  <2> QED BY <2>1, <2>2
<1> QED BY <1>4, <1>5, <1>6, <1>7, <1>8 DEF w, hi, lo

\* Values that do not touch do not balance.
LEMMA ApartUnbalanced ==
    ASSUME NEW f, Levelled(f.prior), Levelled(f.prof),
           f.prof.val > f.prior.vah \/ f.prof.vah < f.prior.val
    PROVE  ~Balanced(f)
<1> DEFINE hi == f.prior.vah
           lo == f.prior.val
           vah == f.prof.vah
           val == f.prof.val
           top == Min({vah, hi})
           bottom == Max({val, lo})
           narrow == Min({PriorWidth(f), Max({vah - val, Bin})})
<1>1. hi \in Int /\ lo \in Int /\ vah \in Int /\ val \in Int /\ lo <= hi /\ val <= vah
  BY DEF Levelled
<1>2. val > hi \/ vah < lo
  OBVIOUS
<1>3. Overlap(f) = Max({0, top - bottom})
  BY DEF Overlap
<1>4. Balanced(f) <=> 100 * Overlap(f) >= OverlapPct * narrow
  BY DEF Balanced
<1>5. narrow \in Nat /\ narrow > 0
  <2> DEFINE w == PriorWidth(f)
             d == vah - val
             m == Max({d, Bin})
  <2>1. w \in Nat /\ w > 0
    BY WidthIs
  <2>2. Bin \in Nat \ {0} /\ Bin \in Int /\ d \in Int
    BY <1>1, ProfileAssumption
  <2> HIDE DEF w, d
  <2>3. m \in Int /\ Bin <= m
    BY <2>2, Pairs
  <2>4. w \in Int
    BY <2>1
  <2> HIDE DEF m
  <2>5. Min({w, m}) \in {w, m}
    BY <2>3, <2>4, Pairs
  <2> QED BY <2>1, <2>2, <2>3, <2>5 DEF w, m, d
<1>6. OverlapPct \in Nat \ {0}
  BY EventAssumption
<1> HIDE DEF hi, lo, vah, val, narrow
<1>7. top \in Int /\ bottom \in Int /\ top <= vah /\ top <= hi /\ val <= bottom /\ lo <= bottom
  BY <1>1, Pairs
<1> HIDE DEF top, bottom
<1>8. top - bottom < 0 /\ top - bottom \in Int
  BY <1>1, <1>2, <1>7
<1>9. Overlap(f) = 0
  BY <1>3, <1>8, Pairs
<1> DEFINE x == OverlapPct * narrow
<1>10. x \in Nat /\ x > 0
  BY <1>5, <1>6
<1> HIDE DEF x
<1>11. ~(100 * 0 >= x)
  BY <1>10
<1> QED BY <1>4, <1>9, <1>11 DEF x

\* A value wholly above the prior one has migrated up.
LEMMA ValueAbove ==
    ASSUME NEW f, Levelled(f.prior), Levelled(f.prof), f.prof.val > f.prior.vah
    PROVE  Migration(f) \in {"UP", "UP_SKEW"} /\ PocMigration(f) # "DOWN"
<1> DEFINE w == PriorWidth(f)
           x == ShiftPct * w
           y == -ShiftPct * w
           a == f.prof.vah - f.prior.vah
           b == f.prof.val - f.prior.val
           c == f.prof.poc - f.prior.poc
<1>1. a \in Int /\ b \in Int /\ c \in Int /\ a > 0 /\ b > 0 /\ c > 0
  BY DEF Levelled
<1>2. w \in Nat /\ w > 0 /\ x \in Nat /\ x <= 100 * w /\ y = -x /\ y \in Int
  BY WidthIs
<1>3. w <= b
  <2>1. f.prior.val + b = f.prof.val /\ OnBin(f.prof.val)
    BY DEF Levelled
  <2> QED BY <1>1, <2>1, WidthIs
<1>4. ~Balanced(f)
  BY ApartUnbalanced
<1>5. /\ Migration(f) =
            CASE Balanced(f) -> "OVERLAP"
              [] ~Balanced(f) /\ 100 * a >= x /\ 100 * b >= x -> "UP"
              [] ~Balanced(f) /\ 100 * a <= y /\ 100 * b <= y -> "DOWN"
              [] OTHER -> IF 100 * a >= x \/ 100 * b >= x THEN "UP_SKEW"
                          ELSE IF 100 * a <= y \/ 100 * b <= y THEN "DOWN_SKEW" ELSE "UNCHANGED"
      /\ PocMigration(f) = IF 100 * c >= x THEN "UP" ELSE IF 100 * c <= y THEN "DOWN" ELSE "UNCHANGED"
  BY DEF Migration, PocMigration
<1> HIDE DEF w, x, y, a, b, c
<1> DEFINE upA == 100 * a >= x
           upB == 100 * b >= x
           downA == 100 * a <= y
           downC == 100 * c <= y
<1>6. upB /\ ~downA /\ ~downC
  BY <1>1, <1>2, <1>3
<1> DEFINE downB == 100 * b <= y
           upC == 100 * c >= x
<1> HIDE DEF upA, upB, downA, downB, downC, upC
<1>7. /\ Migration(f) =
            CASE Balanced(f) -> "OVERLAP"
              [] ~Balanced(f) /\ upA /\ upB -> "UP"
              [] ~Balanced(f) /\ downA /\ downB -> "DOWN"
              [] OTHER -> IF upA \/ upB THEN "UP_SKEW" ELSE IF downA \/ downB THEN "DOWN_SKEW" ELSE "UNCHANGED"
      /\ PocMigration(f) = IF upC THEN "UP" ELSE IF downC THEN "DOWN" ELSE "UNCHANGED"
  BY <1>5 DEF upA, upB, upC, downA, downB, downC
<1> QED BY <1>4, <1>6, <1>7

\* A value wholly below the prior one has migrated down.
LEMMA ValueBelow ==
    ASSUME NEW f, Levelled(f.prior), Levelled(f.prof), f.prof.vah < f.prior.val
    PROVE  Migration(f) \in {"DOWN", "DOWN_SKEW"} /\ PocMigration(f) # "UP"
<1> DEFINE w == PriorWidth(f)
           x == ShiftPct * w
           y == -ShiftPct * w
           a == f.prof.vah - f.prior.vah
           b == f.prof.val - f.prior.val
           c == f.prof.poc - f.prior.poc
<1>1. a \in Int /\ b \in Int /\ c \in Int /\ a < 0 /\ b < 0 /\ c < 0
  BY DEF Levelled
<1>2. w \in Nat /\ w > 0 /\ x \in Nat /\ x <= 100 * w /\ y = -x /\ y \in Int
  BY WidthIs
<1>3. w <= -a
  <2>1. f.prior.vah - (-a) = f.prof.vah /\ OnBin(f.prof.vah) /\ -a \in Int
    BY DEF Levelled
  <2> QED BY <1>1, <2>1, WidthIs
<1>4. ~Balanced(f)
  BY ApartUnbalanced
<1>5. /\ Migration(f) =
            CASE Balanced(f) -> "OVERLAP"
              [] ~Balanced(f) /\ 100 * a >= x /\ 100 * b >= x -> "UP"
              [] ~Balanced(f) /\ 100 * a <= y /\ 100 * b <= y -> "DOWN"
              [] OTHER -> IF 100 * a >= x \/ 100 * b >= x THEN "UP_SKEW"
                          ELSE IF 100 * a <= y \/ 100 * b <= y THEN "DOWN_SKEW" ELSE "UNCHANGED"
      /\ PocMigration(f) = IF 100 * c >= x THEN "UP" ELSE IF 100 * c <= y THEN "DOWN" ELSE "UNCHANGED"
  BY DEF Migration, PocMigration
<1> HIDE DEF w, x, y, a, b, c
<1> DEFINE upA == 100 * a >= x
           upB == 100 * b >= x
           upC == 100 * c >= x
           downA == 100 * a <= y
<1>6. ~upA /\ ~upB /\ ~upC /\ downA
  BY <1>1, <1>2, <1>3
<1> DEFINE downB == 100 * b <= y
           downC == 100 * c <= y
<1> HIDE DEF upA, upB, downA, downB, downC, upC
<1>7. /\ Migration(f) =
            CASE Balanced(f) -> "OVERLAP"
              [] ~Balanced(f) /\ upA /\ upB -> "UP"
              [] ~Balanced(f) /\ downA /\ downB -> "DOWN"
              [] OTHER -> IF upA \/ upB THEN "UP_SKEW" ELSE IF downA \/ downB THEN "DOWN_SKEW" ELSE "UNCHANGED"
      /\ PocMigration(f) = IF upC THEN "UP" ELSE IF downC THEN "DOWN" ELSE "UNCHANGED"
  BY <1>5 DEF upA, upB, upC, downA, downB, downC
<1> QED BY <1>4, <1>6, <1>7

\* Every bar of the initial balance counts in it once it is known.
LEMMA BalanceOf ==
    ASSUME NEW kind, NEW series, IsSeries(series), NEW n, BuildProfile(kind, series, n) # NoProfile,
           BuildProfile(kind, series, n).ibHigh # NoPrice
    PROVE  BuildProfile(kind, series, n).ibHigh \in Int /\ BuildProfile(kind, series, n).ibLow \in Int
<1> DEFINE f == Traded(series, n)
           m == Metric(kind, f, n)
           p == BuildProfile(kind, series, n)
           ib == Restrict(f, {i \in DOMAIN f : PeriodOf(f[i].ts, n) <= IbPeriods})
           ibDone == 1..IbPeriods \subseteq {PeriodOf(f[i].ts, n) : i \in DOMAIN f}
<1>1. PICK poc \in DOMAIN m, area \in SUBSET DOMAIN m :
          /\ IsSeries(f)
          /\ p = Stated(f, LastOf(series).close, n, m, poc, [val |-> Min(area), vah |-> Max(area)])
  BY ProfileIs
<1>2. /\ p.ibHigh = IF ibDone THEN Max(Highs(ib)) ELSE NoPrice
      /\ p.ibLow = IF ibDone THEN Min(Lows(ib)) ELSE NoPrice
  BY <1>1 DEF Stated
<1> HIDE DEF f, m, p
<1>3. ibDone
  BY <1>2 DEF p
<1>4. IbPeriods \in Nat \ {0}
  BY ProfileAssumption
<1>5. PICK i \in DOMAIN f : PeriodOf(f[i].ts, n) = 1
  <2>1. 1 \in 1..IbPeriods
    BY <1>4
  <2> QED BY <1>3, <2>1
<1> DEFINE first == {j \in DOMAIN f : PeriodOf(f[j].ts, n) <= IbPeriods}
<1>6. i \in first /\ first \in SUBSET DOMAIN f
  BY <1>4, <1>5
<1>7. IsSeries(ib) /\ DOMAIN ib = first
  BY <1>1, <1>6, Restricted
<1> HIDE DEF first, ib
<1>8. DOMAIN ib # {}
  BY <1>6, <1>7
<1>9. Max(Highs(ib)) \in Int /\ Min(Lows(ib)) \in Int
  BY <1>7, <1>8, Ranges
<1> QED BY <1>2, <1>3, <1>9 DEF p

\* A profile names finitely many bins, so its parts can be counted.
LEMMA PartsOf ==
    ASSUME NEW kind, NEW series, IsSeries(series), NEW n, BuildProfile(kind, series, n) # NoProfile
    PROVE  Structure(BuildProfile(kind, series, n)).parts \in Nat
<1> DEFINE f == Traded(series, n)
           m == Metric(kind, f, n)
           p == BuildProfile(kind, series, n)
<1>1. PICK poc \in DOMAIN m, area \in SUBSET DOMAIN m :
          /\ IsMetric(m)
          /\ p = Stated(f, LastOf(series).close, n, m, poc, [val |-> Min(area), vah |-> Max(area)])
  BY ProfileIs
<1>2. p.metric = m
  BY <1>1 DEF Stated
<1> HIDE DEF m, p
<1>3. Structure(p).parts = 1 + Cardinality(Valleys(m))
  BY <1>2 DEF Structure
<1>4. IsFiniteSet(Peaks(m) \X Peaks(m))
  <2>1. Peaks(m) \subseteq DOMAIN m
    BY DEF Peaks
  <2>2. IsFiniteSet(Peaks(m))
    BY <1>1, <2>1, FS_Subset DEF IsMetric
  <2> QED BY <2>2, FS_Product
<1>5. Valleys(m) \subseteq Peaks(m) \X Peaks(m)
  BY DEF Valleys
<1>6. Cardinality(Valleys(m)) \in Nat
  BY <1>4, <1>5, FS_Subset, FS_CardinalityType
<1> QED BY <1>3, <1>6 DEF p

\* The brackets of the facts.
Bracketed(f) ==
    /\ IsFiniteSet(DOMAIN f.snaps) /\ DOMAIN f.snaps \in SUBSET (1..Len(Periods)) /\ DOMAIN f.snaps # {}
    /\ \A p \in DOMAIN f.snaps :
           /\ Levelled(f.snaps[p].dev) /\ Structure(f.snaps[p].dev).parts \in Nat
           /\ f.snaps[p].dev.ibHigh # NoPrice => f.snaps[p].dev.ibHigh \in Int /\ f.snaps[p].dev.ibLow \in Int

\* The facts of a session with a bracket have levels at every bracket.
LEMMA BracketsAre ==
    ASSUME NEW series, IsSeries(series), NEW now, NEW pr, DOMAIN Snapshots(series, now, pr) # {}
    PROVE  Bracketed(Facts(series, now, pr))
<1> DEFINE f == Facts(series, now, pr)
           S == Snapshots(series, now, pr)
<1>1. f.snaps = S
  BY DEF Facts, FactsOf
<1>2. \A p \in DOMAIN S : p \in DOMAIN Periods
  BY SnapshotsAre
<1>3. IsFiniteSet(DOMAIN S) /\ DOMAIN S \in SUBSET (1..Len(Periods))
  <2>1. IsFiniteSet(1..Len(Periods)) /\ DOMAIN Periods = 1..Len(Periods)
    BY PeriodsAre, FS_Interval
  <2>2. DOMAIN S \in SUBSET (1..Len(Periods))
    BY <1>2, <2>1
  <2> QED BY <2>1, <2>2, FS_Subset
<1>4. ASSUME NEW p \in DOMAIN S
      PROVE  /\ Levelled(S[p].dev) /\ Structure(S[p].dev).parts \in Nat
             /\ S[p].dev.ibHigh # NoPrice => S[p].dev.ibHigh \in Int /\ S[p].dev.ibLow \in Int
  <2> DEFINE sliced == Slice(series, p)
             dev == Developing(sliced, p)
  <2>1. S[p] = Snapshot(sliced, p, pr, dev) /\ dev # NoProfile /\ SnapshotOK(S[p], pr)
    BY SnapshotsAre
  <2>2. IsSeries(sliced)
    BY SliceIs
  <2>3. S[p].dev = dev
    <3> HIDE DEF dev, sliced
    <3> QED BY <2>1 DEF Snapshot
  <2> HIDE DEF S, sliced
  <2>4. dev = BuildProfile("TPO", sliced, p)
    BY <2>1 DEF Developing
  <2>5. /\ Structure(dev).parts \in Nat
        /\ dev.ibHigh # NoPrice => dev.ibHigh \in Int /\ dev.ibLow \in Int
    BY <2>1, <2>2, <2>4, PartsOf, BalanceOf
  <2> HIDE DEF dev
  <2> QED BY <2>1, <2>3, <2>5 DEF SnapshotOK
<1> HIDE DEF f, S
<1>5. Bracketed(f)
  BY <1>1, <1>3, <1>4 DEF Bracketed, S
<1> QED BY <1>5 DEF f

\* So at the last of them.
LEMMA LastBracket ==
    ASSUME NEW f, Bracketed(f)
    PROVE  /\ Max(DOMAIN f.snaps) \in DOMAIN f.snaps /\ Levelled(LastOf(f.snaps).dev)
           /\ Structure(LastOf(f.snaps).dev).parts \in Nat
           /\ Max(DOMAIN f.snaps) \in 1..Len(Periods)
<1>1. DOMAIN f.snaps \in SUBSET Int
  BY DEF Bracketed
<1>2. Max(DOMAIN f.snaps) \in DOMAIN f.snaps
  BY <1>1, Extremes DEF Bracketed
<1> QED BY <1>2 DEF Bracketed, LastOf

\* An initial balance is not left by much on one side, and on the other.
LEMMA SidesExclude ==
    ASSUME NEW f, Bracketed(f), IbSnaps(f) # {}
    PROVE  ~(OneSided(f, "UP") /\ OneSided(f, "DOWN"))
<1> DEFINE at == Min(IbSnaps(f))
           last == LastOf(f.snaps).dev
           r == IbRange(f)
           x == Extension(f, "UP")
<1>1. IsFiniteSet(IbSnaps(f)) /\ IbSnaps(f) \in SUBSET DOMAIN f.snaps
  <2>1. IbSnaps(f) \in SUBSET DOMAIN f.snaps
    BY DEF IbSnaps
  <2> QED BY <2>1, FS_Subset DEF Bracketed
<1>2. at \in IbSnaps(f)
  <2>1. IbSnaps(f) \in SUBSET Int
    BY <1>1 DEF Bracketed
  <2> QED BY <1>1, <2>1, Extremes
<1>3. IbOf(f).ibHigh \in Int /\ IbOf(f).ibLow \in Int
  BY <1>2 DEF IbOf, IbSnaps, Bracketed
<1>4. r \in Nat
  <2> DEFINE d == IbOf(f).ibHigh - IbOf(f).ibLow
  <2>1. d \in Int /\ Bin \in Int /\ Bin \in Nat
    BY <1>3, ProfileAssumption
  <2>2. r = Max({d, Bin})
    BY DEF IbRange
  <2> HIDE DEF d, r
  <2> QED BY <2>1, <2>2, Pairs
<1>5. x \in Int
  <2>1. Levelled(last) /\ (last.ibHigh # NoPrice => last.ibHigh \in Int)
    BY LastBracket DEF Bracketed, LastOf
  <2> HIDE DEF last
  <2>2. x = IF last.ibHigh = NoPrice THEN 0 ELSE Max({0, last.high - last.ibHigh})
    BY DEF Extension, last
  <2>3. ASSUME last.ibHigh # NoPrice PROVE Max({0, last.high - last.ibHigh}) \in Int
    <3> DEFINE d == last.high - last.ibHigh
    <3>1. d \in Int
      BY <2>1, <2>3 DEF Levelled
    <3> HIDE DEF d
    <3>2. Max({0, d}) \in Int
      BY <3>1, Pairs
    <3> QED BY <3>2 DEF d
  <2> HIDE DEF x
  <2> QED BY <2>2, <2>3
<1>6. /\ OneSided(f, "UP") => 100 * x >= OneSidedPct * r
      /\ OneSided(f, "DOWN") => 100 * x < DeadPct * r
  BY DEF OneSided, Opposite
<1>7. DeadPct * r <= OneSidedPct * r /\ DeadPct * r \in Int /\ OneSidedPct * r \in Int
  <2>1. DeadPct \in Nat /\ OneSidedPct \in Nat /\ DeadPct <= OneSidedPct
    BY EventAssumption
  <2> HIDE DEF r
  <2>2. r = 0 \/ r \in Nat \ {0}
    BY <1>4
  <2> QED BY <2>1, <2>2
<1> DEFINE one == OneSidedPct * r
           dead == DeadPct * r
<1> HIDE DEF r, x, one, dead
<1>8. one \in Int /\ dead \in Int /\ dead <= one
  BY <1>7 DEF one, dead
<1>9. ~(100 * x >= one /\ 100 * x < dead)
  BY <1>5, <1>8
<1> QED BY <1>6, <1>9 DEF one, dead

\* A value outside at the last bracket is an event.
LEMMA OutsideSeen ==
    ASSUME NEW f, Bracketed(f), f.prior # NoPrior, ~f.complete, OutsideAt(LastOf(f.snaps), f.prior)
    PROVE  StatesOf("MP-015", Lifecycles(f)) # {}
<1> DEFINE n == Len(Periods)
           end == OutRun(f, n)
           at == Max(DOMAIN f.snaps)
<1>1. at \in DOMAIN f.snaps /\ at \in 1..n /\ OutsideAt(f.snaps[at], f.prior)
  BY LastBracket DEF LastOf
<1>2. OutHolds(f, n)
  BY OutRuns, PeriodsAre
<1>3. end.state # "NOT_TRIGGERED"
  BY <1>1, <1>2 DEF OutHolds
<1>4. OutsideEvent(f) = IF f.prior = NoPrior THEN {}
        ELSE CASE end.state = "NOT_TRIGGERED" -> {}
               [] end.state \in {"TRIGGERED", "DEVELOPING"} /\ f.complete /\ f.final # NoProfile ->
                    {Transition(end, IF IF end.dir = "UP" THEN f.final.val > f.prior.vah ELSE f.final.vah < f.prior.val
                                     THEN "CONFIRMED" ELSE "EXPIRED", at)}
               [] OTHER -> {end}
  BY DEF OutsideEvent, Over, OutRun, OutStep
<1> HIDE DEF end
<1>5. OutsideEvent(f) = {end}
  BY <1>3, <1>4
<1>6. StatesOf("MP-015", Lifecycles(f)) = {e.state : e \in OutsideEvent(f)}
  BY StatesAre
<1> QED BY <1>5, <1>6

\* An acceptance in tension is one the outcome knows of.
LEMMA TensionKnown == ASSUME NEW f, NEW dir \in Tension(f) PROVE Outcome(f, dir) # "NONE"
<1> DEFINE id == IF dir = "UP" THEN "MP-010" ELSE "MP-011"
           L == Lifecycles(f)
           states == StatesOf(id, L)
<1>1. PICK e \in L : e.state \in {"DEVELOPING", "CONFIRMED"} /\ e.id = id
  BY DEF Tension
<1> HIDE DEF id, L
<1>2. e.state \in states
  BY <1>1 DEF StatesOf
<1>3. Outcome(f, dir) = OutcomeOf(states)
  BY DEF Outcome, id, L
<1> HIDE DEF states
<1> QED BY <1>1, <1>2, <1>3 DEF OutcomeOf

\* The day type, the extensions of the initial balance and the silhouette.
LEMMA TypesAgree ==
    ASSUME NEW f, Bracketed(f), f.structure.parts \in Nat
    PROVE  /\ DayType(f) = "TREND_UP" => Sidedness(f) = "ONE_SIDED_UP"
           /\ DayType(f) = "TREND_DOWN" => Sidedness(f) = "ONE_SIDED_DOWN"
           /\ DayType(f) = "DOUBLE_DISTRIBUTION" => Silhouette(f) = "BIMODAL"
<1> DEFINE up == Trend(f, "UP")
           down == Trend(f, "DOWN")
           two == f.structure.parts >= 2
           oneUp == OneSided(f, "UP")
           oneDown == OneSided(f, "DOWN")
<1>1. /\ up => oneUp
      /\ down => oneDown /\ IbSnaps(f) # {}
  BY DEF Trend
<1>2. IbSnaps(f) # {} => ~(oneUp /\ oneDown)
  BY SidesExclude
<1>3. /\ DayType(f) = "TREND_UP" => up
      /\ DayType(f) = "TREND_DOWN" => down
      /\ DayType(f) = "DOUBLE_DISTRIBUTION" => two
  <2> HIDE DEF up, down, two
  <2>1. ~up => up # TRUE
    OBVIOUS
  <2>2. PICK neutral, edge, some, most :
          DayType(f) = CASE up -> "TREND_UP"
                         [] ~up /\ down -> "TREND_DOWN"
                         [] OTHER -> IF two THEN "DOUBLE_DISTRIBUTION"
                                     ELSE IF neutral THEN IF edge THEN "NEUTRAL_EXTREME" ELSE "NEUTRAL"
                                     ELSE IF some THEN "NORMAL_VARIATION"
                                     ELSE IF most THEN "NORMAL" ELSE "UNDETERMINED"
    BY Zenon DEF DayType, up, down, two
  <2> QED BY <2>2
<1>4. /\ oneUp => Sidedness(f) = "ONE_SIDED_UP"
      /\ ~oneUp /\ oneDown => Sidedness(f) = "ONE_SIDED_DOWN"
  BY DEF Sidedness
<1>5. two => Silhouette(f) = "BIMODAL"
  <2> DEFINE less == f.structure.parts < 2
  <2>1. PICK other : Silhouette(f) = CASE two -> "BIMODAL" [] less /\ f.structure.thin -> "THIN_I" [] OTHER -> other
    BY Zenon DEF Silhouette, two
  <2>2. two => ~less
    OBVIOUS
  <2> HIDE DEF two, less
  <2> QED BY <2>1, <2>2
<1> HIDE DEF up, down, two, oneUp, oneDown
<1> QED BY <1>1, <1>2, <1>3, <1>4, <1>5

\* The profile shown is the final one, or that of the last bracket.
LEMMA ShownIs ==
    ASSUME NEW series, IsSeries(series), NEW now, NEW pr, DOMAIN Snapshots(series, now, pr) # {},
           BuildProfile("TPO", series, Len(Periods)) # NoProfile
    PROVE  LET f == Facts(series, now, pr)
           IN  /\ f.prior = pr /\ Levelled(f.prof) /\ f.structure.parts \in Nat
               /\ ~f.complete => f.prof = LastOf(f.snaps).dev
<1> DEFINE f == Facts(series, now, pr)
           S == Snapshots(series, now, pr)
           built == BuildProfile("TPO", series, Len(Periods))
           complete == now >= SessionLen
           final == IF complete THEN built ELSE NoProfile
           shown == IF S # <<>> /\ ~complete THEN LastOf(S).dev ELSE final
<1>1. /\ f.prior = pr /\ f.snaps = S /\ f.complete = complete
      /\ f.prof = IF final # NoProfile THEN final ELSE shown
      /\ f.structure = IF shown = NoProfile THEN NoProfile ELSE Structure(shown)
  BY DEF Facts, FactsOf
<1>2. Levelled(built) /\ Structure(built).parts \in Nat
  BY LevelsOf, PartsOf
<1>3. Bracketed(f)
  BY BracketsAre
<1> DEFINE last == LastOf(S).dev
<1>4. Levelled(last) /\ Structure(last).parts \in Nat /\ last # NoProfile
  <2>1. LastOf(S) = S[Max(DOMAIN S)] /\ Max(DOMAIN S) \in DOMAIN S
    <3> HIDE DEF f
    <3> QED BY <1>1, <1>3, LastBracket DEF LastOf
  <2>2. SnapshotOK(S[Max(DOMAIN S)], pr)
    BY <2>1, SnapshotsAre
  <2> HIDE DEF f, S
  <2> QED BY <1>1, <1>3, <2>1, <2>2, LastBracket DEF SnapshotOK
<1>5. S # <<>>
  <2> HIDE DEF S
  <2>1. DOMAIN S # {}
    BY DEF S
  <2> QED BY <2>1
<1>6. built # NoProfile
  OBVIOUS
<1> HIDE DEF f, S, built, complete, last
<1>7. ASSUME complete PROVE Levelled(f.prof) /\ f.complete /\ f.structure.parts \in Nat
  BY <1>1, <1>2, <1>6, <1>7
<1>8. ASSUME ~complete PROVE Levelled(f.prof) /\ f.prof = LastOf(f.snaps).dev /\ f.structure.parts \in Nat
  <2>1. f.prof = last /\ f.structure = Structure(last) /\ last = LastOf(f.snaps).dev
    BY <1>1, <1>4, <1>5, <1>8 DEF last
  <2> QED BY <1>4, <2>1
<1>9. Levelled(f.prof) /\ f.structure.parts \in Nat /\ (~f.complete => f.prof = LastOf(f.snaps).dev)
  BY <1>7, <1>8
<1> QED BY <1>1, <1>9 DEF f

\* The readings of a session (_value_migration_event, _poc_events, _tension_events,
\* _narrative_events, classify_day_type, _silhouette), each computed on its
\* own from the facts, do not contradict each other.
THEOREM ReadingsHold == Spec => []ReadingsAgree
<1>1. SessionInv => ReadingsAgree
  <2> SUFFICES ASSUME SessionInv, Live PROVE
        \A f \in {Facts(bars, slot, prior)} :
        /\ prior # NoPrior /\ f.prof # NoProfile =>
             /\ Topology(f) = "FULLY_ABOVE" => Migration(f) \in {"UP", "UP_SKEW"} /\ PocMigration(f) # "DOWN"
             /\ Topology(f) = "FULLY_BELOW" => Migration(f) \in {"DOWN", "DOWN_SKEW"} /\ PocMigration(f) # "UP"
             /\ ~f.complete /\ Topology(f) \in {"FULLY_ABOVE", "FULLY_BELOW"} => StatesOf("MP-015", Lifecycles(f)) # {}
             /\ \A dir \in Tension(f) : Outcome(f, dir) # "NONE"
             /\ Opening(bars, prior) = "ABOVE_RANGE" => bars[1].open > prior.vah
        /\ DayType(f) = "TREND_UP" => Sidedness(f) = "ONE_SIDED_UP"
        /\ DayType(f) = "TREND_DOWN" => Sidedness(f) = "ONE_SIDED_DOWN"
        /\ DayType(f) = "DOUBLE_DISTRIBUTION" => Silhouette(f) = "BIMODAL"
    BY DEF ReadingsAgree
  <2> DEFINE f == Facts(bars, slot, prior)
  <2>1. IsSeries(bars) /\ BuildProfile("TPO", bars, Len(Periods)) # NoProfile
    BY SeriesOf DEF SessionInv, SeriesInv, RowInv, Live, Fresh
  <2>2. DOMAIN Snapshots(bars, slot, prior) # {}
    BY DEF Live
  <2>3. Bracketed(f)
    BY <2>1, <2>2, BracketsAre
  <2>4. f.prior = prior /\ Levelled(f.prof) /\ f.structure.parts \in Nat /\ (~f.complete => f.prof = LastOf(f.snaps).dev)
    BY <2>1, <2>2, ShownIs
  <2>5. prior # NoPrior => Levelled(prior)
    BY DEF SessionInv, PriorInv
  <2> HIDE DEF f
  <2>6. /\ Topology(f) = "FULLY_ABOVE" => f.prof.val > f.prior.vah
        /\ Topology(f) = "FULLY_BELOW" => f.prof.vah < f.prior.val
    BY DEF Topology
  <2>7. ASSUME prior # NoPrior, Topology(f) = "FULLY_ABOVE"
        PROVE  Migration(f) \in {"UP", "UP_SKEW"} /\ PocMigration(f) # "DOWN"
    BY <2>4, <2>5, <2>6, <2>7, ValueAbove
  <2>8. ASSUME prior # NoPrior, Topology(f) = "FULLY_BELOW"
        PROVE  Migration(f) \in {"DOWN", "DOWN_SKEW"} /\ PocMigration(f) # "UP"
    BY <2>4, <2>5, <2>6, <2>8, ValueBelow
  <2>9. ASSUME prior # NoPrior, ~f.complete, Topology(f) \in {"FULLY_ABOVE", "FULLY_BELOW"}
        PROVE  StatesOf("MP-015", Lifecycles(f)) # {}
    <3>1. OutsideAt(LastOf(f.snaps), f.prior)
      BY <2>4, <2>6, <2>9 DEF OutsideAt
    <3> QED BY <2>3, <2>4, <2>9, <3>1, OutsideSeen
  <2>10. \A dir \in Tension(f) : Outcome(f, dir) # "NONE"
    BY TensionKnown
  <2>11. ASSUME prior # NoPrior, Opening(bars, prior) = "ABOVE_RANGE"
         PROVE  bars[1].open > prior.vah
    <3>1. bars[1].open > prior.high
      BY <2>11 DEF Opening
    <3>2. bars[1].open \in Int
      <4>1. DOMAIN bars # {}
        <5>1. ~(DOMAIN Traded(bars, Len(Periods)) = {})
          BY <2>1, ProfileIs
        <5>2. DOMAIN bars = {} => DOMAIN Traded(bars, Len(Periods)) = {}
          BY DEF Traded, Restrict
        <5> QED BY <5>1, <5>2
      <4>2. bars \in Seq(BarSet)
        BY DEF SessionInv, SeriesInv
      <4>3. bars[1] \in BarSet
        BY <4>1, <4>2
      <4> QED BY <4>3 DEF BarSet
    <3> QED BY <2>5, <2>11, <3>1, <3>2 DEF Levelled
  <2>12. /\ DayType(f) = "TREND_UP" => Sidedness(f) = "ONE_SIDED_UP"
         /\ DayType(f) = "TREND_DOWN" => Sidedness(f) = "ONE_SIDED_DOWN"
         /\ DayType(f) = "DOUBLE_DISTRIBUTION" => Silhouette(f) = "BIMODAL"
    BY <2>3, <2>4, TypesAgree
  <2> QED BY <2>7, <2>8, <2>9, <2>10, <2>11, <2>12 DEF f
<1> QED BY <1>1, SessionsHold, PTL

-----------------------------------------------------------------------------
(* Nothing is repainted *)

\* The facts of a session cut off after k brackets.
Truncated(f1, f2, k) ==
    /\ f1.prior = f2.prior /\ k \in Nat
    /\ DOMAIN f1.snaps \in SUBSET Nat /\ DOMAIN f2.snaps \in SUBSET Nat
    /\ IsFiniteSet(DOMAIN f1.snaps) /\ IsFiniteSet(DOMAIN f2.snaps)
    /\ \A p \in Nat : p \in DOMAIN f1.snaps <=> (p \in DOMAIN f2.snaps /\ p <= k)
    /\ \A p \in DOMAIN f1.snaps : f1.snaps[p] = f2.snaps[p]

\* After every bracket: the history of the one machine is the beginning of that of
\* the other, and up to the cut they are one.
ContinueHolds(x, k) ==
    LET e1 == AccRun(x[1], x[3], k)
        e2 == AccRun(x[2], x[3], k)
    IN  (k <= x[4] => e1 = e2) /\ IsPrefix(e1.hist, e2.hist)
OutContinueHolds(x, k) ==
    LET e1 == OutRun(x[1], k)
        e2 == OutRun(x[2], k)
    IN  (k <= x[3] => e1 = e2) /\ IsPrefix(e1.hist, e2.hist)

LongerRun == INSTANCE FoldFacts WITH Step <- AccStep, Holds <- ContinueHolds
LongerOutRun == INSTANCE FoldFacts WITH Step <- OutStep, Holds <- OutContinueHolds

\* A sequence is a beginning of itself.
LEMMA SelfPrefix == ASSUME NEW S, NEW s \in Seq(S) PROVE IsPrefix(s, s)
<1>1. s = SubSeq(s, 1, Len(s)) /\ Len(s) <= Len(s)
  OBVIOUS
<1> QED BY <1>1 DEF IsPrefix

\* The history of an event is one.
LEMMA HistoryOf == ASSUME NEW e, IsEvent(e) PROVE e.hist \in Histories /\ IsPrefix(e.hist, e.hist)
<1>1. e.hist \in Histories
  BY DEF IsEvent, EventSet
<1> QED BY <1>1, SelfPrefix DEF Histories

\* So of two acceptances over facts of which the one is cut off.
LEMMA RunsContinue ==
    ASSUME NEW f1, NEW f2, NEW cut, Truncated(f1, f2, cut),
           NEW id \in Ids, NEW name, NEW dir \in {"UP", "DOWN"}, NEW r
    PROVE  \A k \in Nat : IsPrefix(AccRun(<<f1, name, dir, r>>, id, k).hist, AccRun(<<f2, name, dir, r>>, id, k).hist)
<1> DEFINE c1 == <<f1, name, dir, r>>
           c2 == <<f2, name, dir, r>>
           x == <<c1, c2, id, cut>>
<1>0. c1[3] = dir /\ c2[3] = dir /\ c1[1] = f1 /\ c2[1] = f2 /\ c1[2] = name /\ c2[2] = name /\ c1[4] = r /\ c2[4] = r
  OBVIOUS
<1>1. \A k \in Nat : IsAcceptance(AccRun(c1, id, k)) /\ IsAcceptance(AccRun(c2, id, k))
  <2> HIDE DEF c1, c2
  <2> QED BY <1>0, RunIs
<1>2. /\ AccRun(c1, id, 0) = AccRun(c2, id, 0)
      /\ \A k \in Nat : /\ AccRun(c1, id, k + 1) = AccStep(c1, AccRun(c1, id, k), k + 1)
                        /\ AccRun(c2, id, k + 1) = AccStep(c2, AccRun(c2, id, k), k + 1)
  <2>1. c1[3] = c2[3]
    BY <1>0
  <2> HIDE DEF c1, c2
  <2> QED BY <2>1, RunFolds
<1>3. ASSUME NEW e, NEW p \in Nat, p <= cut PROVE AccStep(c1, e, p) = AccStep(c2, e, p)
  <2>1. p \in DOMAIN f1.snaps <=> p \in DOMAIN f2.snaps
    BY <1>3 DEF Truncated
  <2>2. p \in DOMAIN f1.snaps => f1.snaps[p] = f2.snaps[p]
    BY DEF Truncated
  <2>3. ASSUME NEW s PROVE LevelOf(f1, name, s) = LevelOf(f2, name, s)
    BY DEF Truncated, LevelOf
  <2> DEFINE s1 == f1.snaps[p]
             s2 == f2.snaps[p]
  <2>4. AccStep(c1, e, p) = IF p \in DOMAIN f1.snaps
                            THEN IF name \in DOMAIN s1.rel
                                 THEN AcceptanceStep(e, p, s1, name, dir, LevelOf(f1, name, s1), r) ELSE e
                            ELSE e
    BY <1>0 DEF AccStep
  <2>5. AccStep(c2, e, p) = IF p \in DOMAIN f2.snaps
                            THEN IF name \in DOMAIN s2.rel
                                 THEN AcceptanceStep(e, p, s2, name, dir, LevelOf(f2, name, s2), r) ELSE e
                            ELSE e
    BY <1>0 DEF AccStep
  <2> HIDE DEF c1, c2, s1, s2
  <2>6. CASE p \in DOMAIN f1.snaps
    <3>1. s1 = s2
      BY <2>2, <2>6 DEF s1, s2
    <3> QED BY <2>1, <2>3, <2>4, <2>5, <2>6, <3>1
  <2>7. CASE p \notin DOMAIN f1.snaps
    BY <2>1, <2>4, <2>5, <2>7
  <2> QED BY <2>6, <2>7
<1>4. ASSUME NEW e, NEW p \in Nat, ~(p <= cut) PROVE AccStep(c1, e, p) = e
  <2>1. p \notin DOMAIN f1.snaps
    BY <1>4 DEF Truncated
  <2> QED BY <1>0, <2>1 DEF AccStep
<1>5. x[1] = c1 /\ x[2] = c2 /\ x[3] = id /\ x[4] = cut
  OBVIOUS
<1>6. cut \in Nat
  BY DEF Truncated
<1> HIDE DEF c1, c2, x
<1>7. ContinueHolds(x, 0)
  <2>1. IsAcceptance(AccRun(c1, id, 0))
    BY <1>1
  <2>2. IsPrefix(AccRun(c1, id, 0).hist, AccRun(c1, id, 0).hist)
    BY <2>1, HistoryOf DEF IsAcceptance
  <2> QED BY <1>2, <1>5, <2>2 DEF ContinueHolds
<1>8. ASSUME NEW k \in Nat, ContinueHolds(x, k) PROVE ContinueHolds(x, k + 1)
  <2> DEFINE e1 == AccRun(c1, id, k)
             e2 == AccRun(c2, id, k)
             n1 == AccRun(c1, id, k + 1)
             n2 == AccRun(c2, id, k + 1)
  <2>1. /\ (k <= cut => e1 = e2) /\ IsPrefix(e1.hist, e2.hist)
        /\ IsAcceptance(e1) /\ IsAcceptance(e2) /\ IsAcceptance(n1) /\ IsAcceptance(n2)
        /\ k + 1 \in Nat /\ k + 1 \in Int
    BY <1>1, <1>5, <1>8 DEF ContinueHolds
  <2>2. n1 = AccStep(c1, e1, k + 1) /\ n2 = AccStep(c2, e2, k + 1)
    BY <1>2
  <2> HIDE DEF e1, e2, n1, n2
  <2>3. CASE k + 1 <= cut
    <3>1. n1 = n2
      BY <1>3, <1>6, <2>1, <2>2, <2>3
    <3>2. IsPrefix(n1.hist, n1.hist)
      BY <2>1, HistoryOf DEF IsAcceptance
    <3> QED BY <1>5, <3>1, <3>2 DEF ContinueHolds, n1, n2
  <2>4. CASE ~(k + 1 <= cut)
    <3>1. n1 = e1
      BY <1>4, <2>1, <2>2, <2>4
    <3>2. IsPrefix(e2.hist, n2.hist)
      BY <1>0, <2>1, <2>2, RunSteps
    <3>3. e1.hist \in Histories /\ e2.hist \in Histories /\ n2.hist \in Histories
      BY <2>1, HistoryOf DEF IsAcceptance
    <3>4. IsPrefix(n1.hist, n2.hist)
      BY <2>1, <3>1, <3>2, <3>3, Chains DEF Histories
    <3> QED BY <1>5, <2>4, <3>4 DEF ContinueHolds, n1, n2
  <2> QED BY <2>3, <2>4
<1>9. \A k \in Nat : ContinueHolds(x, k) => ContinueHolds(x, k + 1)
  BY <1>8
<1>10. \A k \in Nat : ContinueHolds(x, k)
  BY <1>7, <1>9, LongerRun!Induction, Zenon
<1> QED BY <1>5, <1>10 DEF ContinueHolds, c1, c2

\* And of two machines of the value outside.
LEMMA OutRunsContinue ==
    ASSUME NEW f1, NEW f2, NEW cut, Truncated(f1, f2, cut)
    PROVE  \A k \in Nat : IsPrefix(OutRun(f1, k).hist, OutRun(f2, k).hist)
<1> DEFINE x == <<f1, f2, cut>>
<1>1. \A k \in Nat : IsOutside(OutRun(f1, k)) /\ IsOutside(OutRun(f2, k))
  BY OutRuns DEF OutHolds
<1>2. /\ OutRun(f1, 0) = OutRun(f2, 0)
      /\ \A k \in Nat : /\ OutRun(f1, k + 1) = OutStep(f1, OutRun(f1, k), k + 1)
                        /\ OutRun(f2, k + 1) = OutStep(f2, OutRun(f2, k), k + 1)
  BY OutFolds
<1>3. ASSUME NEW e, NEW p \in Nat, p <= cut PROVE OutStep(f1, e, p) = OutStep(f2, e, p)
  <2>1. p \in DOMAIN f1.snaps <=> p \in DOMAIN f2.snaps
    BY <1>3 DEF Truncated
  <2>2. p \in DOMAIN f1.snaps => f1.snaps[p] = f2.snaps[p]
    BY DEF Truncated
  <2>3. f1.prior = f2.prior
    BY DEF Truncated
  <2> QED BY <2>1, <2>2, <2>3 DEF OutStep
<1>4. ASSUME NEW e, NEW p \in Nat, ~(p <= cut) PROVE OutStep(f1, e, p) = e
  <2>1. p \notin DOMAIN f1.snaps
    BY <1>4 DEF Truncated
  <2> QED BY <2>1 DEF OutStep
<1>5. x[1] = f1 /\ x[2] = f2 /\ x[3] = cut
  OBVIOUS
<1>6. cut \in Nat
  BY DEF Truncated
<1> HIDE DEF x
<1>7. OutContinueHolds(x, 0)
  <2>1. IsPrefix(OutRun(f1, 0).hist, OutRun(f1, 0).hist)
    BY <1>1, HistoryOf DEF IsOutside
  <2> QED BY <1>2, <1>5, <2>1 DEF OutContinueHolds
<1>8. ASSUME NEW k \in Nat, OutContinueHolds(x, k) PROVE OutContinueHolds(x, k + 1)
  <2> DEFINE e1 == OutRun(f1, k)
             e2 == OutRun(f2, k)
             n1 == OutRun(f1, k + 1)
             n2 == OutRun(f2, k + 1)
  <2>1. /\ (k <= cut => e1 = e2) /\ IsPrefix(e1.hist, e2.hist)
        /\ IsOutside(e1) /\ IsOutside(e2) /\ IsOutside(n1) /\ IsOutside(n2)
        /\ k + 1 \in Nat /\ k + 1 \in Int
    BY <1>1, <1>5, <1>8 DEF OutContinueHolds
  <2>2. n1 = OutStep(f1, e1, k + 1) /\ n2 = OutStep(f2, e2, k + 1)
    BY <1>2
  <2> HIDE DEF e1, e2, n1, n2
  <2>3. CASE k + 1 <= cut
    <3>1. n1 = n2
      BY <1>3, <1>6, <2>1, <2>2, <2>3
    <3>2. IsPrefix(n1.hist, n1.hist)
      BY <2>1, HistoryOf DEF IsOutside
    <3> QED BY <1>5, <3>1, <3>2 DEF OutContinueHolds, n1, n2
  <2>4. CASE ~(k + 1 <= cut)
    <3>1. n1 = e1
      BY <1>4, <2>1, <2>2, <2>4
    <3>2. IsPrefix(e2.hist, n2.hist)
      BY <2>1, <2>2, OutSteps
    <3>3. e1.hist \in Histories /\ e2.hist \in Histories /\ n2.hist \in Histories
      BY <2>1, HistoryOf DEF IsOutside
    <3>4. IsPrefix(n1.hist, n2.hist)
      BY <2>1, <3>1, <3>2, <3>3, Chains DEF Histories
    <3> QED BY <1>5, <2>4, <3>4 DEF OutContinueHolds, n1, n2
  <2> QED BY <2>3, <2>4
<1>9. \A k \in Nat : OutContinueHolds(x, k) => OutContinueHolds(x, k + 1)
  BY <1>8
<1>10. \A k \in Nat : OutContinueHolds(x, k)
  BY <1>7, <1>9, LongerOutRun!Induction, Zenon
<1> QED BY <1>5, <1>10 DEF OutContinueHolds

\* Who has said something has gone on to say more.
Continue(E1, E2) == \A e \in E1 : \E l \in E2 : l.id = e.id /\ IsPrefix(e.hist, l.hist)

\* A sequence over a set is one over a larger set.
LEMMA WiderSeq == ASSUME NEW S, NEW T, S \subseteq T, NEW s \in Seq(S) PROVE s \in Seq(T)
<1>1. Len(s) \in Nat /\ s \in [1..Len(s) -> S]
  OBVIOUS
<1>2. s \in [1..Len(s) -> T]
  BY <1>1
<1> QED BY <1>1, <1>2

\* A transition lengthens what there was of a history.
LEMMA Lengthens ==
    ASSUME NEW e, IsEvent(e), NEW h \in Histories, IsPrefix(h, e.hist), NEW state, NEW at
    PROVE  IsPrefix(h, Transition(e, state, at).hist)
<1> DEFINE new == [state |-> state, at |-> at]
           old == [state : States, at : Int]
           S == old \cup {new}
<1>1. e.hist \in Seq(old) /\ h \in Seq(old)
  BY HistoryOf DEF Histories
<1>2. CASE e.hist # <<>> /\ Last(e.hist).state = state
  BY <1>2 DEF Transition
<1>3. CASE ~(e.hist # <<>> /\ Last(e.hist).state = state)
  <2>1. Transition(e, state, at) = [e EXCEPT !.state = state, !.hist = Append(e.hist, new)]
    BY <1>3 DEF Transition
  <2>2. "hist" \in DOMAIN e
    BY DEF IsEvent, EventSet
  <2>3. Transition(e, state, at).hist = Append(e.hist, new)
    BY <2>1, <2>2
  <2> HIDE DEF new, old
  <2>4. old \subseteq S /\ new \in S
    OBVIOUS
  <2> HIDE DEF S
  <2>5. e.hist \in Seq(S) /\ h \in Seq(S)
    BY <1>1, <2>4, WiderSeq
  <2>6. IsPrefix(h, Append(e.hist, new))
    BY <2>4, <2>5, PrefixAppends
  <2> QED BY <2>3, <2>6
<1> QED BY <1>2, <1>3

\* A longer history of an event that has begun, closed or not.
LEMMA EventsContinue ==
    ASSUME NEW e1, NEW e2, IsEvent(e1), IsEvent(e2), e1.state # "NOT_TRIGGERED", IsPrefix(e1.hist, e2.hist)
    PROVE  /\ e2.state # "NOT_TRIGGERED"
           /\ \A state, at : IsPrefix(e1.hist, Transition(e2, state, at).hist)
<1>1. e1.hist \in Histories /\ e2.hist \in Histories
  BY HistoryOf
<1>2. e2.hist # <<>>
  <2>1. e1.hist # <<>>
    BY DEF IsEvent
  <2>2. Len(e1.hist) <= Len(e2.hist)
    BY DEF IsPrefix
  <2> QED BY <1>1, <2>1, <2>2 DEF Histories
<1>3. \A state, at : IsPrefix(e1.hist, Transition(e2, state, at).hist)
  BY <1>1, Lengthens
<1> QED BY <1>2, <1>3 DEF IsEvent

\* What an acceptance says of the facts cut off it continues on the whole.
LEMMA AcceptancesContinue ==
    ASSUME NEW f1, NEW f2, NEW cut, Truncated(f1, f2, cut), ~f1.complete,
           NEW id \in Ids, NEW name, NEW dir \in {"UP", "DOWN"}, NEW r
    PROVE  Continue(AcceptanceEvent(f1, id, name, dir, r), AcceptanceEvent(f2, id, name, dir, r))
<1> DEFINE c1 == <<f1, name, dir, r>>
           c2 == <<f2, name, dir, r>>
           n == Len(Periods)
           e1 == AccRun(c1, id, n)
           e2 == AccRun(c2, id, n)
           E1 == AcceptanceEvent(f1, id, name, dir, r)
           E2 == AcceptanceEvent(f2, id, name, dir, r)
<1>1. E1 = AtClose(f1, e1) /\ E2 = AtClose(f2, e2)
  BY AcceptanceRuns
<1>2. (\A x \in E1 : x.id = id) /\ (\A x \in E2 : x.id = id)
  BY AcceptanceNamed
<1>3. IsPrefix(e1.hist, e2.hist)
  BY RunsContinue, PeriodsAre
<1>4. IsEvent(e1) /\ IsEvent(e2)
  <2>1. c1[3] \in {"UP", "DOWN"} /\ c2[3] \in {"UP", "DOWN"}
    OBVIOUS
  <2> HIDE DEF c1, c2
  <2> QED BY <2>1, RunIs, PeriodsAre DEF IsAcceptance
<1>5. f1.prior = f2.prior
  BY DEF Truncated
<1> HIDE DEF e1, e2, E1, E2
<1>6. SUFFICES ASSUME NEW x \in E1 PROVE \E l \in E2 : l.id = x.id /\ IsPrefix(x.hist, l.hist)
  BY DEF Continue, E1, E2
<1>7. x = e1 /\ f1.prior # NoPrior /\ e1.state # "NOT_TRIGGERED"
  BY <1>1, <1>6 DEF AtClose
<1>8. e2.state # "NOT_TRIGGERED" /\ \A state, at : IsPrefix(e1.hist, Transition(e2, state, at).hist)
  BY <1>3, <1>4, <1>7, EventsContinue
<1>9. PICK l \in E2 : l = e2 \/ \E state, at : l = Transition(e2, state, at)
  BY <1>1, <1>5, <1>7, <1>8 DEF AtClose
<1>10. IsPrefix(e1.hist, l.hist)
  BY <1>3, <1>8, <1>9
<1> QED BY <1>2, <1>6, <1>7, <1>10

\* So does the value outside.
LEMMA OutsideContinues ==
    ASSUME NEW f1, NEW f2, NEW cut, Truncated(f1, f2, cut), ~f1.complete
    PROVE  Continue(OutsideEvent(f1), OutsideEvent(f2))
<1> DEFINE n == Len(Periods)
           e1 == OutRun(f1, n)
           e2 == OutRun(f2, n)
           E1 == OutsideEvent(f1)
           E2 == OutsideEvent(f2)
<1>1. /\ E1 = IF f1.prior = NoPrior THEN {}
              ELSE CASE e1.state = "NOT_TRIGGERED" -> {}
                     [] e1.state \in {"TRIGGERED", "DEVELOPING"} /\ f1.complete /\ f1.final # NoProfile ->
                          {Transition(e1, IF IF e1.dir = "UP" THEN f1.final.val > f1.prior.vah ELSE f1.final.vah < f1.prior.val
                                           THEN "CONFIRMED" ELSE "EXPIRED", Max(DOMAIN f1.snaps))}
                     [] OTHER -> {e1}
      /\ E2 = IF f2.prior = NoPrior THEN {}
              ELSE CASE e2.state = "NOT_TRIGGERED" -> {}
                     [] e2.state \in {"TRIGGERED", "DEVELOPING"} /\ f2.complete /\ f2.final # NoProfile ->
                          {Transition(e2, IF IF e2.dir = "UP" THEN f2.final.val > f2.prior.vah ELSE f2.final.vah < f2.prior.val
                                           THEN "CONFIRMED" ELSE "EXPIRED", Max(DOMAIN f2.snaps))}
                     [] OTHER -> {e2}
  BY DEF OutsideEvent, Over, OutRun, OutStep
<1>2. (\A x \in E1 : x.id = "MP-015") /\ (\A x \in E2 : x.id = "MP-015")
  BY OutsideNamed
<1>3. IsPrefix(e1.hist, e2.hist)
  BY OutRunsContinue, PeriodsAre
<1>4. IsEvent(e1) /\ IsEvent(e2)
  BY OutRuns, PeriodsAre DEF OutHolds, IsOutside
<1>5. f1.prior = f2.prior
  BY DEF Truncated
<1> HIDE DEF e1, e2, E1, E2
<1>6. SUFFICES ASSUME NEW x \in E1 PROVE \E l \in E2 : l.id = x.id /\ IsPrefix(x.hist, l.hist)
  BY DEF Continue, E1, E2
<1>7. x = e1 /\ f1.prior # NoPrior /\ e1.state # "NOT_TRIGGERED"
  BY <1>1, <1>6
<1>8. e2.state # "NOT_TRIGGERED" /\ \A state, at : IsPrefix(e1.hist, Transition(e2, state, at).hist)
  BY <1>3, <1>4, <1>7, EventsContinue
<1>9. PICK l \in E2 : l = e2 \/ \E state, at : l = Transition(e2, state, at)
  BY <1>1, <1>5, <1>7, <1>8
<1>10. IsPrefix(e1.hist, l.hist)
  BY <1>3, <1>8, <1>9
<1> QED BY <1>2, <1>6, <1>7, <1>10

\* What a rejection is made of: the brackets that probe the level, the first of
\* them, those that come back from it in time, and what these make of the event.
Probes(f, name, dir) == {p \in DOMAIN f.snaps : f.snaps[p].rel[name] \in Partial \cup {Full(dir)}}
Backs(f, name, dir, probe) ==
    {p \in DOMAIN f.snaps : probe < p /\ p - probe <= 2 /\ f.snaps[p].rel[name] = Full(Opposite(dir))}
Begun(id, dir, probe) == Transition(NewEvent(id, dir, "MODERATE"), "TRIGGERED", probe)
Confirmed(e, at, strength) == [Transition(e, "CONFIRMED", at) EXCEPT !.strength = strength]

\* The parts of a rejection.
LEMMA RejectionIs ==
    ASSUME NEW f, NEW id, NEW name, NEW dir
    PROVE  LET probe == Min(Probes(f, name, dir))
               backs == Backs(f, name, dir, probe)
               begun == Begun(id, dir, probe)
           IN  \E strength :
                 RejectionEvent(f, id, name, dir)
                   = IF f.prior = NoPrior \/ Probes(f, name, dir) = {} THEN {}
                     ELSE IF backs = {} THEN {begun} ELSE {Confirmed(begun, Min(backs), strength)}
<1> DEFINE probe == Min(Probes(f, name, dir))
           backs == Backs(f, name, dir, probe)
           begun == Begun(id, dir, probe)
           tailed == IF dir = "UP" THEN f.structure.excessHigh ELSE f.structure.excessLow
           strength == IF f.structure # NoProfile /\ tailed THEN "STRONG"
                       ELSE Transition(begun, "CONFIRMED", Min(backs)).strength
<1>1. RejectionEvent(f, id, name, dir)
        = IF f.prior = NoPrior \/ Probes(f, name, dir) = {} THEN {}
          ELSE IF backs = {} THEN {begun} ELSE {Confirmed(begun, Min(backs), strength)}
  BY DEF RejectionEvent, Probes, Backs, Begun, Confirmed
<1> HIDE DEF strength
<1> QED BY <1>1

\* Of a set cut off, the first is that of the whole.
LEMMA FirstKept ==
    ASSUME NEW S1 \in SUBSET Nat, NEW S2 \in SUBSET Nat, IsFiniteSet(S2), NEW k \in Nat,
           \A p \in Nat : p \in S1 <=> (p \in S2 /\ p <= k), S1 # {}
    PROVE  S2 # {} /\ Min(S1) = Min(S2) /\ Min(S1) \in Nat /\ Min(S1) \in S1
<1>1. \A p \in S1 : p \in S2
  OBVIOUS
<1>2. IsFiniteSet(S1) /\ S1 \in SUBSET Int /\ S2 \in SUBSET Int /\ S2 # {}
  <2>1. S1 \subseteq S2
    BY <1>1
  <2>2. IsFiniteSet(S1)
    BY <2>1, FS_Subset
  <2>3. S2 # {}
    BY <2>1
  <2> QED BY <2>2, <2>3
<1> DEFINE m1 == Min(S1)
           m2 == Min(S2)
<1>3. m1 \in S1 /\ (\A x \in S1 : m1 <= x) /\ m2 \in S2 /\ (\A x \in S2 : m2 <= x)
  BY <1>2, Extremes
<1> HIDE DEF m1, m2
<1>4. m1 \in Nat /\ m2 \in Nat /\ m1 \in S2 /\ m1 <= k /\ m2 <= m1
  BY <1>1, <1>3
<1>5. m2 \in S1
  BY <1>3, <1>4
<1>6. m1 <= m2
  BY <1>3, <1>5
<1> QED BY <1>2, <1>3, <1>4, <1>6 DEF m1, m2

\* So does a rejection: its first probe and its first return stay.
LEMMA RejectionsContinue ==
    ASSUME NEW f1, NEW f2, NEW cut, Truncated(f1, f2, cut), NEW id \in Ids, NEW name, NEW dir \in {"UP", "DOWN"}
    PROVE  Continue(RejectionEvent(f1, id, name, dir), RejectionEvent(f2, id, name, dir))
<1> DEFINE E1 == RejectionEvent(f1, id, name, dir)
           E2 == RejectionEvent(f2, id, name, dir)
           probes1 == Probes(f1, name, dir)
           probes2 == Probes(f2, name, dir)
           probe == Min(probes1)
           backs1 == Backs(f1, name, dir, probe)
           backs2 == Backs(f2, name, dir, probe)
           begun == Begun(id, dir, probe)
<1>1. /\ f1.prior = f2.prior /\ cut \in Nat /\ DOMAIN f1.snaps \in SUBSET Nat /\ DOMAIN f2.snaps \in SUBSET Nat
      /\ IsFiniteSet(DOMAIN f2.snaps)
      /\ \A p \in Nat : p \in DOMAIN f1.snaps <=> (p \in DOMAIN f2.snaps /\ p <= cut)
      /\ \A p \in DOMAIN f1.snaps : f1.snaps[p] = f2.snaps[p]
  BY DEF Truncated
<1>2. /\ probes1 \in SUBSET Nat /\ probes2 \in SUBSET Nat /\ IsFiniteSet(probes2)
      /\ \A p \in Nat : p \in probes1 <=> (p \in probes2 /\ p <= cut)
  <2>1. probes2 \subseteq DOMAIN f2.snaps
    BY DEF Probes
  <2>2. IsFiniteSet(probes2)
    BY <1>1, <2>1, FS_Subset
  <2> QED BY <1>1, <2>2 DEF Probes
<1>3. /\ backs1 \in SUBSET Nat /\ backs2 \in SUBSET Nat /\ IsFiniteSet(backs2)
      /\ \A p \in Nat : p \in backs1 <=> (p \in backs2 /\ p <= cut)
  <2> HIDE DEF probe
  <2>1. backs2 \subseteq DOMAIN f2.snaps
    BY DEF Backs
  <2>2. IsFiniteSet(backs2)
    BY <1>1, <2>1, FS_Subset
  <2> QED BY <1>1, <2>2 DEF Backs
<1>4. (\A x \in E1 : x.id = id) /\ (\A x \in E2 : x.id = id)
  BY RejectionNamed
<1> SUFFICES ASSUME NEW x \in E1 PROVE \E l \in E2 : l.id = x.id /\ IsPrefix(x.hist, l.hist)
  BY DEF Continue
<1>5. PICK s1 : E1 = IF f1.prior = NoPrior \/ probes1 = {} THEN {}
                     ELSE IF backs1 = {} THEN {begun} ELSE {Confirmed(begun, Min(backs1), s1)}
  BY RejectionIs
<1> HIDE DEF probes1, probes2
<1>6. f1.prior # NoPrior /\ probes1 # {}
  <2> HIDE DEF E1, probe, backs1, begun
  <2> QED BY <1>5
<1>7. probe = Min(probes2) /\ probe \in Nat /\ probes2 # {}
  <2>1. probes1 # {} /\ cut \in Nat
    BY <1>1, <1>6
  <2> QED BY <1>2, <2>1, FirstKept
<1>8. PICK s2 : E2 = IF f2.prior = NoPrior \/ probes2 = {} THEN {}
                     ELSE IF backs2 = {} THEN {begun} ELSE {Confirmed(begun, Min(backs2), s2)}
  <2>1. PICK s2 : LET at == Min(Probes(f2, name, dir))
                      backs == Backs(f2, name, dir, at)
                  IN  E2 = IF f2.prior = NoPrior \/ Probes(f2, name, dir) = {} THEN {}
                           ELSE IF backs = {} THEN {Begun(id, dir, at)}
                           ELSE {Confirmed(Begun(id, dir, at), Min(backs), s2)}
    BY RejectionIs
  <2>2. Min(Probes(f2, name, dir)) = probe
    BY <1>7 DEF probes2
  <2> HIDE DEF E2, probe
  <2> QED BY <2>1, <2>2 DEF probes2
<1>9. IsEvent(begun) /\ begun.state # "NOT_TRIGGERED"
  <2>1. dir \in Dirs /\ "MODERATE" \in Strengths
    BY DEF Dirs, Strengths
  <2>2. IsEvent(NewEvent(id, dir, "MODERATE"))
    BY <2>1, BeginsAcceptance DEF IsAcceptance
  <2>3. probe \in Int /\ "TRIGGERED" \in States /\ "TRIGGERED" # "NOT_TRIGGERED"
    BY <1>7 DEF States
  <2> HIDE DEF probe
  <2> QED BY <2>2, <2>3, Transits DEF Begun
<1> HIDE DEF E1, E2, probe, backs1, backs2, begun
<1>10. \A at, strength : Confirmed(begun, at, strength).hist = Transition(begun, "CONFIRMED", at).hist
  <2>1. TAKE at, strength
  <2> DEFINE t == Transition(begun, "CONFIRMED", at)
  <2>2. "hist" \in DOMAIN t
    <3>1. CASE begun.hist # <<>> /\ Last(begun.hist).state = "CONFIRMED"
      BY <1>9, <3>1 DEF Transition, IsEvent, EventSet
    <3>2. CASE ~(begun.hist # <<>> /\ Last(begun.hist).state = "CONFIRMED")
      <4>1. t = [begun EXCEPT !.state = "CONFIRMED", !.hist = Append(begun.hist, [state |-> "CONFIRMED", at |-> at])]
        BY <3>2 DEF Transition
      <4>2. "hist" \in DOMAIN begun
        BY <1>9 DEF IsEvent, EventSet
      <4> HIDE DEF t
      <4> QED BY <4>1, <4>2
    <3> QED BY <3>1, <3>2
  <2> HIDE DEF t
  <2>3. [t EXCEPT !.strength = strength].hist = t.hist
    BY <2>2
  <2> QED BY <2>3 DEF Confirmed, t
<1>11. \A at : IsPrefix(begun.hist, Transition(begun, "CONFIRMED", at).hist)
  BY <1>9, HistoryOf, EventsContinue
<1>12. CASE backs1 = {}
  <2>1. x = begun
    BY <1>5, <1>6, <1>12
  <2>2. PICK l \in E2 : l = begun \/ l = Confirmed(begun, Min(backs2), s2)
    BY <1>1, <1>6, <1>7, <1>8
  <2>3. IsPrefix(begun.hist, l.hist)
    BY <1>9, <1>10, <1>11, <2>2, HistoryOf
  <2> QED BY <1>4, <2>1, <2>3
<1>13. CASE backs1 # {}
  <2>1. Min(backs1) = Min(backs2) /\ backs2 # {} /\ Min(backs1) \in Nat
    <3>1. backs1 # {} /\ cut \in Nat
      BY <1>1, <1>13
    <3> QED BY <1>3, <3>1, FirstKept
  <2> DEFINE at == Min(backs1)
             t == Transition(begun, "CONFIRMED", at)
             l == Confirmed(begun, at, s2)
  <2>2. x = Confirmed(begun, at, s1)
    BY <1>5, <1>6, <1>13
  <2>3. l \in E2
    BY <1>1, <1>6, <1>7, <1>8, <2>1
  <2>4. IsEvent(t)
    <3>1. at \in Int /\ "CONFIRMED" \in States /\ "CONFIRMED" # "NOT_TRIGGERED"
      BY <2>1 DEF States
    <3> HIDE DEF at
    <3> QED BY <1>9, <3>1, Transits
  <2>5. x.hist = t.hist /\ l.hist = t.hist
    BY <1>10, <2>2
  <2>6. IsPrefix(x.hist, l.hist)
    <3> HIDE DEF t, l
    <3> QED BY <2>4, <2>5, HistoryOf
  <2> QED BY <1>4, <2>3, <2>6
<1> QED BY <1>12, <1>13

\* So of all of them.
LEMMA LifecyclesContinue ==
    ASSUME NEW f1, NEW f2, NEW cut, Truncated(f1, f2, cut), ~f1.complete
    PROVE  Continue(Lifecycles(f1), Lifecycles(f2))
<1> DEFINE acc(f, id, name, dir, r) == AcceptanceEvent(f, id, name, dir, r)
           rej(f, id, name, dir) == RejectionEvent(f, id, name, dir)
<1>1. {"MP-010", "MP-011", "MP-016", "MP-017", "MP-019", "MP-020", "MP-012", "MP-013"} \in SUBSET Ids
  BY DEF Ids
<1>2. /\ Continue(acc(f1, "MP-010", "prev_vah", "UP", FALSE), acc(f2, "MP-010", "prev_vah", "UP", FALSE))
      /\ Continue(acc(f1, "MP-011", "prev_val", "DOWN", FALSE), acc(f2, "MP-011", "prev_val", "DOWN", FALSE))
      /\ Continue(acc(f1, "MP-016", "prev_high", "UP", TRUE), acc(f2, "MP-016", "prev_high", "UP", TRUE))
      /\ Continue(acc(f1, "MP-017", "prev_low", "DOWN", TRUE), acc(f2, "MP-017", "prev_low", "DOWN", TRUE))
      /\ Continue(acc(f1, "MP-019", "ib_high", "UP", TRUE), acc(f2, "MP-019", "ib_high", "UP", TRUE))
      /\ Continue(acc(f1, "MP-020", "ib_low", "DOWN", TRUE), acc(f2, "MP-020", "ib_low", "DOWN", TRUE))
  BY <1>1, AcceptancesContinue
<1>3. /\ Continue(rej(f1, "MP-012", "prev_vah", "UP"), rej(f2, "MP-012", "prev_vah", "UP"))
      /\ Continue(rej(f1, "MP-013", "prev_val", "DOWN"), rej(f2, "MP-013", "prev_val", "DOWN"))
  BY <1>1, RejectionsContinue
<1>4. Continue(OutsideEvent(f1), OutsideEvent(f2))
  BY OutsideContinues
<1>5. ASSUME NEW A1, NEW A2, NEW B1, NEW B2, Continue(A1, A2), Continue(B1, B2)
      PROVE  Continue(A1 \cup B1, A2 \cup B2)
  BY <1>5 DEF Continue
<1> DEFINE values(f) == acc(f, "MP-010", "prev_vah", "UP", FALSE) \cup acc(f, "MP-011", "prev_val", "DOWN", FALSE)
           ranges(f) == acc(f, "MP-016", "prev_high", "UP", TRUE) \cup acc(f, "MP-017", "prev_low", "DOWN", TRUE)
           balances(f) == acc(f, "MP-019", "ib_high", "UP", TRUE) \cup acc(f, "MP-020", "ib_low", "DOWN", TRUE)
           rejections(f) == rej(f, "MP-012", "prev_vah", "UP") \cup rej(f, "MP-013", "prev_val", "DOWN")
           levels(f) == values(f) \cup ranges(f)
           extremes(f) == balances(f) \cup rejections(f)
           rest(f) == extremes(f) \cup OutsideEvent(f)
<1>6. Lifecycles(f1) = levels(f1) \cup rest(f1) /\ Lifecycles(f2) = levels(f2) \cup rest(f2)
  BY DEF Lifecycles
<1> HIDE DEF acc, rej
<1>7. Continue(values(f1), values(f2))
  BY <1>2, <1>5
<1>8. Continue(ranges(f1), ranges(f2))
  BY <1>2, <1>5
<1>9. Continue(balances(f1), balances(f2))
  BY <1>2, <1>5
<1>10. Continue(rejections(f1), rejections(f2))
  BY <1>3, <1>5
<1> HIDE DEF values, ranges, balances, rejections
<1>11. Continue(levels(f1), levels(f2))
  BY <1>5, <1>7, <1>8
<1>12. Continue(extremes(f1), extremes(f2))
  BY <1>5, <1>9, <1>10
<1> HIDE DEF levels, extremes
<1>13. Continue(rest(f1), rest(f2))
  BY <1>4, <1>5, <1>12
<1> HIDE DEF rest
<1> QED BY <1>5, <1>6, <1>11, <1>13

\* Every period ends at an integer.
LEMMA EndsAre == \A p \in DOMAIN Periods : Periods[p].end \in Int
<1> DEFINE S == [start : Int, end : Int]
<1>1. Periods \in Seq(S)
  BY PeriodsAre
<1>2. \A x \in S : x.end \in Int
  OBVIOUS
<1> HIDE DEF S
<1>3. \A p \in DOMAIN Periods : Periods[p] \in S
  BY <1>1
<1> QED BY <1>2, <1>3

\* What later bars add to the facts of a session lies beyond the brackets that had
\* closed.
LEMMA ClosedStays ==
    ASSUME NEW old, NEW new, IsSeries(old), IsSeries(new), NEW now1 \in Int, NEW now2 \in Int, now1 <= now2,
           DOMAIN old \subseteq DOMAIN new, \A i \in DOMAIN old : old[i] = new[i],
           \A i \in DOMAIN new : i \notin DOMAIN old => new[i].ts >= now1,
           NEW pr, NEW p \in DOMAIN Periods, Periods[p].end <= now1
    PROVE  Slice(old, p) = Slice(new, p)
<1> DEFINE S1 == {i \in DOMAIN old : old[i].ts < Periods[p].end}
           S2 == {i \in DOMAIN new : new[i].ts < Periods[p].end}
<1>1. Periods[p].end \in Int
  BY EndsAre
<1>2. \A i \in DOMAIN new : new[i].ts \in Int
  <2>1. \A x \in PrintSlots : x \in Int
    BY EventAssumption, ProfileAssumption
  <2>2. \A i \in DOMAIN new : new[i].ts \in PrintSlots
    BY DEF IsSeries, BarSet
  <2> QED BY <2>1, <2>2
<1>3. S1 = S2
  <2>1. ASSUME NEW i \in S2 PROVE i \in S1
    <3>1. i \in DOMAIN old
      BY <1>1, <1>2, <2>1
    <3> QED BY <2>1, <3>1
  <2>2. \A i \in S1 : i \in S2
    OBVIOUS
  <2> QED BY <2>1, <2>2
<1>4. \A i \in S1 : old[i] = new[i]
  OBVIOUS
<1>5. Slice(old, p) = [i \in S1 |-> old[i]] /\ Slice(new, p) = [i \in S2 |-> new[i]]
  BY DEF Slice, Restrict
<1> HIDE DEF S1, S2
<1> QED BY <1>3, <1>4, <1>5

\* The brackets closed by now are the first ones.
LEMMA ClosedFirst ==
    ASSUME NEW now \in Int
    PROVE  \E cut \in Nat : \A p \in DOMAIN Periods : Periods[p].end <= now <=> p <= cut
<1> DEFINE n == Len(Periods)
           end(p) == Periods[p].end
           closed == {p \in 1..n : end(p) <= now}
<1>1. n \in Nat /\ DOMAIN Periods = 1..n
  BY PeriodsAre
<1>2. \A p \in 1..n : end(p) \in Int
  BY <1>1, EndsAre
<1>3. \A i, j \in 1..n : i < j => end(i) < end(j)
  BY <1>1, PeriodsAre
<1> HIDE DEF n, end
<1>4. CASE closed = {}
  <2>1. \A p \in 1..n : end(p) <= now <=> p <= 0
    BY <1>4
  <2> QED BY <1>1, <2>1 DEF end
<1>5. CASE closed # {}
  <2>1. IsFiniteSet(closed) /\ closed \in SUBSET Int
    <3>1. IsFiniteSet(1..n) /\ closed \subseteq 1..n
      BY <1>1, FS_Interval
    <3>2. IsFiniteSet(closed)
      BY <3>1, FS_Subset
    <3>3. \A p \in closed : p \in Int
      OBVIOUS
    <3> HIDE DEF closed
    <3> QED BY <3>2, <3>3
  <2>2. PICK cut \in closed : \A p \in closed : p <= cut
    BY <1>5, <2>1, Extremes
  <2>3. ASSUME NEW p \in 1..n, p <= cut PROVE end(p) <= now
    <3>1. cut \in 1..n /\ end(cut) <= now
      BY <2>2
    <3>2. p = cut \/ p < cut
      BY <2>3, <3>1
    <3>3. end(p) <= end(cut)
      BY <1>2, <1>3, <3>1, <3>2
    <3> QED BY <1>2, <3>1, <3>3
  <2>4. cut \in Nat /\ \A p \in 1..n : end(p) <= now <=> p <= cut
    BY <2>2, <2>3
  <2> QED BY <1>1, <2>4 DEF end
<1> QED BY <1>4, <1>5

\* So the facts of a stored row are those of today, cut off.
LEMMA FactsTruncated ==
    ASSUME NEW old, NEW new, IsSeries(old), IsSeries(new), NEW now1 \in Int, NEW now2 \in Int, now1 <= now2,
           DOMAIN old \subseteq DOMAIN new, \A i \in DOMAIN old : old[i] = new[i],
           \A i \in DOMAIN new : i \notin DOMAIN old => new[i].ts >= now1,
           NEW pr
    PROVE  \E cut \in Nat : Truncated(Facts(old, now1, pr), Facts(new, now2, pr), cut)
<1> DEFINE f1 == Facts(old, now1, pr)
           f2 == Facts(new, now2, pr)
           dev1(p) == Developing(Slice(old, p), p)
           dev2(p) == Developing(Slice(new, p), p)
           S1 == Snapshots(old, now1, pr)
           S2 == Snapshots(new, now2, pr)
<1>1. PICK cut \in Nat : \A p \in DOMAIN Periods : Periods[p].end <= now1 <=> p <= cut
  BY ClosedFirst
<1>2. f1.snaps = S1 /\ f2.snaps = S2 /\ f1.prior = pr /\ f2.prior = pr
  BY DEF Facts, FactsOf
<1>3. /\ DOMAIN S1 = {p \in DOMAIN Periods : Periods[p].end <= now1 /\ dev1(p) # NoProfile}
      /\ DOMAIN S2 = {p \in DOMAIN Periods : Periods[p].end <= now2 /\ dev2(p) # NoProfile}
      /\ \A p \in DOMAIN S1 : S1[p] = Snapshot(Slice(old, p), p, pr, dev1(p))
      /\ \A p \in DOMAIN S2 : S2[p] = Snapshot(Slice(new, p), p, pr, dev2(p))
  BY DEF Snapshots
<1>4. \A p \in DOMAIN Periods : Periods[p].end <= now1 => Slice(old, p) = Slice(new, p)
  BY ClosedStays
<1>5. \A p \in DOMAIN Periods : Periods[p].end <= now1 => Periods[p].end <= now2
  BY EndsAre
<1>6. DOMAIN Periods = 1..Len(Periods) /\ Len(Periods) \in Nat /\ IsFiniteSet(DOMAIN Periods)
  BY PeriodsAre, FS_Interval
<1> HIDE DEF f1, f2, S1, S2
<1>7. /\ DOMAIN S1 \in SUBSET Nat /\ DOMAIN S2 \in SUBSET Nat
      /\ IsFiniteSet(DOMAIN S1) /\ IsFiniteSet(DOMAIN S2)
  <2>1. DOMAIN S1 \subseteq DOMAIN Periods /\ DOMAIN S2 \subseteq DOMAIN Periods
    BY <1>3
  <2>2. IsFiniteSet(DOMAIN S1) /\ IsFiniteSet(DOMAIN S2)
    BY <1>6, <2>1, FS_Subset
  <2>3. \A p \in DOMAIN Periods : p \in Nat
    BY <1>6
  <2> QED BY <2>1, <2>2, <2>3
<1>8. ASSUME NEW p \in DOMAIN Periods
      PROVE  /\ p \in DOMAIN S1 <=> (p \in DOMAIN S2 /\ p <= cut)
             /\ p \in DOMAIN S1 => S1[p] = S2[p]
  <2>1. p <= cut => Slice(old, p) = Slice(new, p) /\ Periods[p].end <= now1 /\ Periods[p].end <= now2
    BY <1>1, <1>4, <1>5
  <2>2. p \in DOMAIN S1 => p <= cut
    BY <1>1, <1>3
  <2>3. p <= cut => dev1(p) = dev2(p)
    BY <2>1
  <2> HIDE DEF dev1, dev2
  <2> QED BY <1>3, <2>1, <2>2, <2>3
<1>9. \A p \in Nat : (p \in DOMAIN S1 \/ p \in DOMAIN S2) => p \in DOMAIN Periods
  BY <1>3
<1>10. Truncated(f1, f2, cut)
  BY <1>2, <1>7, <1>8, <1>9 DEF Truncated
<1> QED BY <1>10 DEF f1, f2

\* Nothing printed is repainted, as long as no bar comes late: the bars of a closed
\* bracket stay what they were.  A bar of the close itself would come after the
\* session was complete, and its events closed.
THEOREM NothingRepaints ==
    ASSUME Delay = 0, SessionLen \notin PrintSlots
    PROVE  Spec => NoRepaint
<1> DEFINE Continued ==
        row # NoRow /\ row' # NoRow /\ row' # row =>
            LET before == Facts(row.bars, row.now, prior)
                after == Facts(bars, slot, prior)
                later == Lifecycles(after)
            IN  \A e \in Lifecycles(before) : \E l \in later : l.id = e.id /\ IsPrefix(e.hist, l.hist)
<1>1. SessionInv /\ [Next]_vars => [Continued]_vars
  <2> SUFFICES ASSUME SessionInv, Next, row # NoRow, row' # NoRow, row' # row
               PROVE  Continue(Lifecycles(Facts(row.bars, row.now, prior)), Lifecycles(Facts(bars, slot, prior)))
    BY DEF Continue
  <2>1. Cycle
    BY DEF Next, BarPrints, Tick, NextDay
  <2>2. SeriesInv /\ RowInv
    BY DEF SessionInv
  <2>3. /\ IsSeries(row.bars) /\ Len(row.bars) <= Len(bars) /\ Len(row.bars) \in Nat
        /\ DOMAIN row.bars = 1..Len(row.bars)
        /\ \A i \in 1..Len(row.bars) : i \in DOMAIN bars /\ bars[i] = row.bars[i]
    BY <2>2, RowIsSeries
  <2>4. IsSeries(bars) /\ DOMAIN bars = 1..Len(bars) /\ Len(bars) \in Nat /\ bars \in Seq(BarSet)
    BY <2>2, SeriesOf DEF SeriesInv
  <2>5. row.now \in Int /\ slot \in Int /\ row.now <= slot
    BY <2>2, ProfileAssumption DEF RowInv, SeriesInv
  <2>6. \A i \in DOMAIN bars : i \notin DOMAIN row.bars => bars[i].ts >= row.now
    BY <2>2, <2>3, <2>4, <2>5 DEF RowInv
  <2>7. PICK cut \in Nat : Truncated(Facts(row.bars, row.now, prior), Facts(bars, slot, prior), cut)
    BY <2>3, <2>4, <2>5, <2>6, FactsTruncated
  <2>8. row.now < SessionLen
    <3>1. PICK i \in DOMAIN bars : i \notin DOMAIN row.bars
      <4>1. Len(bars) # 0 /\ Last(row.bars).ts # Last(bars).ts
        <5>1. Last(row.bars).ts # Last(bars).ts
          BY <2>1 DEF Cycle
        <5>2. bars # <<>>
          <6>1. row.bars \in Seq(BarSet) /\ (bars = <<>> => Len(row.bars) = 0)
            BY <2>2, <2>3 DEF RowInv
          <6>2. bars = <<>> => row.bars = bars
            BY <6>1
          <6> QED BY <5>1, <6>2
        <5> QED BY <2>4, <5>1, <5>2
      <4>2. Len(row.bars) # Len(bars)
        <5>1. Len(row.bars) = Len(bars) => bars[Len(bars)] = row.bars[Len(row.bars)]
          BY <2>3, <2>4, <4>1
        <5> QED BY <4>1, <5>1 DEF Last
      <4> QED BY <2>3, <2>4, <4>2
    <3>2. bars[i].ts \in PrintSlots /\ bars[i].ts >= row.now
      BY <2>4, <2>6, <3>1 DEF IsSeries, BarSet
    <3>3. \A x \in PrintSlots : x \in 0..SessionLen /\ x # SessionLen
      BY EventAssumption
    <3>4. bars[i].ts \in 0..SessionLen /\ bars[i].ts # SessionLen
      BY <3>2, <3>3
    <3> QED BY <2>5, <3>2, <3>4, ProfileAssumption
  <2>9. ~Facts(row.bars, row.now, prior).complete
    <3>1. ~(row.now >= SessionLen)
      BY <2>5, <2>8, ProfileAssumption
    <3> QED BY <3>1 DEF Facts, FactsOf
  <2> QED BY <2>7, <2>9, LifecyclesContinue
<1>2. Spec => [][Continued]_vars
  BY <1>1, SessionsHold, PTL DEF Spec
<1> QED BY <1>2 DEF NoRepaint

=============================================================================
