------------------------------ MODULE FoldFacts ------------------------------
(***************************************************************************)
(* What folds of the community modules compute, and induction over the     *)
(* natural numbers, for the proofs about the modules that fold.  The step  *)
(* of the fold and the formula of the induction are parameters of this     *)
(* module: whoever cites a lemma instantiates it for its own, and gives    *)
(* what those depend on as their first argument.                           *)
(***************************************************************************)
EXTENDS Integers, SequencesExt, FiniteSetTheorems, WellFoundedInduction, TLAPS

CONSTANTS
    Step(_, _, _),      \* of what it depends on, what there is, and the next index
    Holds(_, _)         \* of what it depends on, and a number

\* A step over 1..k, and the sum of a function over a set.
Folded(e, start, k) == FoldLeft(LAMBDA a, i : Step(e, a, i), start, [i \in 1..k |-> i])
Sum(f, S) == MapThenSumSet(LAMBDA x : f[x], S)

-----------------------------------------------------------------------------
(* Induction *)

\* A set of numbers that is not empty has a least one.
LEMMA Least ==
    ASSUME NEW T \in SUBSET Nat, T # {}
    PROVE  \E x \in T : \A y \in T : x <= y
<1> DEFINE R == {s \in Nat \X Nat : s[1] < s[2]}
<1>1. IsWellFoundedOn(R, Nat)
  BY NatLessThanWellFounded DEF OpToRel
<1>2. PICK x \in T : \A y \in T : <<y, x>> \notin R
  BY <1>1, WFMin
<1>3. \A y \in T : ~(y < x)
  <2>1. TAKE y \in T
  <2>2. <<y, x>> \in Nat \X Nat /\ <<y, x>>[1] = y /\ <<y, x>>[2] = x
    OBVIOUS
  <2>3. QED BY <1>2, <2>2
<1>4. QED BY <1>3

\* What holds of zero, and of the next number whenever of a number, holds of all.
LEMMA Induction ==
    ASSUME NEW e, Holds(e, 0), \A k \in Nat : Holds(e, k) => Holds(e, k + 1)
    PROVE  \A k \in Nat : Holds(e, k)
<1> DEFINE T == {k \in Nat : ~Holds(e, k)}
<1>1. SUFFICES ASSUME T # {} PROVE FALSE
  OBVIOUS
<1>2. PICK k \in T : \A y \in T : k <= y
  BY <1>1, Least
<1>3. k \in Nat /\ k # 0
  OBVIOUS
<1>4. k - 1 \in Nat /\ ~(k <= k - 1) /\ k - 1 + 1 = k
  BY <1>3
<1>5. Holds(e, k - 1)
  BY <1>2, <1>4
<1> QED BY <1>4, <1>5

\* A finite set of numbers that is not empty has a greatest and a least member.
LEMMA GreatestExists ==
    ASSUME NEW S \in SUBSET Int, IsFiniteSet(S), S # {}
    PROVE  /\ \E x \in S : \A y \in S : x >= y
           /\ \E x \in S : \A y \in S : x <= y
<1> DEFINE over(x) == {y \in S : y > x}
           under(x) == {y \in S : y < x}
<1>1. \A x \in S : IsFiniteSet(over(x)) /\ IsFiniteSet(under(x))
                   /\ Cardinality(over(x)) \in Nat /\ Cardinality(under(x)) \in Nat
  BY FS_Subset, FS_CardinalityType
<1>2. PICK x \in S : \A y \in S : Cardinality(over(x)) <= Cardinality(over(y))
  <2> DEFINE T == {Cardinality(over(y)) : y \in S}
  <2>1. T \in SUBSET Nat /\ T # {}
    BY <1>1
  <2>2. PICK c \in T : \A d \in T : c <= d
    BY <2>1, Least
  <2> QED BY <2>2
<1> HIDE DEF over, under
<1>3. ASSUME NEW y \in S, ~(x >= y) PROVE FALSE
  <2>1. over(y) \in SUBSET over(x) /\ over(y) # over(x)
    <3>1. y \in over(x) /\ y \notin over(y)
      BY <1>3 DEF over
    <3>2. \A z \in S : z > y => z > x
      BY <1>3
    <3> QED BY <3>1, <3>2 DEF over
  <2>2. Cardinality(over(y)) <= Cardinality(over(x)) /\ Cardinality(over(y)) # Cardinality(over(x))
    BY <1>1, <2>1, FS_Subset
  <2> QED BY <1>1, <1>2, <2>2
<1>4. PICK z \in S : \A y \in S : Cardinality(under(z)) <= Cardinality(under(y))
  <2> DEFINE T == {Cardinality(under(y)) : y \in S}
  <2>1. T \in SUBSET Nat /\ T # {}
    BY <1>1
  <2>2. PICK c \in T : \A d \in T : c <= d
    BY <2>1, Least
  <2> QED BY <2>2
<1>5. ASSUME NEW y \in S, ~(z <= y) PROVE FALSE
  <2>1. under(y) \in SUBSET under(z) /\ under(y) # under(z)
    <3>1. y \in under(z) /\ y \notin under(y)
      BY <1>5 DEF under
    <3>2. \A w \in S : w < y => w < z
      BY <1>5
    <3> QED BY <3>1, <3>2 DEF under
  <2>2. Cardinality(under(y)) <= Cardinality(under(z)) /\ Cardinality(under(y)) # Cardinality(under(z))
    BY <1>1, <2>1, FS_Subset
  <2> QED BY <1>1, <1>4, <2>2
<1> QED BY <1>3, <1>5

-----------------------------------------------------------------------------
(* Folds *)

\* The greatest of some indices that hold the last one is the last one.
LEMMA LastIsGreatest ==
    ASSUME NEW n \in Nat, NEW s \in SUBSET (1..n), n \in s
    PROVE  Max(s) = n
<1>1. \A x \in s : n >= x
  OBVIOUS
<1>2. \A x \in s : (\A y \in s : x >= y) => x = n
  <2>1. TAKE x \in s
  <2>2. x \in Int /\ n \in Int /\ x <= n
    OBVIOUS
  <2> QED BY <2>2
<1> QED BY <1>1, <1>2 DEF Max

\* The function by which a fold over 1..m is defined.
IsFold(f, e, start, m) ==
    f = [s \in SUBSET (1..m) |-> IF s = {} THEN start ELSE Step(e, f[s \ {Max(s)}], Max(s))]

\* A fold over nothing is where it starts.
LEMMA FoldStarts == ASSUME NEW e, NEW start PROVE \E f : IsFold(f, e, start, 0)
<1>1. \A s \in SUBSET (1..0) : s = {}
  OBVIOUS
<1>2. IsFold([s \in SUBSET (1..0) |-> start], e, start, 0)
  BY <1>1 DEF IsFold
<1> QED BY <1>2

\* A fold over k indices extends to one over k + 1.
LEMMA FoldExtends ==
    ASSUME NEW e, NEW start, NEW m \in Nat, NEW f, IsFold(f, e, start, m)
    PROVE  \E g : IsFold(g, e, start, m + 1)
<1> DEFINE g == [s \in SUBSET (1..(m + 1)) |->
                   IF m + 1 \in s THEN Step(e, f[s \ {m + 1}], m + 1) ELSE f[s]]
<1>1. ASSUME NEW s \in SUBSET (1..(m + 1))
      PROVE  g[s] = IF s = {} THEN start ELSE Step(e, g[s \ {Max(s)}], Max(s))
  <2>1. CASE m + 1 \in s
    <3>1. Max(s) = m + 1
      BY <2>1, LastIsGreatest
    <3>2. s \ {m + 1} \in SUBSET (1..(m + 1)) /\ m + 1 \notin s \ {m + 1} /\ s # {}
      BY <2>1
    <3>3. g[s \ {m + 1}] = f[s \ {m + 1}]
      BY <3>2
    <3> QED BY <2>1, <3>1, <3>2, <3>3
  <2>2. CASE m + 1 \notin s
    <3>1. s \in SUBSET (1..m)
      <4>1. \A x \in 1..(m + 1) : x # m + 1 => x \in 1..m
        OBVIOUS
      <4> QED BY <2>2, <4>1
    <3>2. s \ {Max(s)} \in SUBSET (1..(m + 1)) /\ m + 1 \notin s \ {Max(s)}
      BY <2>2
    <3>3. g[s] = f[s] /\ g[s \ {Max(s)}] = f[s \ {Max(s)}]
      BY <2>2, <3>2
    <3>4. f[s] = IF s = {} THEN start ELSE Step(e, f[s \ {Max(s)}], Max(s))
      BY <3>1 DEF IsFold
    <3> QED BY <3>3, <3>4
  <2> QED BY <2>1, <2>2
<1>2. IsFold(g, e, start, m + 1)
  BY <1>1 DEF IsFold
<1> QED BY <1>2

\* For every number of indices there is one.
LEMMA FoldExists ==
    ASSUME NEW e, NEW start
    PROVE  \A m \in Nat : \E f : IsFold(f, e, start, m)
<1> DEFINE T == {m \in Nat : ~\E f : IsFold(f, e, start, m)}
<1>1. SUFFICES ASSUME T # {} PROVE FALSE
  OBVIOUS
<1>2. PICK m \in T : \A y \in T : m <= y
  BY <1>1, Least
<1>3. m \in Nat /\ m # 0
  BY FoldStarts
<1>4. m - 1 \in Nat /\ ~(m <= m - 1) /\ m - 1 + 1 = m
  BY <1>3
<1>5. PICK f : IsFold(f, e, start, m - 1)
  BY <1>2, <1>4
<1>6. \E g : IsFold(g, e, start, m)
  BY <1>4, <1>5, FoldExtends
<1> QED BY <1>2, <1>6

\* One step of it.
LEMMA FoldBegins ==
    ASSUME NEW e, NEW start, NEW m \in Nat, NEW f, IsFold(f, e, start, m)
    PROVE  f[{}] = start
BY DEF IsFold

\* What a fold over k + 1 indices makes of one over k.
LEMMA FoldUnfolds ==
    ASSUME NEW e, NEW start, NEW m \in Nat, NEW f, IsFold(f, e, start, m), NEW k \in 1..m
    PROVE  f[1..k] = Step(e, f[1..(k - 1)], k)
<1>1. /\ 1..k \in SUBSET (1..m) /\ 1..k # {} /\ k \in Nat /\ k \in 1..k
      /\ (1..k) \ {k} = 1..(k - 1)
  OBVIOUS
<1>2. Max(1..k) = k
  BY <1>1, LastIsGreatest
<1>3. f[1..k] = Step(e, f[(1..k) \ {Max(1..k)}], Max(1..k))
  BY <1>1 DEF IsFold
<1> QED BY <1>1, <1>2, <1>3

\* Two of them agree on the indices both have.
LEMMA FoldsAgree ==
    ASSUME NEW e, NEW start, NEW m \in Nat, NEW n \in Nat, m <= n,
           NEW f, IsFold(f, e, start, m), NEW g, IsFold(g, e, start, n)
    PROVE  f[1..m] = g[1..m]
<1> DEFINE T == {k \in 0..m : f[1..k] # g[1..k]}
<1>1. SUFFICES ASSUME T # {} PROVE FALSE
  OBVIOUS
<1>2. PICK k \in T : \A y \in T : k <= y
  <2>1. T \in SUBSET Nat
    OBVIOUS
  <2> QED BY <1>1, <2>1, Least
<1>3. k # 0
  <2>1. f[1..0] = start /\ g[1..0] = start
    <3>1. 1..0 = {}
      OBVIOUS
    <3> QED BY <3>1, FoldBegins
  <2> QED BY <2>1
<1>4. k \in 1..m /\ k \in 1..n /\ k - 1 \in 0..m /\ ~(k <= k - 1)
  BY <1>3
<1>5. f[1..(k - 1)] = g[1..(k - 1)]
  BY <1>2, <1>4
<1>6. f[1..k] = Step(e, f[1..(k - 1)], k) /\ g[1..k] = Step(e, g[1..(k - 1)], k)
  BY <1>4, FoldUnfolds
<1> QED BY <1>5, <1>6

\* The community modules' fold over 1..k takes one step after the other.
LEMMA FoldIs ==
    ASSUME NEW e, NEW start, NEW m \in Nat
    PROVE  \E f : IsFold(f, e, start, m) /\ Folded(e, start, m) = f[1..m]
<1> DEFINE f == CHOOSE h : IsFold(h, e, start, m)
<1>1. IsFold(f, e, start, m)
  BY FoldExists
<1>2. DOMAIN [i \in 1..m |-> i] = 1..m
  OBVIOUS
<1> DEFINE IsFoldOf(h) == h = [s \in SUBSET (1..m) |->
                                IF s = {} THEN start ELSE Step(e, h[s \ {Max(s)}], [i \in 1..m |-> i][Max(s)])]
<1>3. ASSUME NEW s \in SUBSET (1..m), s # {} PROVE [i \in 1..m |-> i][Max(s)] = Max(s)
  <2>1. IsFiniteSet(1..m) /\ 1..m \in SUBSET Int
    BY FS_Interval
  <2>2. s \in SUBSET Int /\ IsFiniteSet(s) /\ s # {}
    BY <1>3, <2>1, FS_Subset
  <2>3. Max(s) \in s
    BY <2>2, GreatestExists DEF Max
  <2> QED BY <2>3
<1>4. \A h : IsFoldOf(h) <=> IsFold(h, e, start, m)
  BY <1>3 DEF IsFold
<1>5. f = CHOOSE h : IsFoldOf(h)
  BY <1>4
<1>6. Folded(e, start, m) = (CHOOSE h : IsFoldOf(h))[1..m]
  BY <1>2 DEF Folded, FoldLeft, MapThenFoldSet
<1> QED BY <1>1, <1>5, <1>6

\* A fold over no index is its start; one over an index more takes one more step.
LEMMA FoldNext ==
    ASSUME NEW e, NEW start
    PROVE  /\ Folded(e, start, 0) = start
           /\ \A k \in Nat : Folded(e, start, k + 1) = Step(e, Folded(e, start, k), k + 1)
<1>1. Folded(e, start, 0) = start
  <2>1. PICK f : IsFold(f, e, start, 0) /\ Folded(e, start, 0) = f[1..0]
    BY FoldIs
  <2>2. 1..0 = {}
    OBVIOUS
  <2> QED BY <2>1, <2>2, FoldBegins
<1>2. ASSUME NEW k \in Nat
      PROVE  Folded(e, start, k + 1) = Step(e, Folded(e, start, k), k + 1)
  <2>1. PICK f : IsFold(f, e, start, k) /\ Folded(e, start, k) = f[1..k]
    BY FoldIs
  <2>2. PICK g : IsFold(g, e, start, k + 1) /\ Folded(e, start, k + 1) = g[1..(k + 1)]
    BY FoldIs
  <2>3. f[1..k] = g[1..k]
    BY <2>1, <2>2, FoldsAgree
  <2>4. k + 1 \in Nat /\ k + 1 \in 1..(k + 1) /\ k + 1 - 1 = k
    OBVIOUS
  <2>5. g[1..(k + 1)] = Step(e, g[1..(k + 1 - 1)], k + 1)
    <3> DEFINE m == k + 1
    <3>1. m \in Nat /\ m \in 1..m /\ IsFold(g, e, start, m)
      BY <2>2, <2>4
    <3> HIDE DEF m
    <3>2. g[1..m] = Step(e, g[1..(m - 1)], m)
      BY <3>1, FoldUnfolds
    <3> QED BY <3>2 DEF m
  <2> QED BY <2>1, <2>2, <2>3, <2>4, <2>5
<1> QED BY <1>1, <1>2

-----------------------------------------------------------------------------
(* Sums *)

Pick(s) == CHOOSE x \in s : TRUE

\* The function by which a sum is defined.
IsSum(g, f, D) == g = [s \in D |-> IF s = {} THEN 0 ELSE f[Pick(s)] + g[s \ {Pick(s)}]]
UpTo(S, m) == {s \in SUBSET S : Cardinality(s) <= m}

\* What is known of the size of a subset, and of it without its pick.
Sized(S) == \A s \in SUBSET S :
    /\ IsFiniteSet(s) /\ Cardinality(s) \in Nat /\ Cardinality(s) <= Cardinality(S)
    /\ Cardinality(s) = 0 <=> s = {}
    /\ s # {} => /\ Pick(s) \in s /\ s \ {Pick(s)} \in SUBSET S
                 /\ Cardinality(s \ {Pick(s)}) = Cardinality(s) - 1

\* A finite set has a size.
LEMMA FiniteSized == ASSUME NEW S, IsFiniteSet(S) PROVE Sized(S)
<1> SUFFICES ASSUME NEW s \in SUBSET S
             PROVE  /\ IsFiniteSet(s) /\ Cardinality(s) \in Nat /\ Cardinality(s) <= Cardinality(S)
                    /\ Cardinality(s) = 0 <=> s = {}
                    /\ s # {} => /\ Pick(s) \in s /\ s \ {Pick(s)} \in SUBSET S
                                 /\ Cardinality(s \ {Pick(s)}) = Cardinality(s) - 1
  BY DEF Sized
<1>1. IsFiniteSet(s) /\ Cardinality(s) \in Nat /\ Cardinality(s) <= Cardinality(S)
  BY FS_CardinalityType, FS_Subset
<1>2. Cardinality(s) = 0 <=> s = {}
  BY <1>1, FS_EmptySet
<1>3. s # {} => Pick(s) \in s
  BY DEF Pick
<1>4. s # {} => Cardinality(s \ {Pick(s)}) = Cardinality(s) - 1
  BY <1>1, <1>3, FS_RemoveElement
<1> QED BY <1>1, <1>2, <1>3, <1>4

\* A sum over a set extends to one with a further member.
LEMMA SumExtends ==
    ASSUME NEW S, IsFiniteSet(S), NEW f, NEW m \in Nat, NEW g, IsSum(g, f, UpTo(S, m))
    PROVE  \E h : IsSum(h, f, UpTo(S, m + 1))
<1> DEFINE h == [s \in UpTo(S, m + 1) |->
                   IF Cardinality(s) = m + 1 THEN f[Pick(s)] + g[s \ {Pick(s)}] ELSE g[s]]
<1>1. ASSUME NEW s \in UpTo(S, m + 1)
      PROVE  h[s] = IF s = {} THEN 0 ELSE f[Pick(s)] + h[s \ {Pick(s)}]
  <2>1. s \in SUBSET S /\ Cardinality(s) <= m + 1 /\ Cardinality(s) \in Nat
        /\ (Cardinality(s) = 0 <=> s = {})
    BY FiniteSized DEF UpTo, Sized
  <2>2. s # {} => s \ {Pick(s)} \in UpTo(S, m) /\ s \ {Pick(s)} \in UpTo(S, m + 1)
                  /\ Cardinality(s \ {Pick(s)}) # m + 1
    <3> SUFFICES ASSUME s # {} PROVE
            LET t == s \ {Pick(s)} IN t \in UpTo(S, m) /\ t \in UpTo(S, m + 1) /\ Cardinality(t) # m + 1
      OBVIOUS
    <3> DEFINE t == s \ {Pick(s)}
    <3>1. t \in SUBSET S /\ Cardinality(t) = Cardinality(s) - 1
      BY <2>1, FiniteSized DEF Sized
    <3> HIDE DEF t
    <3>2. Cardinality(t) <= m /\ Cardinality(t) <= m + 1 /\ Cardinality(t) # m + 1
      BY <2>1, <3>1
    <3> QED BY <3>1, <3>2 DEF UpTo, t
  <2>3. s # {} => h[s \ {Pick(s)}] = g[s \ {Pick(s)}]
    BY <2>2
  <2>4. CASE Cardinality(s) = m + 1
    <3>1. s # {}
      BY <2>1, <2>4
    <3> QED BY <2>3, <2>4, <3>1
  <2>5. CASE Cardinality(s) # m + 1
    <3>1. Cardinality(s) <= m
      <4> DEFINE c == Cardinality(s)
      <4>1. c \in Nat /\ c <= m + 1 /\ c # m + 1
        BY <2>1, <2>5
      <4> HIDE DEF c
      <4>2. c <= m
        BY <4>1
      <4> QED BY <4>2 DEF c
    <3>2. g[s] = IF s = {} THEN 0 ELSE f[Pick(s)] + g[s \ {Pick(s)}]
      <4>1. s \in UpTo(S, m)
        BY <2>1, <3>1 DEF UpTo
      <4> QED BY <4>1 DEF IsSum
    <3> QED BY <3>2, <2>3, <2>5
  <2> QED BY <2>4, <2>5
<1>2. IsSum(h, f, UpTo(S, m + 1))
  BY <1>1 DEF IsSum
<1> QED BY <1>2

\* Every finite set has a sum.
LEMMA SumExists ==
    ASSUME NEW S, IsFiniteSet(S), NEW f
    PROVE  \E g : IsSum(g, f, SUBSET S)
<1> DEFINE T == {m \in Nat : ~\E g : IsSum(g, f, UpTo(S, m))}
<1>1. T = {}
  <2>1. SUFFICES ASSUME T # {} PROVE FALSE
    OBVIOUS
  <2>2. PICK m \in T : \A y \in T : m <= y
    BY <2>1, Least
  <2>3. m # 0
    <3>1. UpTo(S, 0) = {{}}
      <4>1. \A s \in SUBSET S : Cardinality(s) <= 0 <=> s = {}
        <5>1. TAKE s \in SUBSET S
        <5>2. Cardinality(s) \in Nat /\ (Cardinality(s) = 0 <=> s = {})
          BY FiniteSized DEF Sized
        <5>3. Cardinality(s) <= 0 <=> Cardinality(s) = 0
          BY <5>2
        <5> QED BY <5>2, <5>3
      <4> QED BY <4>1 DEF UpTo
    <3>2. IsSum([s \in UpTo(S, 0) |-> 0], f, UpTo(S, 0))
      BY <3>1 DEF IsSum
    <3> QED BY <3>2
  <2>4. m - 1 \in Nat /\ ~(m <= m - 1) /\ m - 1 + 1 = m
    BY <2>3
  <2>5. PICK g : IsSum(g, f, UpTo(S, m - 1))
    BY <2>2, <2>4
  <2>6. \E h : IsSum(h, f, UpTo(S, m))
    BY <2>4, <2>5, SumExtends
  <2> QED BY <2>2, <2>6
<1>2. Cardinality(S) \in Nat
  BY FS_CardinalityType
<1>3. \A s \in SUBSET S : Cardinality(s) <= Cardinality(S)
  BY FiniteSized DEF Sized
<1>4. UpTo(S, Cardinality(S)) = SUBSET S
  BY <1>3 DEF UpTo
<1>5. \E g : IsSum(g, f, UpTo(S, Cardinality(S)))
  BY <1>1, <1>2
<1> QED BY <1>4, <1>5

\* Two of them agree on the sets both have.
LEMMA SumsAgree ==
    ASSUME NEW S, NEW T, NEW f, NEW g, NEW h,
           IsFiniteSet(S), T \subseteq S, IsSum(g, f, SUBSET S), IsSum(h, f, SUBSET T)
    PROVE  g[T] = h[T]
<1> DEFINE D == {n \in Nat : \E s \in SUBSET T : Cardinality(s) = n /\ g[s] # h[s]}
<1>1. D = {}
  <2>1. SUFFICES ASSUME D # {} PROVE FALSE
    OBVIOUS
  <2>2. PICK n \in D : \A y \in D : n <= y
    BY <2>1, Least
  <2>3. PICK s \in SUBSET T : Cardinality(s) = n /\ g[s] # h[s]
    OBVIOUS
  <2>4. s \in SUBSET S
    OBVIOUS
  <2>5. g[s] = (IF s = {} THEN 0 ELSE f[Pick(s)] + g[s \ {Pick(s)}])
        /\ h[s] = (IF s = {} THEN 0 ELSE f[Pick(s)] + h[s \ {Pick(s)}])
    BY <2>4 DEF IsSum
  <2>6. s # {} /\ g[s \ {Pick(s)}] # h[s \ {Pick(s)}]
    BY <2>3, <2>5
  <2>7. s \ {Pick(s)} \in SUBSET T /\ Cardinality(s \ {Pick(s)}) = n - 1 /\ n - 1 \in Nat
    <3>1. Cardinality(s \ {Pick(s)}) = n - 1 /\ Pick(s) \in s /\ s \ {Pick(s)} \in SUBSET S
      BY <2>3, <2>4, <2>6, FiniteSized DEF Sized
    <3>2. Cardinality(s \ {Pick(s)}) \in Nat
      BY <3>1, FiniteSized DEF Sized
    <3> QED BY <3>1, <3>2
  <2>8. n - 1 \in D
    BY <2>6, <2>7
  <2> QED BY <2>2, <2>8
<1>2. IsFiniteSet(T) /\ Cardinality(T) \in Nat
  BY FS_Subset, FS_CardinalityType
<1> QED BY <1>1, <1>2

\* The sum over a set is that of a member and of the rest, whichever is picked.
LEMMA SumPicks ==
    ASSUME NEW S, IsFiniteSet(S), NEW f
    PROVE  /\ Sum(f, {}) = 0
           /\ S # {} => Sum(f, S) = f[Pick(S)] + Sum(f, S \ {Pick(S)})
<1>1. \A s : IsFiniteSet(s) => \E g : IsSum(g, f, SUBSET s) /\ Sum(f, s) = g[s]
  <2>1. TAKE s
  <2>2. HAVE IsFiniteSet(s)
  <2>3. Sum(f, s) = (CHOOSE g : IsSum(g, f, SUBSET s))[s]
    BY DEF Sum, MapThenSumSet, MapThenFoldSet, IsSum, Pick
  <2>4. IsSum(CHOOSE g : IsSum(g, f, SUBSET s), f, SUBSET s)
    BY <2>2, SumExists
  <2> QED BY <2>3, <2>4
<1>2. Sum(f, {}) = 0
  <2>1. PICK g : IsSum(g, f, SUBSET {}) /\ Sum(f, {}) = g[{}]
    BY <1>1, FS_EmptySet
  <2> QED BY <2>1 DEF IsSum
<1>3. ASSUME S # {} PROVE Sum(f, S) = f[Pick(S)] + Sum(f, S \ {Pick(S)})
  <2> DEFINE T == S \ {Pick(S)}
  <2>1. T \in SUBSET S /\ IsFiniteSet(T)
    BY FS_Subset
  <2>2. PICK g : IsSum(g, f, SUBSET S) /\ Sum(f, S) = g[S]
    BY <1>1
  <2>3. PICK h : IsSum(h, f, SUBSET T) /\ Sum(f, T) = h[T]
    BY <1>1, <2>1
  <2>4. g[S] = f[Pick(S)] + g[T]
    BY <1>3, <2>2 DEF IsSum
  <2>5. ASSUME NEW t, t \subseteq S, IsSum(h, f, SUBSET t) PROVE g[t] = h[t]
    <3>1. IsSum(g, f, SUBSET S) 
      BY <2>2
    <3> QED BY <2>5, <3>1, SumsAgree
  <2>6. g[T] = h[T]
    BY <2>3, <2>5
  <2> QED BY <2>2, <2>3, <2>4, <2>6
<1> QED BY <1>2, <1>3

\* Sums of whole numbers are whole numbers, and any member may be split off.
LEMMA SumSplits ==
    ASSUME NEW f, NEW A, \A x \in A : f[x] \in Int
    PROVE  \A S \in SUBSET A : IsFiniteSet(S) =>
               Sum(f, S) \in Int /\ \A x \in S : Sum(f, S) = f[x] + Sum(f, S \ {x})
<1> DEFINE Splits(S) == Sum(f, S) \in Int /\ \A x \in S : Sum(f, S) = f[x] + Sum(f, S \ {x})
           D == {n \in Nat : \E S \in SUBSET A : IsFiniteSet(S) /\ Cardinality(S) = n /\ ~Splits(S)}
<1>1. D = {}
  <2>1. SUFFICES ASSUME D # {} PROVE FALSE
    OBVIOUS
  <2>2. PICK n \in D : \A y \in D : n <= y
    BY <2>1, Least
  <2>3. PICK S \in SUBSET A : IsFiniteSet(S) /\ Cardinality(S) = n /\ ~Splits(S)
    OBVIOUS
  <2>4. n \in Nat
    OBVIOUS
  <2>5. \A T \in SUBSET A : IsFiniteSet(T) /\ Cardinality(T) = n - 1 /\ n - 1 \in Nat => Splits(T)
    BY <2>2, <2>4
  <2> HIDE DEF D
  <2>6. S # {}
    <3>1. Splits({})
      <4>1. Sum(f, {}) = 0
        BY SumPicks, FS_EmptySet
      <4> QED BY <4>1
    <3> QED BY <2>3, <3>1
  <2>7. \A x \in S : /\ S \ {x} \in SUBSET A /\ IsFiniteSet(S \ {x})
                     /\ Cardinality(S \ {x}) = n - 1 /\ n - 1 \in Nat
    <3>1. TAKE x \in S
    <3>2. IsFiniteSet(S \ {x}) /\ Cardinality(S \ {x}) = n - 1
      BY <2>3, FS_RemoveElement
    <3>3. Cardinality(S \ {x}) \in Nat
      BY <3>2, FS_CardinalityType
    <3> QED BY <3>2, <3>3
  <2>8. \A x \in S : Splits(S \ {x})
    BY <2>5, <2>7
  <2> DEFINE p == Pick(S)
  <2>9. p \in S /\ Sum(f, S) = f[p] + Sum(f, S \ {p})
    BY <2>3, <2>6, SumPicks DEF Pick
  <2> HIDE DEF p
  <2>10. Sum(f, S) \in Int
    BY <2>8, <2>9
  <2>11. ASSUME NEW x \in S, x # p PROVE Sum(f, S) = f[x] + Sum(f, S \ {x})
    <3>1. x \in S \ {p} /\ p \in S \ {x} /\ (S \ {p}) \ {x} = (S \ {x}) \ {p}
      BY <2>9, <2>11
    <3>2. Sum(f, S \ {p}) = f[x] + Sum(f, (S \ {p}) \ {x}) /\ Sum(f, S \ {x}) = f[p] + Sum(f, (S \ {x}) \ {p})
      BY <2>8, <2>9, <3>1
    <3>3. Sum(f, (S \ {p}) \ {x}) \in Int
      <4>1. Cardinality((S \ {p}) \ {x}) = n - 2 /\ n - 2 \in Nat /\ IsFiniteSet((S \ {p}) \ {x})
        <5>1. IsFiniteSet(S \ {p}) /\ Cardinality(S \ {p}) = n - 1
          BY <2>7, <2>9
        <5>2. IsFiniteSet((S \ {p}) \ {x}) /\ Cardinality((S \ {p}) \ {x}) = n - 1 - 1
          <6> DEFINE R == S \ {p}
          <6>1. IsFiniteSet(R) /\ Cardinality(R) = n - 1 /\ x \in R
            BY <3>1, <5>1
          <6> HIDE DEF R
          <6>2. IsFiniteSet(R \ {x}) /\ Cardinality(R \ {x}) = n - 1 - 1
            BY <6>1, FS_RemoveElement
          <6> QED BY <6>2 DEF R
        <5>3. Cardinality((S \ {p}) \ {x}) \in Nat
          BY <5>2, FS_CardinalityType
        <5> QED BY <2>4, <5>2, <5>3
      <4>2. n - 2 \notin D
        BY <2>2, <2>4, <4>1
      <4> QED BY <4>1, <4>2 DEF D
    <3>4. f[x] \in Int /\ f[p] \in Int
      BY <2>9
    <3> DEFINE rest == Sum(f, (S \ {p}) \ {x})
    <3>5. Sum(f, S) = f[p] + (f[x] + rest) /\ Sum(f, S \ {x}) = f[p] + rest
      BY <2>9, <3>1, <3>2
    <3>6. rest \in Int
      BY <3>3
    <3> HIDE DEF rest
    <3> QED BY <3>4, <3>5, <3>6
  <2> QED BY <2>3, <2>9, <2>10, <2>11
<1>2. \A S : IsFiniteSet(S) => Cardinality(S) \in Nat
  BY FS_CardinalityType
<1> QED BY <1>1, <1>2

\* Sums of natural numbers are natural, and grow with the set.
LEMMA SumNatural ==
    ASSUME NEW f, NEW A, \A x \in A : f[x] \in Nat
    PROVE  \A S \in SUBSET A : IsFiniteSet(S) => Sum(f, S) \in Nat
<1> DEFINE D == {n \in Nat : \E S \in SUBSET A : IsFiniteSet(S) /\ Cardinality(S) = n /\ Sum(f, S) \notin Nat}
<1>1. D = {}
  <2>1. SUFFICES ASSUME D # {} PROVE FALSE
    OBVIOUS
  <2>2. PICK n \in D : \A y \in D : n <= y
    BY <2>1, Least
  <2>3. PICK S \in SUBSET A : IsFiniteSet(S) /\ Cardinality(S) = n /\ Sum(f, S) \notin Nat
    OBVIOUS
  <2>4. PICK x \in S : TRUE
    <3>1. Sum(f, {}) = 0
      BY SumPicks, FS_EmptySet
    <3> QED BY <2>3, <3>1
  <2>5. IsFiniteSet(S \ {x}) /\ Cardinality(S \ {x}) = n - 1 /\ Cardinality(S \ {x}) \in Nat
    BY <2>3, FS_RemoveElement, FS_CardinalityType
  <2>6. n - 1 \in Nat /\ ~(n <= n - 1)
    BY <2>5
  <2>7. Sum(f, S \ {x}) \in Nat
    BY <2>2, <2>5, <2>6
  <2>8. Sum(f, S) = f[x] + Sum(f, S \ {x})
    <3>1. \A y \in A : f[y] \in Int
      OBVIOUS
    <3>2. \A R \in SUBSET A : IsFiniteSet(R) =>
              Sum(f, R) \in Int /\ \A y \in R : Sum(f, R) = f[y] + Sum(f, R \ {y})
      BY <3>1, SumSplits, Zenon
    <3> QED BY <2>3, <3>2
  <2> QED BY <2>3, <2>7, <2>8
<1>2. \A S : IsFiniteSet(S) => Cardinality(S) \in Nat
  BY FS_CardinalityType
<1> QED BY <1>1, <1>2

\* A sum of natural numbers over more is not less.
LEMMA SumGrows ==
    ASSUME NEW f, NEW A, \A x \in A : f[x] \in Nat
    PROVE  \A S, T \in SUBSET A : IsFiniteSet(T) /\ S \subseteq T => Sum(f, S) <= Sum(f, T)
<1>0. \A R \in SUBSET A : IsFiniteSet(R) =>
          Sum(f, R) \in Int /\ \A y \in R : Sum(f, R) = f[y] + Sum(f, R \ {y})
  <2>1. \A y \in A : f[y] \in Int
    OBVIOUS
  <2> QED BY <2>1, SumSplits, ZenonT(30)
<1> DEFINE Less(S, T) == IsFiniteSet(T) /\ S \subseteq T /\ ~(Sum(f, S) <= Sum(f, T))
           D == {n \in Nat : \E S, T \in SUBSET A : Less(S, T) /\ Cardinality(T) = n}
<1>1. D = {}
  <2>1. SUFFICES ASSUME D # {} PROVE FALSE
    OBVIOUS
  <2>2. PICK n \in D : \A y \in D : n <= y
    BY <2>1, Least
  <2>3. PICK S \in SUBSET A, T \in SUBSET A : Less(S, T) /\ Cardinality(T) = n
    OBVIOUS
  <2>4. Sum(f, S) \in Nat /\ Sum(f, T) \in Nat
    BY <2>3, FS_Subset, SumNatural
  <2>5. PICK x \in T : x \notin S
    BY <2>3, <2>4
  <2>6. IsFiniteSet(T \ {x}) /\ Cardinality(T \ {x}) = n - 1 /\ Cardinality(T \ {x}) \in Nat
    BY <2>3, FS_RemoveElement, FS_CardinalityType
  <2>7. n - 1 \in Nat /\ ~(n <= n - 1)
    BY <2>6
  <2>8. Sum(f, S) <= Sum(f, T \ {x})
    <3>1. S \in SUBSET A /\ T \ {x} \in SUBSET A /\ S \subseteq T \ {x}
      BY <2>3, <2>5
    <3> QED BY <2>2, <2>6, <2>7, <3>1
  <2>9. Sum(f, T) = f[x] + Sum(f, T \ {x})
    BY <1>0, <2>3
  <2>10. Sum(f, T \ {x}) \in Nat /\ f[x] \in Nat
    BY <2>6, SumNatural
  <2> QED BY <2>3, <2>4, <2>8, <2>9, <2>10
<1>2. \A S : IsFiniteSet(S) => Cardinality(S) \in Nat
  BY FS_CardinalityType
<1> QED BY <1>1, <1>2
=============================================================================
