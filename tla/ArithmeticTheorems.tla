------------------------- MODULE ArithmeticTheorems -------------------------
(* Facts about numbers that several proofs need: division by a period, and *)
(* sums over finite sets, Functions' SumFunctionOnSet and FiniteSetsExt's  *)
(* MapThenSumSet, which fold a set in the order of CHOOSE.  The library's  *)
(* induction takes operators; here a set of counterexamples has a minimal  *)
(* element instead.                                                        *)
EXTENDS Integers, FiniteSets, FiniteSetsExt, Functions,
        FiniteSetTheorems, WellFoundedInduction, TLAPS

-----------------------------------------------------------------------------
(* Division.                                                               *)

LEMMA ModRange ==
  ASSUME NEW x \in Int, NEW m \in Nat \ {0}
  PROVE  x % m \in 0 .. m - 1
  OBVIOUS

LEMMA DivMod ==
  ASSUME NEW x \in Int, NEW m \in Nat \ {0}
  PROVE  x \div m \in Int /\ x = m * (x \div m) + (x % m)
  OBVIOUS

LEMMA Scaled ==
  ASSUME NEW m \in Nat \ {0}, NEW a \in Int, NEW b \in Int, a <= b
  PROVE  m * a \in Int /\ m * a <= m * b
  OBVIOUS

LEMMA ScaledBack ==
  ASSUME NEW m \in Nat \ {0}, NEW a \in Int
  PROVE  m * a \in Int /\ m * (a - 1) = m * a - m
  OBVIOUS

LEMMA DivMonotone ==
  ASSUME NEW m \in Nat \ {0}, NEW x \in Int, NEW y \in Int, x <= y
  PROVE  x \div m <= y \div m
<1>1. SUFFICES ASSUME x \div m > y \div m PROVE FALSE
  BY DivMod
<1> DEFINE a == x \div m
           b == y \div m
<1>2. a \in Int /\ b \in Int /\ b <= a - 1
  BY <1>1, DivMod
<1>3. x = m * a + (x % m) /\ y = m * b + (y % m)
  BY DivMod
<1>4. x % m \in 0 .. m - 1 /\ y % m \in 0 .. m - 1
  BY ModRange
<1> HIDE DEF a, b
<1>5. m * b <= m * (a - 1) /\ m * (a - 1) = m * a - m /\ m * a \in Int /\ m * b \in Int
  BY <1>2, Scaled, ScaledBack
<1> QED  BY <1>3, <1>4, <1>5

LEMMA TimesAtLeast ==
  ASSUME NEW m \in Nat \ {0}, NEW d \in Nat
  PROVE  m * d \in Nat /\ d <= m * d
  OBVIOUS

LEMMA DivAtMost ==
  ASSUME NEW m \in Nat \ {0}, NEW x \in Nat
  PROVE  x \div m \in 0 .. x
<1> DEFINE d == x \div m
<1>1. d \in Int /\ x = m * d + (x % m)
  BY DivMod
<1>2. x % m \in 0 .. m - 1
  BY ModRange
<1> HIDE DEF d
<1>3. ASSUME d < 0 PROVE FALSE
  <2>1. m * d <= m * (0 - 1) /\ m * (0 - 1) = m * 0 - m /\ m * d \in Int
    BY <1>1, <1>3, Scaled, ScaledBack
  <2> QED  BY <1>1, <1>2, <2>1
<1>4. d \in Nat /\ m * d \in Nat /\ d <= m * d
  BY <1>1, <1>3, TimesAtLeast
<1> PICK e : e = m * d
  OBVIOUS
<1>5. d <= x
  BY <1>1, <1>2, <1>4
<1> QED  BY <1>4, <1>5 DEF d

LEMMA DivIs ==
  ASSUME NEW m \in Nat \ {0}, NEW a \in Int, NEW y \in Int, m * a <= y, y < m * (a + 1)
  PROVE  y \div m = a
<1> DEFINE d == y \div m
<1>1. d \in Int /\ y = m * d + (y % m) /\ y % m \in 0 .. m - 1
  BY DivMod, ModRange
<1> HIDE DEF d
<1>2. ASSUME d <= a - 1 PROVE FALSE
  <2>1. m * d <= m * (a - 1) /\ m * (a - 1) = m * a - m /\ m * d \in Int /\ m * a \in Int
    BY <1>1, <1>2, Scaled, ScaledBack
  <2> QED  BY <1>1, <2>1
<1>3. ASSUME a + 1 <= d PROVE FALSE
  <2>1. m * (a + 1) <= m * d /\ m * (a + 1) \in Int /\ m * d \in Int
    BY <1>1, <1>3, Scaled
  <2> QED  BY <1>1, <2>1
<1> QED  BY <1>1, <1>2, <1>3 DEF d

(* Where one period lies in the other, the beginning of a time's inner     *)
(* period is in the time's outer period.                                   *)
LEMMA NestedDiv ==
  ASSUME NEW p \in Nat \ {0}, NEW q \in Nat \ {0}, p % q = 0, NEW x \in Nat
  PROVE  ((x \div q) * q) \div p = x \div p
<1> DEFINE i == x \div q
           o == x \div p
           k == p \div q
<1>1. i \in Int /\ x = q * i + (x % q) /\ x % q \in 0 .. q - 1
  BY DivMod, ModRange
<1>2. o \in Int /\ x = p * o + (x % p) /\ x % p \in 0 .. p - 1
  BY DivMod, ModRange
<1>3. k \in Int /\ p = q * k
  BY DivMod
<1> HIDE DEF i, o, k
<1> PICK b : b = k * o
  OBVIOUS
<1>4. b \in Int /\ p * o = q * b
  <2>1. (q * k) * o = q * (k * o)
    BY <1>2, <1>3
  <2> QED  BY <1>2, <1>3, <2>1
<1>5. ASSUME i <= b - 1 PROVE FALSE
  <2>1. q * i <= q * (b - 1) /\ q * (b - 1) = q * b - q /\ q * i \in Int /\ q * b \in Int
    BY <1>1, <1>4, <1>5, Scaled, ScaledBack
  <2> QED  BY <1>1, <1>2, <1>4, <2>1
<1>6. q * b <= q * i /\ q * i \in Int /\ q * b \in Int
  BY <1>1, <1>4, <1>5, Scaled
<1>7. p * (o + 1) = p * o + p /\ p * o \in Int
  BY <1>2
<1>8. q * i <= x
  BY <1>1, <1>6
<1>9. p * o <= q * i /\ q * i < p * (o + 1)
  BY <1>2, <1>4, <1>6, <1>7, <1>8
<1>10. (q * i) \div p = o
  BY <1>2, <1>6, <1>9, DivIs
<1>11. i * q = q * i
  BY <1>1
<1> QED  BY <1>10, <1>11 DEF i, o

-----------------------------------------------------------------------------
(* Minimal counterexamples.                                                *)

LEMMA LeastNumber ==
  ASSUME NEW T, T \subseteq Nat, T # {}
  PROVE  \E n \in T : \A m \in T : n <= m
<1> DEFINE R == {ss \in Nat \X Nat : ss[1] < ss[2]}
<1>1. OpToRel(<, Nat) = R
  BY DEF OpToRel
<1>2. IsWellFoundedOn(R, Nat)
  BY <1>1, NatLessThanWellFounded
<1>3. \A x, y \in Nat : <<y, x>> \in R <=> y < x
  OBVIOUS
<1> HIDE DEF R
<1>4. PICK x \in T : \A y \in T : ~(<<y, x>> \in R)
  BY <1>2, WFMin
<1>5. x \in Nat /\ \A y \in T : y \in Nat /\ ~(y < x)
  BY <1>3, <1>4
<1> QED  BY <1>5

LEMMA MinimalSubset ==
  ASSUME NEW S, IsFiniteSet(S), NEW T, T \subseteq SUBSET S, T # {}
  PROVE  \E X \in T : \A Y \in T : Y \subseteq X => Y = X
<1>1. IsWellFoundedOn(StrictSubsetOrdering(S), SUBSET S)
  BY FS_StrictSubsetOrderingWellFounded, FS_FiniteSubsetsOfFinite
<1>2. PICK X \in T : \A Y \in T : ~(<<Y, X>> \in StrictSubsetOrdering(S))
  BY <1>1, WFMin
<1> QED  BY <1>2 DEF StrictSubsetOrdering

-----------------------------------------------------------------------------
(* The fold is well defined.                                               *)

Pick(s) == CHOOSE x \in s : TRUE

(* The sum as its recursion defines it, for all subsets of S.              *)
Iter(f, S) ==
  CHOOSE iter : iter = [s \in SUBSET S |->
                          IF s = {} THEN 0 ELSE f[Pick(s)] + iter[s \ {Pick(s)}]]

Obeys(iter, f, S) ==
  /\ iter \in [SUBSET S -> Int]
  /\ \A s \in SUBSET S : iter[s] = IF s = {} THEN 0 ELSE f[Pick(s)] + iter[s \ {Pick(s)}]

LEMMA PickIn == ASSUME NEW s, s # {} PROVE Pick(s) \in s
  BY DEF Pick

(* Two such functions agree where both are defined.                        *)
LEMMA ObeysUnique ==
  ASSUME NEW f, NEW S, NEW T, NEW U, IsFiniteSet(U), U \subseteq S, U \subseteq T,
         NEW g, NEW h, Obeys(g, f, S), Obeys(h, f, T)
  PROVE  \A s \in SUBSET U : g[s] = h[s]
<1> DEFINE Bad == {s \in SUBSET U : g[s] # h[s]}
<1>1. SUFFICES ASSUME Bad # {} PROVE FALSE
  OBVIOUS
<1>2. PICK X \in Bad : \A Y \in Bad : Y \subseteq X => Y = X
  <2>1. Bad \subseteq SUBSET U
    OBVIOUS
  <2> HIDE DEF Bad
  <2> QED  BY <1>1, <2>1, MinimalSubset
<1>3. X \in SUBSET U /\ X \in SUBSET S /\ X \in SUBSET T /\ g[X] # h[X]
  BY <1>2
<1>4. X # {}
  BY <1>3 DEF Obeys
<1> DEFINE Y == X \ {Pick(X)}
<1>5. Pick(X) \in X
  BY <1>4, PickIn
<1>6. Y \in SUBSET U /\ Y \subseteq X /\ Y # X
  BY <1>3, <1>5
<1>7. g[Y] = h[Y]
  BY <1>2, <1>6
<1>8. g[X] = f[Pick(X)] + g[Y] /\ h[X] = f[Pick(X)] + h[Y]
  BY <1>3, <1>4 DEF Obeys
<1> QED  BY <1>3, <1>7, <1>8

(* The sum over s alone.                                                   *)
SumOver(f, s) == (CHOOSE g : Obeys(g, f, s))[s]

LEMMA ObeysBelow ==
  ASSUME NEW f, NEW S, NEW T, T \subseteq S, NEW g, Obeys(g, f, S)
  PROVE  Obeys([s \in SUBSET T |-> g[s]], f, T)
<1> DEFINE h == [s \in SUBSET T |-> g[s]]
<1>1. h \in [SUBSET T -> Int]
  BY DEF Obeys
<1>2. ASSUME NEW s \in SUBSET T
      PROVE  h[s] = IF s = {} THEN 0 ELSE f[Pick(s)] + h[s \ {Pick(s)}]
  <2>1. s \in SUBSET S /\ s \ {Pick(s)} \in SUBSET T
    OBVIOUS
  <2>2. g[s] = IF s = {} THEN 0 ELSE f[Pick(s)] + g[s \ {Pick(s)}]
    BY <2>1 DEF Obeys
  <2>3. h[s] = g[s] /\ h[s \ {Pick(s)}] = g[s \ {Pick(s)}]
    BY <2>1
  <2> QED  BY <2>2, <2>3
<1> QED  BY <1>1, <1>2 DEF Obeys

LEMMA TotalOf ==
  ASSUME NEW f, NEW S, NEW T, IsFiniteSet(T), T \subseteq S, NEW g, Obeys(g, f, S)
  PROVE  SumOver(f, T) = g[T] /\ SumOver(f, T) \in Int
<1> DEFINE h == CHOOSE k : Obeys(k, f, T)
<1>1. Obeys(h, f, T)
  BY ObeysBelow
<1>2. h[T] = g[T]
  <2> HIDE DEF h
  <2>1. \A s \in SUBSET T : h[s] = g[s]
    BY <1>1, ObeysUnique
  <2>2. T \in SUBSET T
    OBVIOUS
  <2> QED  BY <2>1, <2>2
<1>3. h[T] \in Int
  <2> HIDE DEF h
  <2> QED  BY <1>1 DEF Obeys
<1> QED  BY <1>2, <1>3 DEF SumOver

LEMMA ObeysExists ==
  ASSUME NEW S, IsFiniteSet(S), NEW f, \A x \in S : f[x] \in Int
  PROVE  \A T \in SUBSET S : \E g : Obeys(g, f, T)
<1> DEFINE Bad == {T \in SUBSET S : ~\E g : Obeys(g, f, T)}
<1>1. SUFFICES ASSUME Bad # {} PROVE FALSE
  OBVIOUS
<1>2. PICK T \in Bad : \A Y \in Bad : Y \subseteq T => Y = T
  <2>1. Bad \subseteq SUBSET S
    OBVIOUS
  <2> HIDE DEF Bad
  <2> QED  BY <1>1, <2>1, MinimalSubset
<1>3. T \in SUBSET S /\ ~\E g : Obeys(g, f, T)
  BY <1>2
<1>4. \A Y \in SUBSET T : Y # T => \E g : Obeys(g, f, Y)
  BY <1>2, <1>3
<1> DEFINE g == [s \in SUBSET T |-> IF s = {} THEN 0 ELSE f[Pick(s)] + SumOver(f, s \ {Pick(s)})]
<1>5. ASSUME NEW s \in SUBSET T, s # {}
      PROVE  /\ Pick(s) \in S /\ f[Pick(s)] \in Int
             /\ s \ {Pick(s)} \in SUBSET T /\ s \ {Pick(s)} # T
             /\ SumOver(f, s \ {Pick(s)}) \in Int
  <2>1. Pick(s) \in s
    BY <1>5, PickIn
  <2>2. /\ Pick(s) \in S /\ f[Pick(s)] \in Int
        /\ s \ {Pick(s)} \in SUBSET T /\ s \ {Pick(s)} # T
    BY <1>3, <2>1
  <2>3. PICK h : Obeys(h, f, s \ {Pick(s)})
    BY <1>4, <2>2
  <2>4. IsFiniteSet(s \ {Pick(s)})
    BY <1>3, <2>2, FS_Subset
  <2> QED  BY <2>2, <2>3, <2>4, TotalOf
<1>6. g \in [SUBSET T -> Int]
  BY <1>5
<1>7. ASSUME NEW u \in SUBSET T, u # T PROVE g[u] = SumOver(f, u)
  <2>1. PICK h : Obeys(h, f, u)
    BY <1>4, <1>7
  <2>2. IsFiniteSet(u)
    BY <1>3, FS_Subset
  <2>3. SumOver(f, u) = h[u]
    BY <2>1, <2>2, TotalOf
  <2>4. h[u] = IF u = {} THEN 0 ELSE f[Pick(u)] + h[u \ {Pick(u)}]
    BY <2>1 DEF Obeys
  <2>5. ASSUME u # {} PROVE SumOver(f, u \ {Pick(u)}) = h[u \ {Pick(u)}]
    <3>1. IsFiniteSet(u \ {Pick(u)}) /\ u \ {Pick(u)} \subseteq u
      BY <2>2, FS_Subset
    <3> QED  BY <2>1, <3>1, TotalOf
  <2> QED  BY <2>3, <2>4, <2>5
<1>8. ASSUME NEW s \in SUBSET T
      PROVE  g[s] = IF s = {} THEN 0 ELSE f[Pick(s)] + g[s \ {Pick(s)}]
  <2>1. CASE s = {}
    BY <2>1
  <2>2. CASE s # {}
    <3>1. s \ {Pick(s)} \in SUBSET T /\ s \ {Pick(s)} # T
      BY <1>5, <2>2
    <3>2. g[s \ {Pick(s)}] = SumOver(f, s \ {Pick(s)})
      BY <1>7, <3>1
    <3> QED  BY <2>2, <3>2
  <2> QED  BY <2>1, <2>2
<1>9. Obeys(g, f, T)
  <2> HIDE DEF g
  <2> QED  BY <1>6, <1>8 DEF Obeys
<1> QED  BY <1>3, <1>9

LEMMA IterObeys ==
  ASSUME NEW S, IsFiniteSet(S), NEW f, \A x \in S : f[x] \in Int
  PROVE  Obeys(Iter(f, S), f, S)
<1>1. PICK g : Obeys(g, f, S)
  BY ObeysExists
<1>2. g = [s \in SUBSET S |-> IF s = {} THEN 0 ELSE f[Pick(s)] + g[s \ {Pick(s)}]]
  BY <1>1 DEF Obeys
<1> DEFINE iter == Iter(f, S)
<1>3. iter = [s \in SUBSET S |-> IF s = {} THEN 0 ELSE f[Pick(s)] + iter[s \ {Pick(s)}]]
  BY <1>2 DEF Iter
<1>4. \A s \in SUBSET S : iter[s] = IF s = {} THEN 0 ELSE f[Pick(s)] + iter[s \ {Pick(s)}]
  <2> HIDE DEF iter
  <2> QED  BY <1>3
<1> HIDE DEF iter
<1>5. iter \in [SUBSET S -> Int]
  <2> DEFINE Bad == {s \in SUBSET S : iter[s] \notin Int}
  <2>1. ASSUME Bad # {} PROVE FALSE
    <3>1. Bad \subseteq SUBSET S
      OBVIOUS
    <3>2. PICK X \in Bad : \A Y \in Bad : Y \subseteq X => Y = X
      <4> HIDE DEF Bad
      <4> QED  BY <2>1, <3>1, MinimalSubset
    <3>3. X \in SUBSET S /\ iter[X] \notin Int /\ X # {}
      <4>1. X \in SUBSET S /\ iter[X] \notin Int
        BY <3>2
      <4>2. iter[X] = IF X = {} THEN 0 ELSE f[Pick(X)] + iter[X \ {Pick(X)}]
        BY <1>4, <4>1
      <4> QED  BY <4>1, <4>2
    <3>4. Pick(X) \in X /\ f[Pick(X)] \in Int
      BY <3>3, PickIn
    <3>5. iter[X \ {Pick(X)}] \in Int
      BY <3>2, <3>3, <3>4
    <3>6. iter[X] = f[Pick(X)] + iter[X \ {Pick(X)}]
      BY <1>4, <3>3
    <3> QED  BY <3>3, <3>4, <3>5, <3>6
  <2>2. \A s \in SUBSET S : iter[s] \in Int
    BY <2>1
  <2> QED  BY <1>3, <2>2
<1> QED  BY <1>4, <1>5 DEF Obeys, iter

-----------------------------------------------------------------------------
(* The sums of the modules.                                                *)

LEMMA SumIsTotal ==
  ASSUME NEW S, IsFiniteSet(S), NEW f, \A x \in S : f[x] \in Int
  PROVE  /\ SumFunctionOnSet(f, S) = SumOver(f, S)
         /\ MapThenSumSet(LAMBDA x : f[x], S) = SumOver(f, S)
<1>1. Obeys(Iter(f, S), f, S)
  BY IterObeys
<1>2. SumOver(f, S) = Iter(f, S)[S]
  BY <1>1, TotalOf
<1>3. SumFunctionOnSet(f, S) = Iter(f, S)[S]
  BY DEF SumFunctionOnSet, FoldFunctionOnSet, MapThenFoldSet, Iter, Pick
<1>4. MapThenSumSet(LAMBDA x : f[x], S) = Iter(f, S)[S]
  BY DEF MapThenSumSet, MapThenFoldSet, Iter, Pick
<1> QED  BY <1>2, <1>3, <1>4

LEMMA TotalObeys ==
  ASSUME NEW S, IsFiniteSet(S), NEW f, \A x \in S : f[x] \in Int
  PROVE  \E g : Obeys(g, f, S) /\ \A T \in SUBSET S : g[T] = SumOver(f, T)
<1>1. Obeys(Iter(f, S), f, S)
  BY IterObeys
<1>2. \A T \in SUBSET S : IsFiniteSet(T)
  BY FS_Subset
<1> QED  BY <1>1, <1>2, TotalOf

LEMMA TotalRecursion ==
  ASSUME NEW S, IsFiniteSet(S), NEW f, \A x \in S : f[x] \in Int
  PROVE  /\ SumOver(f, {}) = 0 /\ SumOver(f, S) \in Int
         /\ \A T \in SUBSET S : T # {} =>
              Pick(T) \in T /\ SumOver(f, T) = f[Pick(T)] + SumOver(f, T \ {Pick(T)})
<1>1. PICK g : Obeys(g, f, S) /\ \A T \in SUBSET S : g[T] = SumOver(f, T)
  BY TotalObeys
<1>2. {} \in SUBSET S /\ S \in SUBSET S
  OBVIOUS
<1>3. ASSUME NEW T \in SUBSET S, T # {}
      PROVE  Pick(T) \in T /\ SumOver(f, T) = f[Pick(T)] + SumOver(f, T \ {Pick(T)})
  <2>1. T \ {Pick(T)} \in SUBSET S
    OBVIOUS
  <2>2. g[T] = f[Pick(T)] + g[T \ {Pick(T)}]
    BY <1>1, <1>3 DEF Obeys
  <2> QED  BY <1>1, <1>3, <2>1, <2>2, PickIn
<1>4. g[{}] = 0 /\ g[S] \in Int
  BY <1>1, <1>2 DEF Obeys
<1> QED  BY <1>1, <1>2, <1>3, <1>4

(* Any element may be taken out first.                                     *)
LEMMA TotalRemove ==
  ASSUME NEW S, IsFiniteSet(S), NEW f, \A x \in S : f[x] \in Int
  PROVE  \A T \in SUBSET S : \A x \in T : SumOver(f, T) = f[x] + SumOver(f, T \ {x})
<1> DEFINE Bad == {T \in SUBSET S : \E x \in T : SumOver(f, T) # f[x] + SumOver(f, T \ {x})}
<1>1. SUFFICES ASSUME Bad # {} PROVE FALSE
  OBVIOUS
<1>2. PICK T \in Bad : \A Y \in Bad : Y \subseteq T => Y = T
  <2>1. Bad \subseteq SUBSET S
    OBVIOUS
  <2> HIDE DEF Bad
  <2> QED  BY <1>1, <2>1, MinimalSubset
<1>3. T \in SUBSET S
  BY <1>2
<1>4. PICK x \in T : SumOver(f, T) # f[x] + SumOver(f, T \ {x})
  BY <1>2
<1> DEFINE p == Pick(T)
<1>5. p \in T /\ SumOver(f, T) = f[p] + SumOver(f, T \ {p})
  <2>1. \A U \in SUBSET S : U # {} =>
          Pick(U) \in U /\ SumOver(f, U) = f[Pick(U)] + SumOver(f, U \ {Pick(U)})
    BY TotalRecursion
  <2>2. T # {}
    BY <1>4
  <2> QED  BY <1>3, <2>1, <2>2
<1> HIDE DEF p
<1>6. x # p
  BY <1>4, <1>5
<1>7. \A Y \in SUBSET T : Y # T => \A y \in Y : SumOver(f, Y) = f[y] + SumOver(f, Y \ {y})
  BY <1>2, <1>3
<1>8. SumOver(f, T \ {p}) = f[x] + SumOver(f, (T \ {p}) \ {x})
  BY <1>4, <1>5, <1>6, <1>7
<1>9. SumOver(f, T \ {x}) = f[p] + SumOver(f, (T \ {x}) \ {p})
  BY <1>4, <1>5, <1>6, <1>7
<1>10. (T \ {p}) \ {x} = (T \ {x}) \ {p}
  OBVIOUS
<1>11. f[x] \in Int /\ f[p] \in Int /\ SumOver(f, (T \ {x}) \ {p}) \in Int
  <2>1. IsFiniteSet((T \ {x}) \ {p}) /\ (T \ {x}) \ {p} \subseteq S
    BY <1>3, FS_Subset
  <2> QED  BY <1>3, <1>4, <1>5, <2>1, TotalRecursion
<1> DEFINE rest == SumOver(f, (T \ {x}) \ {p})
           without == SumOver(f, T \ {x})
           whole == SumOver(f, T)
<1>12. whole = f[p] + (f[x] + rest)
  BY <1>5, <1>8, <1>10
<1>13. without = f[p] + rest /\ whole # f[x] + without /\ rest \in Int
  BY <1>4, <1>9, <1>11
<1> HIDE DEF rest, without, whole
<1> QED  BY <1>11, <1>12, <1>13

LEMMA SumEmpty ==
  ASSUME NEW f
  PROVE  SumFunctionOnSet(f, {}) = 0
<1>1. IsFiniteSet({})
  BY FS_EmptySet
<1> QED  BY <1>1, SumIsTotal, TotalRecursion

LEMMA SumType ==
  ASSUME NEW S, IsFiniteSet(S), NEW f, \A x \in S : f[x] \in Int
  PROVE  SumFunctionOnSet(f, S) \in Int
<1>1. SumFunctionOnSet(f, S) = SumOver(f, S)
  BY SumIsTotal
<1>2. SumOver(f, S) \in Int
  BY TotalRecursion
<1> QED  BY <1>1, <1>2

LEMMA SumRemove ==
  ASSUME NEW S, IsFiniteSet(S), NEW f, \A x \in S : f[x] \in Int, NEW x \in S
  PROVE  SumFunctionOnSet(f, S) = f[x] + SumFunctionOnSet(f, S \ {x})
<1>1. IsFiniteSet(S \ {x}) /\ \A y \in S \ {x} : f[y] \in Int
  BY FS_Subset
<1>2. SumOver(f, S) = f[x] + SumOver(f, S \ {x})
  <2>1. S \in SUBSET S
    OBVIOUS
  <2> QED  BY <2>1, TotalRemove
<1> QED  BY <1>1, <1>2, SumIsTotal

LEMMA SumAdd ==
  ASSUME NEW S, IsFiniteSet(S), NEW f, NEW x, x \notin S, \A y \in S \cup {x} : f[y] \in Int
  PROVE  SumFunctionOnSet(f, S \cup {x}) = f[x] + SumFunctionOnSet(f, S)
<1>1. IsFiniteSet(S \cup {x})
  BY FS_AddElement
<1>2. (S \cup {x}) \ {x} = S
  OBVIOUS
<1>3. SumFunctionOnSet(f, S \cup {x}) = f[x] + SumFunctionOnSet(f, (S \cup {x}) \ {x})
  BY <1>1, SumRemove
<1> QED  BY <1>2, <1>3

(* Only the values on the set matter.                                      *)
LEMMA SumSame ==
  ASSUME NEW S, IsFiniteSet(S), NEW f, NEW g,
         \A x \in S : f[x] \in Int, \A x \in S : g[x] = f[x]
  PROVE  SumFunctionOnSet(g, S) = SumFunctionOnSet(f, S)
<1>1. PICK h : Obeys(h, f, S)
  BY IterObeys
<1>2. h \in [SUBSET S -> Int] /\ \A s \in SUBSET S : s # {} => Pick(s) \in S
  BY <1>1, PickIn DEF Obeys
<1>3. Obeys(h, g, S)
  BY <1>1, <1>2 DEF Obeys
<1>4. SumOver(f, S) = h[S] /\ SumOver(g, S) = h[S]
  BY <1>1, <1>3, TotalOf
<1> QED  BY <1>4, SumIsTotal

(* A sum grows by what one of its values grows.                            *)
LEMMA SumUpdate ==
  ASSUME NEW S, IsFiniteSet(S), NEW f, NEW g, NEW x \in S,
         \A y \in S : f[y] \in Int /\ g[y] \in Int,
         \A y \in S : y # x => g[y] = f[y]
  PROVE  SumFunctionOnSet(g, S) = SumFunctionOnSet(f, S) + (g[x] - f[x])
<1>1. IsFiniteSet(S \ {x})
  BY FS_Subset
<1>2. SumFunctionOnSet(g, S \ {x}) = SumFunctionOnSet(f, S \ {x})
  BY <1>1, SumSame
<1>3. SumFunctionOnSet(f, S \ {x}) \in Int
  BY <1>1, SumType
<1>4. /\ SumFunctionOnSet(f, S) = f[x] + SumFunctionOnSet(f, S \ {x})
      /\ SumFunctionOnSet(g, S) = g[x] + SumFunctionOnSet(g, S \ {x})
  BY SumRemove
<1> QED  BY <1>2, <1>3, <1>4

(* What is added at one place is in the sums over the sets that have it.   *)
LEMMA SumAddsAt ==
  ASSUME NEW S, IsFiniteSet(S), NEW f, NEW g, NEW x, NEW amount \in Int,
         \A i \in S : f[i] \in Int /\ g[i] = f[i] + IF i = x THEN amount ELSE 0
  PROVE  SumFunctionOnSet(g, S) = SumFunctionOnSet(f, S) + IF x \in S THEN amount ELSE 0
<1>1. \A i \in S : f[i] \in Int /\ g[i] \in Int /\ (i # x => g[i] = f[i])
  OBVIOUS
<1>2. SumFunctionOnSet(f, S) \in Int
  BY <1>1, SumType
<1>3. CASE x \in S
  <2>1. SumFunctionOnSet(g, S) = SumFunctionOnSet(f, S) + (g[x] - f[x])
    BY ONLY IsFiniteSet(S), <1>1, <1>3, SumUpdate
  <2>2. g[x] - f[x] = amount
    BY <1>3
  <2> QED  BY <1>3, <2>1, <2>2
<1>4. CASE x \notin S
  <2>1. \A i \in S : f[i] \in Int /\ g[i] = f[i]
    BY <1>1, <1>4
  <2>2. SumFunctionOnSet(g, S) = SumFunctionOnSet(f, S)
    BY ONLY IsFiniteSet(S), <2>1, SumSame
  <2> QED  BY <1>2, <1>4, <2>2
<1> QED  BY <1>3, <1>4

(* More elements, more sum, where nothing is negative.                     *)
LEMMA SumMonotone ==
  ASSUME NEW S, IsFiniteSet(S), NEW T \in SUBSET S, NEW f, \A x \in S : f[x] \in Nat
  PROVE  /\ SumFunctionOnSet(f, T) <= SumFunctionOnSet(f, S)
         /\ SumFunctionOnSet(f, T) \in Nat
<1> DEFINE Bad == {U \in SUBSET S : T \subseteq U
                     /\ ~(SumFunctionOnSet(f, T) <= SumFunctionOnSet(f, U))}
<1>1. \A U \in SUBSET S : IsFiniteSet(U) /\ SumFunctionOnSet(f, U) \in Int
  <2>1. ASSUME NEW U \in SUBSET S PROVE IsFiniteSet(U) /\ SumFunctionOnSet(f, U) \in Int
    <3>1. IsFiniteSet(U) /\ \A x \in U : f[x] \in Int
      BY FS_Subset
    <3> QED  BY <3>1, SumType
  <2> QED  BY <2>1
<1>2. ASSUME NEW U \in SUBSET S, NEW x \in U
      PROVE  SumFunctionOnSet(f, U \ {x}) <= SumFunctionOnSet(f, U)
  <2>1. SumFunctionOnSet(f, U) = f[x] + SumFunctionOnSet(f, U \ {x})
    <3>1. \A y \in U : f[y] \in Int
      OBVIOUS
    <3> QED  BY <1>1, <3>1, SumRemove
  <2>2. f[x] \in Nat /\ SumFunctionOnSet(f, U \ {x}) \in Int
    BY <1>1
  <2> QED  BY <2>1, <2>2
<1>3. ASSUME Bad # {} PROVE FALSE
  <2>1. PICK U \in Bad : \A Y \in Bad : Y \subseteq U => Y = U
    <3>1. Bad \subseteq SUBSET S
      OBVIOUS
    <3> HIDE DEF Bad
    <3> QED  BY <1>3, <3>1, MinimalSubset
  <2>2. /\ U \in SUBSET S /\ T \subseteq U
        /\ ~(SumFunctionOnSet(f, T) <= SumFunctionOnSet(f, U))
    BY <2>1
  <2>3. U # T
    BY <1>1, <2>2
  <2>4. PICK x \in U : x \notin T
    BY <2>2, <2>3
  <2>5. U \ {x} \in SUBSET S /\ T \subseteq U \ {x} /\ U \ {x} # U
    BY <2>2, <2>4
  <2>6. SumFunctionOnSet(f, T) <= SumFunctionOnSet(f, U \ {x})
    BY <2>1, <2>5
  <2> QED  BY <1>1, <1>2, <2>2, <2>5, <2>6
<1>4. SumFunctionOnSet(f, T) <= SumFunctionOnSet(f, S)
  BY <1>3
<1>5. SumFunctionOnSet(f, T) \in Nat
  <2> DEFINE Neg == {U \in SUBSET S : ~(SumFunctionOnSet(f, U) >= 0)}
  <2>1. ASSUME Neg # {} PROVE FALSE
    <3>1. PICK U \in Neg : \A Y \in Neg : Y \subseteq U => Y = U
      <4>1. Neg \subseteq SUBSET S
        OBVIOUS
      <4> HIDE DEF Neg
      <4> QED  BY <2>1, <4>1, MinimalSubset
    <3>2. U \in SUBSET S /\ ~(SumFunctionOnSet(f, U) >= 0)
      BY <3>1
    <3>3. U # {}
      BY <3>2, SumEmpty
    <3>4. PICK x \in U : TRUE
      BY <3>3
    <3>5. SumFunctionOnSet(f, U \ {x}) >= 0
      BY <3>1, <3>2, <3>4
    <3> QED  BY <1>1, <1>2, <3>2, <3>4, <3>5
  <2> QED  BY <1>1, <2>1
<1> QED  BY <1>4, <1>5

(* A sum of zeros is zero.                                                 *)
LEMMA SumZero ==
  ASSUME NEW S, IsFiniteSet(S), NEW f, \A x \in S : f[x] = 0
  PROVE  SumFunctionOnSet(f, S) = 0
<1> DEFINE Bad == {U \in SUBSET S : SumFunctionOnSet(f, U) # 0}
<1>1. SUFFICES ASSUME Bad # {} PROVE FALSE
  OBVIOUS
<1>2. PICK U \in Bad : \A Y \in Bad : Y \subseteq U => Y = U
  <2>1. Bad \subseteq SUBSET S
    OBVIOUS
  <2> HIDE DEF Bad
  <2> QED  BY <1>1, <2>1, MinimalSubset
<1>3. U \in SUBSET S /\ IsFiniteSet(U) /\ SumFunctionOnSet(f, U) # 0
  BY <1>2, FS_Subset
<1>4. PICK x \in U : TRUE
  BY <1>3, SumEmpty
<1>5. \A y \in U : f[y] \in Int
  BY <1>3
<1>6. SumFunctionOnSet(f, U) = f[x] + SumFunctionOnSet(f, U \ {x})
  BY <1>3, <1>5, SumRemove
<1>7. U \ {x} \in SUBSET S /\ U \ {x} # U
  BY <1>3
<1>8. SumFunctionOnSet(f, U \ {x}) = 0 /\ f[x] = 0
  BY <1>2, <1>3, <1>7
<1> QED  BY <1>3, <1>6, <1>8

(* An element that counts nothing may go.                                  *)
LEMMA SumDropsZero ==
  ASSUME NEW S, IsFiniteSet(S), NEW f, \A x \in S : f[x] \in Int, NEW x, f[x] = 0
  PROVE  SumFunctionOnSet(f, S) = SumFunctionOnSet(f, S \ {x})
<1>1. CASE x \in S
  <2>1. SumFunctionOnSet(f, S) = f[x] + SumFunctionOnSet(f, S \ {x})
    BY <1>1, SumRemove
  <2>2. IsFiniteSet(S \ {x})
    BY FS_Subset
  <2>3. SumFunctionOnSet(f, S \ {x}) \in Int
    BY <2>2, SumType
  <2> QED  BY <2>1, <2>3
<1>2. CASE x \notin S
  <2>1. S \ {x} = S
    BY <1>2
  <2> QED  BY <2>1
<1> QED  BY <1>1, <1>2

(* A sum is bounded by two others that bound it element by element.        *)
LEMMA SumPointwiseTwo ==
  ASSUME NEW S, IsFiniteSet(S), NEW f, NEW g, NEW h,
         \A x \in S : f[x] \in Int /\ g[x] \in Int /\ h[x] \in Int /\ f[x] <= g[x] + h[x]
  PROVE  SumFunctionOnSet(f, S) <= SumFunctionOnSet(g, S) + SumFunctionOnSet(h, S)
<1> DEFINE Bad == {U \in SUBSET S : ~(SumFunctionOnSet(f, U)
                     <= SumFunctionOnSet(g, U) + SumFunctionOnSet(h, U))}
<1>1. SUFFICES ASSUME Bad # {} PROVE FALSE
  OBVIOUS
<1>2. PICK U \in Bad : \A Y \in Bad : Y \subseteq U => Y = U
  <2>1. Bad \subseteq SUBSET S
    OBVIOUS
  <2> HIDE DEF Bad
  <2> QED  BY <1>1, <2>1, MinimalSubset
<1>3. U \in SUBSET S /\ IsFiniteSet(U)
  BY <1>2, FS_Subset
<1>4. U # {}
  <2>1. 0 <= 0 + 0
    OBVIOUS
  <2>2. ASSUME U = {} PROVE FALSE
    BY <1>2, <2>1, <2>2, SumEmpty
  <2> QED  BY <2>2
<1>5. PICK x \in U : TRUE
  BY <1>4
<1>6. /\ SumFunctionOnSet(f, U) = f[x] + SumFunctionOnSet(f, U \ {x})
      /\ SumFunctionOnSet(g, U) = g[x] + SumFunctionOnSet(g, U \ {x})
      /\ SumFunctionOnSet(h, U) = h[x] + SumFunctionOnSet(h, U \ {x})
  BY <1>3, SumRemove
<1>7. IsFiniteSet(U \ {x}) /\ U \ {x} \in SUBSET S /\ U \ {x} # U
  BY <1>3, FS_Subset
<1>8. /\ SumFunctionOnSet(f, U \ {x}) \in Int
      /\ SumFunctionOnSet(g, U \ {x}) \in Int
      /\ SumFunctionOnSet(h, U \ {x}) \in Int
  BY <1>7, SumType
<1>9. SumFunctionOnSet(f, U \ {x})
        <= SumFunctionOnSet(g, U \ {x}) + SumFunctionOnSet(h, U \ {x})
  BY <1>2, <1>7
<1>10. f[x] \in Int /\ g[x] \in Int /\ h[x] \in Int /\ f[x] <= g[x] + h[x]
  BY <1>3
<1>11. ~(SumFunctionOnSet(f, U) <= SumFunctionOnSet(g, U) + SumFunctionOnSet(h, U))
  BY <1>2
<1> QED  BY <1>6, <1>8, <1>9, <1>10, <1>11

LEMMA SumPointwise ==
  ASSUME NEW S, IsFiniteSet(S), NEW f, NEW g,
         \A x \in S : f[x] \in Int /\ g[x] \in Int /\ f[x] <= g[x]
  PROVE  SumFunctionOnSet(f, S) <= SumFunctionOnSet(g, S)
<1> DEFINE z == [x \in S |-> 0]
<1>1. SumFunctionOnSet(z, S) = 0
  BY SumZero
<1>2. SumFunctionOnSet(f, S) <= SumFunctionOnSet(g, S) + SumFunctionOnSet(z, S)
  BY SumPointwiseTwo
<1> QED  BY <1>1, <1>2, SumType

=============================================================================
