---------------------------- MODULE ClockProofs ----------------------------
(***************************************************************************)
(* Proofs about Clock.  The sums of the regression are recursive functions; *)
(* what they compute is proved by induction, stated for sets: a set of      *)
(* natural numbers that has 0 and every successor of its elements has all.  *)
(***************************************************************************)
EXTENDS Clock, FiniteSetTheorems, NaturalsInduction, WellFoundedInduction, TLAPS

----------------------------------------------------------------------------
(* Induction over the natural numbers.                                     *)

LEMMA LeastElement ==
  ASSUME NEW T \in SUBSET Nat, T # {}
  PROVE  \E m \in T : \A k \in T : m <= k
<1> DEFINE R == {ss \in Nat \X Nat : ss[1] < ss[2]}
<1>1. IsWellFoundedOn(R, Nat)
  BY NatLessThanWellFounded DEF OpToRel
<1> HIDE DEF R
<1>2. PICK m \in T : \A k \in T : ~ (<<k, m>> \in R)
  BY <1>1, WFMin
<1>3. ASSUME NEW k \in T PROVE m <= k
  <2>1. ~ (<<k, m>> \in R) BY <1>2
  <2>2. k \in Nat /\ m \in Nat OBVIOUS
  <2>3. ~ (k < m) BY <2>1, <2>2 DEF R
  <2> QED BY <2>2, <2>3
<1> QED BY <1>3

LEMMA InductionTo ==
  ASSUME NEW N \in Nat, NEW T, 0 \in T, \A n \in 0 .. N - 1 : n \in T => n + 1 \in T
  PROVE  0 .. N \subseteq T
<1> DEFINE C == {n \in 0 .. N : n \notin T}
<1> SUFFICES ASSUME C # {} PROVE FALSE
  OBVIOUS
<1>1. C \in SUBSET Nat OBVIOUS
<1>2. PICK m \in C : \A k \in C : m <= k
  <2> HIDE DEF C
  <2> QED BY <1>1, LeastElement
<1>3. m # 0 /\ m \in 0 .. N /\ m \notin T OBVIOUS
<1>4. m - 1 \in 0 .. N - 1 /\ m - 1 \in T BY <1>2, <1>3
<1>5. m - 1 + 1 \in T BY <1>4
<1> QED BY <1>3, <1>5

----------------------------------------------------------------------------
(* The sums.                                                               *)

Index == 1 .. Measurements

\* The partial sums of f up to the m-th are g.
IsSum(g, m, f) == g = [n \in 0 .. m |-> IF n = 0 THEN 0 ELSE g[n - 1] + f[n]]

LEMMA SumExists ==
  ASSUME NEW f \in [Index -> Int]
  PROVE  \E g \in [0 .. Measurements -> Int] : IsSum(g, Measurements, f)
<1> DEFINE T == {m \in 0 .. Measurements : \E g \in [0 .. m -> Int] : IsSum(g, m, f)}
<1>0. Measurements \in Nat BY ClockAssumption
<1>1. 0 \in T
  <2> DEFINE g == [n \in 0 .. 0 |-> 0]
  <2>1. g \in [0 .. 0 -> Int] OBVIOUS
  <2>2. IsSum(g, 0, f) BY DEF IsSum
  <2> QED BY <1>0, <2>1, <2>2
<1>2. ASSUME NEW n \in 0 .. Measurements - 1, n \in T PROVE n + 1 \in T
  <2>1. PICK g \in [0 .. n -> Int] : IsSum(g, n, f) BY <1>2
  <2> DEFINE h == [i \in 0 .. n + 1 |-> IF i = n + 1 THEN g[n] + f[n + 1] ELSE g[i]]
  <2>2. n \in Nat /\ n + 1 \in Index BY <1>0 DEF Index
  <2>3. h \in [0 .. n + 1 -> Int] BY <2>2
  <2>4. ASSUME NEW i \in 0 .. n + 1
        PROVE h[i] = IF i = 0 THEN 0 ELSE h[i - 1] + f[i]
    <3>1. CASE i = n + 1 BY <3>1, <2>2
    <3>2. CASE i # n + 1
      <4>1. i \in 0 .. n BY <3>2, <2>2
      <4>2. g[i] = IF i = 0 THEN 0 ELSE g[i - 1] + f[i] BY <2>1, <4>1 DEF IsSum
      <4> QED BY <4>1, <4>2, <2>2
    <3> QED BY <3>1, <3>2
  <2>5. IsSum(h, n + 1, f)
    <3> HIDE DEF h
    <3> QED BY <2>3, <2>4 DEF IsSum
  <2>6. n + 1 \in 0 .. Measurements BY <1>0
  <2> HIDE DEF h
  <2> QED BY <2>3, <2>5, <2>6
<1>3. 0 .. Measurements \subseteq T
  <2> HIDE DEF T
  <2> QED BY <1>0, <1>1, <1>2, InductionTo
<1> QED BY <1>0, <1>3

\* What Total computes: the last of the partial sums.
LEMMA TotalIsSum ==
  ASSUME NEW f \in [Index -> Int]
  PROVE  \E g \in [0 .. Measurements -> Int] :
            /\ g[0] = 0
            /\ \A n \in 0 .. Measurements - 1 : g[n + 1] = g[n] + f[n + 1]
            /\ Total(f) = g[Measurements]
<1>0. Measurements \in Nat \ {0} BY ClockAssumption
<1> DEFINE s == CHOOSE g : IsSum(g, Measurements, f)
<1>1. PICK g \in [0 .. Measurements -> Int] : IsSum(g, Measurements, f) BY SumExists
<1>2. IsSum(s, Measurements, f) BY <1>1
<1>3. Total(f) = s[Measurements] BY DEF Total, IsSum
<1> HIDE DEF s
<1>4. /\ DOMAIN s = 0 .. Measurements
      /\ \A n \in 0 .. Measurements : s[n] = IF n = 0 THEN 0 ELSE s[n - 1] + f[n]
  BY <1>2 DEF IsSum
<1>5. s[0] = 0 /\ \A n \in 0 .. Measurements - 1 : s[n + 1] = s[n] + f[n + 1]
  BY <1>0, <1>4
<1>6. 0 .. Measurements \subseteq {n \in 0 .. Measurements : s[n] \in Int}
  <2> DEFINE T == {n \in 0 .. Measurements : s[n] \in Int}
  <2>1. 0 \in T BY <1>0, <1>5
  <2>2. ASSUME NEW n \in 0 .. Measurements - 1, n \in T PROVE n + 1 \in T
    <3>1. n + 1 \in Index BY <1>0 DEF Index
    <3>2. s[n + 1] = s[n] + f[n + 1] BY <1>5
    <3> QED BY <3>1, <3>2, <2>2, <1>0 DEF Index
  <2> HIDE DEF T
  <2>3. 0 .. Measurements \subseteq T BY <1>0, <2>1, <2>2, InductionTo
  <2> QED BY <2>3 DEF T
<1>7. s \in [0 .. Measurements -> Int] BY <1>2, <1>6 DEF IsSum
<1> QED BY <1>3, <1>5, <1>7

LEMMA TotalInt ==
  ASSUME NEW f \in [Index -> Int]
  PROVE  Total(f) \in Int
<1>1. Measurements \in 0 .. Measurements BY ClockAssumption
<1> QED BY <1>1, TotalIsSum

LEMMA Regroup ==
  ASSUME NEW a \in Int, NEW b \in Int, NEW c \in Int, NEW n \in Int,
         NEW u \in Int, NEW v \in Int, NEW w \in Int, NEW z \in Int
  PROVE  (a * u + b * v + c * n) + (a * w + b * z + c) = a * (u + w) + b * (v + z) + c * (n + 1)
OBVIOUS

\* h is a times f and b times g and the constant c.
IsCombination(h, a, f, b, g, c) ==
  /\ {f, g, h} \subseteq [Index -> Int] /\ {a, b, c} \subseteq Int
  /\ \A k \in Index : h[k] = a * f[k] + b * g[k] + c

\* Sums are linear.
LEMMA TotalLinear ==
  ASSUME NEW h, NEW a, NEW f, NEW b, NEW g, NEW c, IsCombination(h, a, f, b, g, c)
  PROVE  Total(h) = a * Total(f) + b * Total(g) + c * Measurements
<1> a \in Int /\ b \in Int /\ c \in Int BY DEF IsCombination
<1> f \in [Index -> Int] /\ g \in [Index -> Int] /\ h \in [Index -> Int] BY DEF IsCombination
<1>0. Measurements \in Nat BY ClockAssumption
<1>1. PICK F \in [0 .. Measurements -> Int] :
          /\ F[0] = 0
          /\ \A n \in 0 .. Measurements - 1 : F[n + 1] = F[n] + f[n + 1]
          /\ Total(f) = F[Measurements]
  BY TotalIsSum
<1>2. PICK G \in [0 .. Measurements -> Int] :
          /\ G[0] = 0
          /\ \A n \in 0 .. Measurements - 1 : G[n + 1] = G[n] + g[n + 1]
          /\ Total(g) = G[Measurements]
  BY TotalIsSum
<1>3. PICK H \in [0 .. Measurements -> Int] :
          /\ H[0] = 0
          /\ \A n \in 0 .. Measurements - 1 : H[n + 1] = H[n] + h[n + 1]
          /\ Total(h) = H[Measurements]
  BY TotalIsSum
<1> DEFINE T == {n \in 0 .. Measurements : H[n] = a * F[n] + b * G[n] + c * n}
<1>4. 0 \in T BY <1>0, <1>1, <1>2, <1>3
<1>5. ASSUME NEW n \in 0 .. Measurements - 1, n \in T PROVE n + 1 \in T
  <2>1. n \in Int /\ n \in 0 .. Measurements /\ n + 1 \in 0 .. Measurements /\ n + 1 \in Index
    BY <1>0 DEF Index
  <2>2. F[n] \in Int /\ G[n] \in Int /\ f[n + 1] \in Int /\ g[n + 1] \in Int
    BY <2>1
  <2>3. F[n + 1] = F[n] + f[n + 1] /\ G[n + 1] = G[n] + g[n + 1] /\ H[n + 1] = H[n] + h[n + 1]
    BY <1>1, <1>2, <1>3
  <2>4. H[n] = a * F[n] + b * G[n] + c * n BY <1>5
  <2>5. h[n + 1] = a * f[n + 1] + b * g[n + 1] + c BY <2>1 DEF IsCombination
  <2>6. (a * F[n] + b * G[n] + c * n) + (a * f[n + 1] + b * g[n + 1] + c)
          = a * (F[n] + f[n + 1]) + b * (G[n] + g[n + 1]) + c * (n + 1)
    <3>1. PICK u \in Int : u = F[n] BY <2>2
    <3>2. PICK v \in Int : v = G[n] BY <2>2
    <3>3. PICK w \in Int : w = f[n + 1] BY <2>2
    <3>4. PICK z \in Int : z = g[n + 1] BY <2>2
    <3>5. (a * u + b * v + c * n) + (a * w + b * z + c) = a * (u + w) + b * (v + z) + c * (n + 1)
      BY <2>1, Regroup
    <3> QED BY <3>1, <3>2, <3>3, <3>4, <3>5, Zenon
  <2>7. H[n + 1] = a * F[n + 1] + b * G[n + 1] + c * (n + 1)
    BY <2>3, <2>4, <2>5, <2>6, Zenon
  <2> QED BY <2>1, <2>7
<1> HIDE DEF T
<1>6. 0 .. Measurements \subseteq T BY <1>0, <1>4, <1>5, InductionTo
<1>7. Measurements \in T BY <1>0, <1>6
<1> QED BY <1>1, <1>2, <1>3, <1>7 DEF T

\* A sum of numbers that are not negative is not, and is zero only if they are.
LEMMA TotalNonNegative ==
  ASSUME NEW f \in [Index -> Int], \A k \in Index : f[k] >= 0
  PROVE  Total(f) >= 0 /\ (Total(f) = 0 => \A k \in Index : f[k] = 0)
<1>0. Measurements \in Nat BY ClockAssumption
<1>1. PICK F \in [0 .. Measurements -> Int] :
          /\ F[0] = 0
          /\ \A n \in 0 .. Measurements - 1 : F[n + 1] = F[n] + f[n + 1]
          /\ Total(f) = F[Measurements]
  BY TotalIsSum
<1> DEFINE T == {n \in 0 .. Measurements : F[n] >= 0 /\ (F[n] = 0 => \A k \in 1 .. n : f[k] = 0)}
<1>2. 0 \in T BY <1>0, <1>1
<1>3. ASSUME NEW n \in 0 .. Measurements - 1, n \in T PROVE n + 1 \in T
  <2>1. n + 1 \in Index /\ n + 1 - 1 = n /\ n \in 0 .. Measurements BY <1>0 DEF Index
  <2>2. F[n + 1] = F[n] + f[n + 1] BY <1>1, <2>1
  <2>3. F[n] \in Int /\ f[n + 1] \in Int /\ F[n] >= 0 /\ f[n + 1] >= 0 BY <1>3, <2>1
  <2>4. F[n + 1] >= 0 BY <2>2, <2>3
  <2>5. ASSUME F[n + 1] = 0, NEW k \in 1 .. n + 1 PROVE f[k] = 0
    <3>1. F[n] = 0 /\ f[n + 1] = 0 BY <2>2, <2>3, <2>5
    <3>2. CASE k = n + 1 BY <3>1, <3>2
    <3>3. CASE k # n + 1
      <4>1. k \in 1 .. n BY <3>3, <2>1
      <4> QED BY <4>1, <3>1, <1>3
    <3> QED BY <3>2, <3>3
  <2>6. n + 1 \in 0 .. Measurements BY <1>0
  <2> QED BY <2>4, <2>5, <2>6
<1> HIDE DEF T
<1>4. 0 .. Measurements \subseteq T BY <1>0, <1>2, <1>3, InductionTo
<1>5. Measurements \in T BY <1>0, <1>4
<1> QED BY <1>1, <1>5 DEF T, Index

----------------------------------------------------------------------------
(* The regression.                                                         *)

LEMMA ProductsType ==
  ASSUME NEW f \in [Index -> Int], NEW g \in [Index -> Int]
  PROVE  /\ Products(f, g) \in [Index -> Int]
         /\ \A k \in Index : Products(f, g)[k] = f[k] * g[k]
BY DEF Products, Index

LEMMA CovarianceInt ==
  ASSUME NEW f \in [Index -> Int], NEW g \in [Index -> Int]
  PROVE  Covariance(f, g) \in Int
<1>1. Total(Products(f, g)) \in Int BY ProductsType, TotalInt
<1>2. Total(f) \in Int /\ Total(g) \in Int BY TotalInt
<1>3. Measurements \in Int BY ClockAssumption
<1> QED BY <1>1, <1>2, <1>3 DEF Covariance

\* The points of a line: its offset o cancels, and its slope m comes out.
LEMMA LineCovariance ==
  ASSUME NEW u \in [Index -> Int], NEW v \in [Index -> Int], NEW o \in Int, NEW m \in Int
  PROVE  (\A k \in Index : v[k] = o + m * u[k]) =>
            /\ Covariance(u, v) = m * Covariance(u, u)
            /\ Covariance(v, v) = m * m * Covariance(u, u)
<1>h. HAVE \A k \in Index : v[k] = o + m * u[k]
<1>1. PICK X \in Int : X = Total(u) BY TotalInt
<1>2. PICK XX \in Int : XX = Total(Products(u, u)) BY ProductsType, TotalInt
<1>3. PICK N \in Int : N = Measurements BY ClockAssumption
<1>4. Total(v) = m * X + 0 * X + o * N
  <2>1. ASSUME NEW k \in Index PROVE v[k] = m * u[k] + 0 * u[k] + o
    <3>1. PICK w \in Int : w = u[k] OBVIOUS
    <3>2. o + m * w = m * w + 0 * w + o OBVIOUS
    <3>3. v[k] = o + m * u[k] BY <1>h
    <3> QED BY <3>1, <3>2, <3>3, Zenon
  <2>2. 0 \in Int OBVIOUS
  <2>3. Total(v) = m * Total(u) + 0 * Total(u) + o * Measurements
    <3>1. IsCombination(v, m, u, 0, u, o) BY <2>1, <2>2 DEF IsCombination
    <3> QED BY <3>1, TotalLinear
  <2> QED BY <2>3, <1>1, <1>3, Zenon
<1>5. Total(Products(u, v)) = m * XX + o * X + 0 * N
  <2>1. ASSUME NEW k \in Index PROVE Products(u, v)[k] = m * Products(u, u)[k] + o * u[k] + 0
    <3>1. PICK w \in Int : w = u[k] OBVIOUS
    <3>2. w * (o + m * w) = m * (w * w) + o * w + 0 OBVIOUS
    <3>3. v[k] = o + m * u[k] BY <1>h
    <3>4. Products(u, v)[k] = u[k] * v[k] /\ Products(u, u)[k] = u[k] * u[k] BY ProductsType
    <3> QED BY <3>1, <3>2, <3>3, <3>4, Zenon
  <2>2. 0 \in Int /\ Products(u, v) \in [Index -> Int] /\ Products(u, u) \in [Index -> Int]
    BY ProductsType
  <2>3. Total(Products(u, v)) = m * Total(Products(u, u)) + o * Total(u) + 0 * Measurements
    <3>1. IsCombination(Products(u, v), m, Products(u, u), o, u, 0) BY <2>1, <2>2 DEF IsCombination
    <3> QED BY <3>1, TotalLinear
  <2> QED BY <2>3, <1>1, <1>2, <1>3, Zenon
<1>6. Total(Products(v, v)) = (m * m) * XX + (2 * o * m) * X + (o * o) * N
  <2>1. ASSUME NEW k \in Index
        PROVE Products(v, v)[k] = (m * m) * Products(u, u)[k] + (2 * o * m) * u[k] + o * o
    <3>1. PICK w \in Int : w = u[k] OBVIOUS
    <3>2. (o + m * w) * (o + m * w) = (m * m) * (w * w) + (2 * o * m) * w + o * o OBVIOUS
    <3>3. v[k] = o + m * u[k] BY <1>h
    <3>4. Products(v, v)[k] = v[k] * v[k] /\ Products(u, u)[k] = u[k] * u[k] BY ProductsType
    <3> QED BY <3>1, <3>2, <3>3, <3>4, Zenon
  <2>2. m * m \in Int /\ 2 * o * m \in Int /\ o * o \in Int OBVIOUS
  <2>3. Products(v, v) \in [Index -> Int] /\ Products(u, u) \in [Index -> Int]
    BY ProductsType
  <2>4. Total(Products(v, v))
          = (m * m) * Total(Products(u, u)) + (2 * o * m) * Total(u) + (o * o) * Measurements
    <3>1. IsCombination(Products(v, v), m * m, Products(u, u), 2 * o * m, u, o * o)
      BY <2>1, <2>2, <2>3 DEF IsCombination
    <3> QED BY <3>1, TotalLinear
  <2> QED BY <2>4, <1>1, <1>2, <1>3, Zenon
<1>7. N * (m * XX + o * X + 0 * N) - X * (m * X + 0 * X + o * N) = m * (N * XX - X * X)
  OBVIOUS
<1>8. N * ((m * m) * XX + (2 * o * m) * X + (o * o) * N) - (m * X + 0 * X + o * N) * (m * X + 0 * X + o * N)
        = m * m * (N * XX - X * X)
  OBVIOUS
<1>9. Covariance(u, u) = N * XX - X * X BY <1>1, <1>2, <1>3, Zenon DEF Covariance
<1>10. Covariance(u, v) = m * Covariance(u, u)
  BY <1>1, <1>3, <1>4, <1>5, <1>7, <1>9, Zenon DEF Covariance
<1>11. Covariance(v, v) = m * m * Covariance(u, u)
  BY <1>3, <1>4, <1>6, <1>8, <1>9, Zenon DEF Covariance
<1> QED BY <1>10, <1>11

\* The variance is not negative, and zero only if all measurements are equal.
LEMMA VarianceNonNegative ==
  ASSUME NEW u \in [Index -> Int]
  PROVE  Covariance(u, u) >= 0 /\ (Covariance(u, u) = 0 => \A k \in Index : u[k] = u[1])
<1>1. PICK X \in Int : X = Total(u) BY TotalInt
<1>2. PICK XX \in Int : XX = Total(Products(u, u)) BY ProductsType, TotalInt
<1>3. PICK N \in Nat \ {0} : N = Measurements BY ClockAssumption
<1> DEFINE d == [k \in Index |-> (N * u[k] - X) * (N * u[k] - X)]
<1>4. \A k \in Index : d[k] = (N * u[k] - X) * (N * u[k] - X) OBVIOUS
<1>5. d \in [Index -> Int] OBVIOUS
<1> HIDE DEF d
<1>6. ASSUME NEW k \in Index PROVE d[k] >= 0 /\ (d[k] = 0 => N * u[k] = X)
  <2>1. PICK w \in Int : w = N * u[k] - X OBVIOUS
  <2>2. w * w >= 0 /\ (w * w = 0 => w = 0) OBVIOUS
  <2>3. d[k] = w * w BY <2>1, <1>4
  <2>4. w = 0 => N * u[k] = X
    <3>1. PICK t \in Int : t = N * u[k] OBVIOUS
    <3> QED BY <2>1, <3>1
  <2> QED BY <2>2, <2>3, <2>4
<1>7. Total(d) = (N * N) * XX + ((-2) * N * X) * X + (X * X) * N
  <2>1. ASSUME NEW k \in Index
        PROVE d[k] = (N * N) * Products(u, u)[k] + ((-2) * N * X) * u[k] + X * X
    <3>1. PICK w \in Int : w = u[k] OBVIOUS
    <3>2. (N * w - X) * (N * w - X) = (N * N) * (w * w) + ((-2) * N * X) * w + X * X OBVIOUS
    <3>3. d[k] = (N * u[k] - X) * (N * u[k] - X) BY <1>4
    <3>4. Products(u, u)[k] = u[k] * u[k] BY ProductsType
    <3> QED BY <3>1, <3>2, <3>3, <3>4, Zenon
  <2>2. N * N \in Int /\ (-2) * N * X \in Int /\ X * X \in Int OBVIOUS
  <2>3. Products(u, u) \in [Index -> Int] BY ProductsType
  <2>4. Total(d) = (N * N) * Total(Products(u, u)) + ((-2) * N * X) * Total(u) + (X * X) * Measurements
    <3>1. IsCombination(d, N * N, Products(u, u), (-2) * N * X, u, X * X)
      BY <1>5, <2>1, <2>2, <2>3 DEF IsCombination
    <3> QED BY <3>1, TotalLinear
  <2> QED BY <2>4, <1>1, <1>2, <1>3, Zenon
<1>8. PICK c \in Int : c = Covariance(u, u) BY CovarianceInt
<1>9. c = N * XX - X * X BY <1>1, <1>2, <1>3, <1>8, Zenon DEF Covariance
<1>10. Total(d) = N * c
  <2>1. (N * N) * XX + ((-2) * N * X) * X + (X * X) * N = N * (N * XX - X * X) OBVIOUS
  <2> QED BY <1>7, <1>9, <2>1, Zenon
<1>11. N * c >= 0 /\ (N * c = 0 => \A k \in Index : d[k] = 0)
  BY <1>5, <1>6, <1>10, TotalNonNegative
<1>12. c >= 0 BY <1>11, SMTT(20)
<1>13. ASSUME c = 0, NEW k \in Index PROVE u[k] = u[1]
  <2>1. N * c = 0 BY <1>13
  <2>2. 1 \in Index BY ClockAssumption DEF Index
  <2>3. N * u[k] = X /\ N * u[1] = X BY <1>6, <1>11, <2>1, <2>2
  <2>4. PICK p \in Int : p = u[k] OBVIOUS
  <2>5. PICK q \in Int : q = u[1] BY <2>2
  <2>6. N * p = N * q BY <2>3, <2>4, <2>5
  <2>7. p = q BY <2>6, SMTT(20)
  <2> QED BY <2>4, <2>5, <2>7
<1> QED BY <1>8, <1>12, <1>13

----------------------------------------------------------------------------
(* The invariant.                                                          *)

TypeInv ==
  /\ phase \in {"start", "poll", "regress", "done"}
  /\ x \in Seq(Int) /\ y \in Seq(Int) /\ Len(y) = Len(x)
  /\ wall \in Int /\ cycles \in Int
  /\ cpuinfo \in Seq(Nat)
  /\ overheads \subseteq Nat /\ IsFiniteSet(overheads)
  /\ steps \in Nat

\* No more is measured than there is room for, and the regression comes last.
LengthInv ==
  /\ phase \in {"start", "poll"} => Len(x) < Measurements
  /\ phase = "regress" => Len(x) = Measurements

\* Unless the clock was set, each measurement is on a line with the slope Mhz.
LineInv ==
  steps = 0 =>
    /\ phase = "poll" => \E o \in overheads : cycles = o + Mhz * wall
    /\ \A k \in 1 .. Len(x) : \E o \in overheads : y[k] = o + Mhz * x[k]

ResultInv == phase = "done" /\ Len(x) = Measurements => result = Combined(Proc, Sample)

ClockInv == TypeInv /\ LengthInv /\ LineInv /\ ResultInv

----------------------------------------------------------------------------
(* Every step keeps the invariant.                                         *)

LEMMA InitInv == Init => ClockInv
<1> SUFFICES ASSUME Init PROVE ClockInv OBVIOUS
<1>1. cpuinfo \in Seq(Nat)
  <2>1. CASE cpuinfo = <<>> BY <2>1
  <2>2. CASE cpuinfo \in {<<r>> : r \in Readings}
    <3>1. PICK r \in Readings : cpuinfo = <<r>> BY <2>2
    <3>2. r \in Nat BY ClockAssumption
    <3> QED BY <3>1, <3>2
  <2>3. CASE cpuinfo \in Readings \X Readings
    <3>1. PICK r \in Readings, q \in Readings : cpuinfo = <<r, q>> BY <2>3
    <3>2. r \in Nat /\ q \in Nat BY ClockAssumption
    <3> QED BY <3>1, <3>2
  <2> QED BY <2>1, <2>2, <2>3 DEF Init
<1>2. TypeInv BY <1>1, FS_EmptySet DEF Init, TypeInv
<1>3. LengthInv BY ClockAssumption DEF Init, LengthInv
<1>4. LineInv BY DEF Init, LineInv
<1>5. ResultInv BY DEF Init, ResultInv
<1> QED BY <1>2, <1>3, <1>4, <1>5 DEF ClockInv

LEMMA StartMeasurementInv == ClockInv /\ StartMeasurement => ClockInv'
<1> SUFFICES ASSUME ClockInv, StartMeasurement PROVE ClockInv' OBVIOUS
<1> USE DEF ClockInv
<1>1. PICK o \in Overheads : cycles' = o /\ overheads' = overheads \union {o}
  BY DEF StartMeasurement
<1>2. /\ phase = "start" /\ phase' = "poll" /\ wall' = 0 /\ x' = x /\ y' = y
      /\ cpuinfo' = cpuinfo /\ steps' = steps
  BY DEF StartMeasurement
<1>3. o \in Nat /\ Mhz \in Nat BY ClockAssumption
<1>4. TypeInv'
  <2>1. IsFiniteSet(overheads') BY <1>1, FS_AddElement DEF TypeInv
  <2> QED BY <1>1, <1>2, <1>3, <2>1 DEF TypeInv
<1>5. LengthInv' BY <1>2 DEF LengthInv
<1>6. LineInv'
  <2>1. o = o + Mhz * 0 BY <1>3
  <2>2. o \in overheads' /\ overheads \subseteq overheads' BY <1>1
  <2>3. cycles' = o + Mhz * wall' BY <1>1, <1>2, <2>1
  <2> QED BY <1>2, <2>2, <2>3 DEF LineInv
<1>7. ResultInv' BY <1>2 DEF ResultInv
<1> QED BY <1>4, <1>5, <1>6, <1>7

LEMMA PollInv == ASSUME NEW d \in 1 .. MaxDelay PROVE ClockInv /\ Poll(d) => ClockInv'
<1> SUFFICES ASSUME ClockInv, Poll(d) PROVE ClockInv' OBVIOUS
<1> USE DEF ClockInv
<1>1. /\ phase = "poll" /\ cycles' = cycles + Mhz * d /\ wall' = wall + d
      /\ cpuinfo' = cpuinfo /\ overheads' = overheads /\ steps' = steps
  BY DEF Poll
<1>2. Mhz \in Nat /\ d \in Int /\ wall \in Int /\ cycles \in Int BY ClockAssumption DEF TypeInv
<1>3. wall' \in Int /\ cycles' \in Int BY <1>1, <1>2
<1>4. ASSUME steps = 0 PROVE \E o \in overheads : cycles' = o + Mhz * wall'
  <2>1. PICK o \in overheads : cycles = o + Mhz * wall BY <1>1, <1>4 DEF LineInv
  <2>2. o \in Int BY DEF TypeInv
  <2>3. (o + Mhz * wall) + Mhz * d = o + Mhz * (wall + d) BY <1>2, <2>2
  <2>4. cycles' = o + Mhz * wall' BY <1>1, <2>1, <2>3, Zenon
  <2> QED BY <2>4
<1>5. CASE LongEnough(wall + d)
  <2>1. /\ x' = Append(x, wall') /\ y' = Append(y, cycles')
        /\ phase' = IF Len(x') = Measurements THEN "regress" ELSE "start"
    BY <1>1, <1>5 DEF Poll
  <2>2. x \in Seq(Int) /\ y \in Seq(Int) /\ Len(y) = Len(x) BY DEF TypeInv
  <2>3. PICK n \in Nat : n = Len(x) BY <2>2
  <2>4. /\ x' \in Seq(Int) /\ Len(x') = n + 1 /\ x'[n + 1] = wall'
        /\ \A k \in 1 .. n : x'[k] = x[k]
    BY <1>3, <2>1, <2>2, <2>3
  <2>5. /\ y' \in Seq(Int) /\ Len(y') = n + 1 /\ y'[n + 1] = cycles'
        /\ \A k \in 1 .. n : y'[k] = y[k]
    BY <1>3, <2>1, <2>2, <2>3
  <2>6. TypeInv' BY <1>1, <1>3, <2>1, <2>4, <2>5 DEF TypeInv
  <2>7. LengthInv'
    <3>1. n < Measurements BY <1>1, <2>3 DEF LengthInv
    <3>2. n + 1 # Measurements => n + 1 < Measurements BY <3>1, ClockAssumption
    <3> QED BY <2>1, <2>4, <3>2 DEF LengthInv
  <2>8. LineInv'
    <3>1. phase' # "poll" BY <2>1
    <3>2. ASSUME steps = 0, NEW k \in 1 .. n + 1 PROVE \E o \in overheads : y'[k] = o + Mhz * x'[k]
      <4>1. CASE k = n + 1 BY <1>4, <2>4, <2>5, <3>2, <4>1
      <4>2. CASE k # n + 1
        <5>1. k \in 1 .. n BY <4>2
        <5>2. PICK o \in overheads : y[k] = o + Mhz * x[k] BY <2>3, <3>2, <5>1 DEF LineInv
        <5>3. y'[k] = o + Mhz * x'[k] BY <2>4, <2>5, <5>1, <5>2
        <5> QED BY <5>3
      <4> QED BY <4>1, <4>2
    <3> QED BY <1>1, <2>4, <3>1, <3>2 DEF LineInv
  <2>9. ResultInv' BY <2>1 DEF ResultInv
  <2> QED BY <2>6, <2>7, <2>8, <2>9
<1>6. CASE ~ LongEnough(wall + d)
  <2>1. x' = x /\ y' = y /\ phase' = phase BY <1>6 DEF Poll
  <2>2. TypeInv' BY <1>1, <1>3, <2>1 DEF TypeInv
  <2>3. LengthInv' BY <2>1 DEF LengthInv
  <2>4. LineInv' BY <1>1, <1>4, <2>1 DEF LineInv
  <2>5. ResultInv' BY <1>1, <2>1 DEF ResultInv
  <2> QED BY <2>2, <2>3, <2>4, <2>5
<1> QED BY <1>5, <1>6

LEMMA AdjustClockInv == ClockInv /\ AdjustClock => ClockInv'
<1> SUFFICES ASSUME ClockInv, AdjustClock PROVE ClockInv' OBVIOUS
<1> USE DEF ClockInv
<1>1. /\ phase = "poll" /\ steps' = steps + 1
      /\ UNCHANGED <<phase, x, y, cycles, cpuinfo, result, overheads>>
  BY DEF AdjustClock
<1>2. wall' \in Int BY ClockAssumption DEF AdjustClock, TypeInv
<1>3. TypeInv' BY <1>1, <1>2 DEF TypeInv
<1>4. LengthInv' BY <1>1 DEF LengthInv
<1>5. LineInv' BY <1>1 DEF LineInv, TypeInv
<1>6. ResultInv' BY <1>1 DEF ResultInv
<1> QED BY <1>3, <1>4, <1>5, <1>6

LEMMA GetCpuMhzInv == ClockInv /\ GetCpuMhz => ClockInv'
<1> SUFFICES ASSUME ClockInv, GetCpuMhz PROVE ClockInv' OBVIOUS
<1> USE DEF ClockInv
<1>1. /\ phase' = "done" /\ result' = Combined(Proc, Sample)
      /\ UNCHANGED <<x, y, wall, cycles, cpuinfo, overheads, steps>>
  BY DEF GetCpuMhz
<1>2. TypeInv' BY <1>1 DEF TypeInv
<1>3. LengthInv' BY <1>1 DEF LengthInv
<1>4. LineInv' BY <1>1 DEF LineInv
<1>5. ResultInv'
  <2>1. Proc' = Proc BY <1>1 DEF Proc
  <2>2. Sample' = Sample BY <1>1 DEF Sample, Covariance, Products, Total
  <2> QED BY <1>1, <2>1, <2>2 DEF ResultInv, Combined, Agree
<1> QED BY <1>2, <1>3, <1>4, <1>5

LEMMA GettimeofdayFailsInv == ClockInv /\ GettimeofdayFails => ClockInv'
<1> SUFFICES ASSUME ClockInv, GettimeofdayFails PROVE ClockInv' OBVIOUS
<1> USE DEF ClockInv
<1>1. /\ phase \in {"start", "poll"} /\ phase' = "done"
      /\ UNCHANGED <<x, y, wall, cycles, cpuinfo, overheads, steps>>
  BY DEF GettimeofdayFails
<1>2. TypeInv' BY <1>1 DEF TypeInv
<1>3. LengthInv' BY <1>1 DEF LengthInv
<1>4. LineInv' BY <1>1 DEF LineInv
<1>5. ResultInv'
  <2>1. PICK n \in Nat : n = Len(x) BY DEF TypeInv
  <2>2. n < Measurements BY <1>1, <2>1 DEF LengthInv
  <2>3. n # Measurements BY <2>2, ClockAssumption
  <2> QED BY <1>1, <2>1, <2>3 DEF ResultInv
<1> QED BY <1>2, <1>3, <1>4, <1>5

LEMMA StutterInv == ClockInv /\ UNCHANGED vars => ClockInv'
<1> SUFFICES ASSUME ClockInv, UNCHANGED vars PROVE ClockInv' OBVIOUS
<1>1. UNCHANGED <<phase, x, y, wall, cycles, cpuinfo, result, overheads, steps>> BY DEF vars
<1>2. TypeInv' /\ LengthInv' /\ LineInv' BY <1>1 DEF ClockInv, TypeInv, LengthInv, LineInv
<1>3. Proc' = Proc BY <1>1 DEF Proc
<1>4. Sample' = Sample BY <1>1 DEF Sample, Covariance, Products, Total
<1>5. ResultInv' BY <1>1, <1>3, <1>4 DEF ClockInv, ResultInv, Combined, Agree
<1> QED BY <1>2, <1>5 DEF ClockInv

\* get_cpu_mhz keeps the invariant: as long as nobody sets the wall clock,
\* every measurement is a point of a line whose slope is the counter's rate.
THEOREM ClockInvariant == Spec => []ClockInv
<1>1. ClockInv /\ [Next]_vars => ClockInv'
  BY StartMeasurementInv, PollInv, AdjustClockInv, GetCpuMhzInv, GettimeofdayFailsInv, StutterInv
  DEF Next, Step
<1> QED BY <1>1, InitInv, PTL DEF Spec

----------------------------------------------------------------------------
(* What get_cpu_mhz returns.                                               *)

LEMMA ProcNat == TypeInv => Proc \in Nat
<1> SUFFICES ASSUME TypeInv PROVE Proc \in Nat OBVIOUS
<1> DEFINE found == {i \in 1 .. Len(cpuinfo) : cpuinfo[i] # 0}
<1>1. cpuinfo \in Seq(Nat) BY DEF TypeInv
<1>2. Proc = IF found = {} THEN 0 ELSE cpuinfo[Min(found)] BY DEF Proc
<1>3. found \in SUBSET Nat /\ found \subseteq 1 .. Len(cpuinfo) OBVIOUS
<1> HIDE DEF found
<1>4. CASE found = {} BY <1>2, <1>4
<1>5. CASE found # {}
  <2>1. \E i \in found : \A j \in found : i <= j BY <1>3, <1>5, LeastElement
  <2>2. Min(found) \in found BY <2>1 DEF Min
  <2>3. PICK i \in 1 .. Len(cpuinfo) : i = Min(found) BY <1>3, <2>2
  <2>4. cpuinfo[i] \in Nat BY <1>1
  <2> QED BY <1>2, <1>5, <2>3, <2>4
<1> QED BY <1>4, <1>5

\* 2 percent of a frequency do not depend on how the fraction is written.
LEMMA AgreeScaled ==
  ASSUME NEW p \in Nat, NEW m \in Int, NEW c \in Int, c > 0
  PROVE  Agree(p, <<m * c, c>>) <=> Agree(p, <<m, 1>>)
<1> DEFINE Abs(e) == IF e > 0 THEN e ELSE -e
<1>1. Agree(p, <<m * c, c>>) <=> 50 * Abs(p * c - m * c) <= p * c BY DEF Agree
<1>2. Agree(p, <<m, 1>>) <=> 50 * Abs(p * 1 - m) <= p * 1 BY DEF Agree
<1>3. PICK e \in Int : e = p - m OBVIOUS
<1>4. p * c - m * c = e * c /\ p * 1 - m = e /\ p * 1 = p BY <1>3
<1>5. PICK a \in Nat : a = Abs(e) OBVIOUS
<1>6. Abs(e * c) = a * c
  <2>1. CASE e > 0
    <3>1. e * c > 0 BY <2>1, SMTT(20)
    <3>2. a = e /\ Abs(e * c) = e * c BY <1>5, <2>1, <3>1
    <3> QED BY <3>2
  <2>2. CASE ~ (e > 0)
    <3>1. ~ (e * c > 0) BY <2>2, SMTT(20)
    <3>2. a = -e /\ Abs(e * c) = -(e * c) BY <1>5, <2>2, <3>1
    <3>3. -(e * c) = (-e) * c OBVIOUS
    <3> QED BY <3>2, <3>3
  <2> QED BY <2>1, <2>2
<1>7. 50 * (a * c) <= p * c <=> 50 * a <= p
  <2>1. PICK q \in Int : q = p - 50 * a OBVIOUS
  <2>2. p * c - 50 * (a * c) = q * c BY <2>1
  <2>3. q * c >= 0 <=> q >= 0 BY SMTT(20)
  <2>4. PICK r \in Int, t \in Int : r = p * c /\ t = a * c OBVIOUS
  <2>5. r - 50 * t >= 0 <=> q >= 0 BY <2>2, <2>3, <2>4
  <2> QED BY <2>1, <2>4, <2>5
<1> QED BY <1>1, <1>2, <1>4, <1>5, <1>6, <1>7

\* The regression over points of a line: NaN if they are all the same, else
\* the slope, whose numerator and denominator have the variance as a factor.
LEMMA SampleOfLine ==
  ASSUME x \in [Index -> Int], y \in [Index -> Int], NEW o \in Int,
         \A k \in Index : y[k] = o + Mhz * x[k]
  PROVE  \/ Sample = NaN /\ \A k \in Index : x[k] = x[1]
         \/ \E c \in Int : c > 0 /\ Sample = <<Mhz * c, c>>
<1>0. Mhz \in Int BY ClockAssumption
<1>1. PICK c \in Int : c = Covariance(x, x) BY CovarianceInt
<1>2. Covariance(x, y) = Mhz * c /\ Covariance(y, y) = Mhz * Mhz * c
  BY <1>0, <1>1, LineCovariance
<1>3. c >= 0 /\ (c = 0 => \A k \in Index : x[k] = x[1]) BY <1>1, VarianceNonNegative
<1>4. CASE c = 0 BY <1>1, <1>3, <1>4 DEF Sample
<1>5. CASE c # 0
  <2>1. PICK t \in Int : t = Mhz * c BY <1>0
  <2>2. t * t >= 0 OBVIOUS
  <2>3. 10 * t * t = 10 * (t * t) OBVIOUS
  <2>4. 9 * c * (Mhz * Mhz * c) = 9 * ((Mhz * c) * (Mhz * c)) BY <1>0
  <2>5. ~ (10 * t * t < 9 * c * (Mhz * Mhz * c))
    <3>1. PICK s \in Int : s = t * t OBVIOUS
    <3>2. 9 * c * (Mhz * Mhz * c) = 9 * s BY <2>1, <2>4, <3>1
    <3>3. ~ (10 * s < 9 * s) BY <2>2, <3>1
    <3> QED BY <2>3, <3>1, <3>2, <3>3
  <2>6. Sample = <<Mhz * c, c>> BY <1>1, <1>2, <1>5, <2>1, <2>5 DEF Sample
  <2> QED BY <1>3, <1>5, <2>6
<1> QED BY <1>4, <1>5

LEMMA CancelsInv == ClockInv => OverheadCancels
<1> SUFFICES ASSUME ClockInv, phase = "done", Len(x) = Measurements, steps = 0, Cardinality(overheads) = 1
             PROVE  \/ Proc = 0 /\ result = Zero
                    \/ /\ result = <<Proc, 1>>
                       /\ Agree(Proc, <<Mhz, 1>>) \/ \A k \in Index : x[k] = x[1]
                    \/ result[1] = Mhz * result[2] /\ ~ Agree(Proc, <<Mhz, 1>>)
  BY DEF OverheadCancels, Index
<1>1. PICK o : overheads = {o} BY FS_Singleton DEF ClockInv, TypeInv
<1>2. o \in Int BY <1>1 DEF ClockInv, TypeInv
<1>3. x \in [Index -> Int] /\ y \in [Index -> Int] BY DEF ClockInv, TypeInv, Index
<1>4. \A k \in Index : y[k] = o + Mhz * x[k] BY <1>1 DEF ClockInv, LineInv, Index
<1>5. result = Combined(Proc, Sample) BY DEF ClockInv, ResultInv
<1>6. PICK p \in Nat : p = Proc BY ProcNat DEF ClockInv
<1>7. Mhz \in Nat BY ClockAssumption
<1>8. CASE p = 0 BY <1>5, <1>6, <1>8 DEF Combined
<1>9. CASE p # 0 /\ Sample = NaN /\ \A k \in Index : x[k] = x[1]
  BY <1>5, <1>6, <1>9 DEF Combined
<1>10. ASSUME p # 0, NEW c \in Int, c > 0, Sample = <<Mhz * c, c>>
       PROVE  \/ result = <<p, 1>> /\ Agree(p, <<Mhz, 1>>)
              \/ result[1] = Mhz * result[2] /\ ~ Agree(p, <<Mhz, 1>>)
  <2>1. Sample # NaN BY <1>10 DEF NaN
  <2>2. CASE Mhz * c = 0
    <3>1. Mhz = 0 BY <1>7, <1>10, <2>2, SMTT(20)
    <3>2. result = Zero BY <1>5, <1>6, <1>10, <2>1, <2>2 DEF Combined
    <3>3. ~ Agree(p, <<0, 1>>) BY <1>10 DEF Agree
    <3> QED BY <3>1, <3>2, <3>3 DEF Zero
  <2>3. CASE Mhz * c # 0
    <3>1. result = IF Agree(p, Sample) THEN <<p, 1>> ELSE Sample
      BY <1>5, <1>6, <1>10, <2>1, <2>3 DEF Combined
    <3>2. Agree(p, Sample) <=> Agree(p, <<Mhz, 1>>) BY <1>7, <1>10, AgreeScaled
    <3> QED BY <3>1, <3>2, <1>10
  <2> QED BY <2>2, <2>3
<1> QED BY <1>2, <1>3, <1>4, <1>6, <1>8, <1>9, <1>10, SampleOfLine

\* For any number of measurements, any rate and any constant overhead, and
\* however late each poll of gettimeofday ends: the regression of
\* sample_get_cpu_mhz gives the rate exactly, and get_cpu_mhz returns that or
\* what /proc/cpuinfo shows when the two agree.
THEOREM OverheadAlwaysCancels == Spec => []OverheadCancels
BY ClockInvariant, CancelsInv, PTL
=============================================================================
