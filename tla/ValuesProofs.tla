------------------------------ MODULE ValuesProofs ------------------------------
(***************************************************************************)
(* Values for every number, and for every number of digits that %g, a      *)
(* float and a double have.                                                *)
(***************************************************************************)
EXTENDS Values, WellFoundedInduction, TLAPS

-----------------------------------------------------------------------------
(* The least and the greatest of some numbers.                             *)
LEMMA LeastIs ==
  ASSUME NEW S \in SUBSET Nat, S # {}
  PROVE  \E n \in S : \A m \in S : n <= m
  <1> DEFINE R == OpToRel(<, Nat)
  <1>1. IsWellFoundedOn(R, Nat)
    BY NatLessThanWellFounded
  <1>2. \A x, y \in Nat : x < y => <<x, y>> \in R
    BY DEF OpToRel
  <1> HIDE DEF R
  <1>3. PICK n \in S : \A m \in S : ~ (<<m, n>> \in R)
    BY <1>1, WFMin
  <1>4. ASSUME NEW m \in S PROVE n <= m
    <2>1. n \in Nat /\ m \in Nat /\ ~ (m < n)
      BY <1>2, <1>3
    <2> QED
      BY <2>1
  <1> QED
    BY <1>4

(* Induction over the natural numbers, for a set of them.                  *)
LEMMA AllOfNat ==
  ASSUME NEW S \in SUBSET Nat, 0 \in S, \A n \in S : n + 1 \in S
  PROVE  S = Nat
  <1> SUFFICES ASSUME S # Nat PROVE FALSE
    OBVIOUS
  <1>1. PICK n \in Nat \ S : \A m \in Nat \ S : n <= m
    BY LeastIs
  <1>2. n # 0 /\ n - 1 \in Nat
    BY <1>1
  <1>3. n - 1 \in S
    BY <1>1, <1>2
  <1>4. (n - 1) + 1 \in S
    BY <1>3
  <1> QED
    BY <1>1, <1>4

LEMMA MaxOfTwo ==
  ASSUME NEW m \in Int, NEW n \in Int
  PROVE  Max({m, n}) = IF m <= n THEN n ELSE m
  <1> DEFINE greatest == IF m <= n THEN n ELSE m
  <1>1. greatest \in {m, n} /\ \A y \in {m, n} : greatest >= y
    OBVIOUS
  <1>2. \A x \in {m, n} : (\A y \in {m, n} : x >= y) => x = greatest
    OBVIOUS
  <1> HIDE DEF greatest
  <1>3. Max({m, n}) = greatest
    BY <1>1, <1>2 DEF Max
  <1> QED
    BY <1>3 DEF greatest

LEMMA MaxIs ==
  ASSUME NEW b \in Nat, NEW S \in SUBSET (0..b), S # {}
  PROVE  Max(S) \in S /\ \A n \in S : n <= Max(S)
  <1> DEFINE T == {n \in Nat : b - n \in S}
  <1>1. PICK s \in S : TRUE
    OBVIOUS
  <1>2. b - s \in Nat /\ b - (b - s) = s
    OBVIOUS
  <1>3. b - s \in T
    BY <1>1, <1>2
  <1>4. PICK t \in T : \A n \in T : t <= n
    BY <1>3, LeastIs
  <1>5. ASSUME NEW n \in S PROVE n <= b - t
    <2>1. b - n \in Nat /\ b - (b - n) = n
      OBVIOUS
    <2>2. b - n \in T
      BY <2>1
    <2>3. t \in Nat /\ n \in Nat
      BY <1>4
    <2> HIDE DEF T
    <2>4. t <= b - n
      BY <1>4, <2>2
    <2> QED
      BY <2>3, <2>4
  <1>6. b - t \in S
    BY <1>4
  <1>7. \E x \in S : \A y \in S : x >= y
    <2>1. \A y \in S : b - t >= y
      BY <1>5, <1>6
    <2> QED
      BY <1>6, <2>1
  <1>8. Max(S) \in S /\ \A y \in S : Max(S) >= y
    BY <1>7, Zenon DEF Max
  <1> QED
    BY <1>8

-----------------------------------------------------------------------------
(* Powers of ten.  That there is a function as TenTo is defined is itself  *)
(* an induction, over the initial parts of it.                             *)
PowersUpTo(n, f) ==
  /\ f \in [0..n -> Nat]
  /\ \A k \in 0..n : f[k] = IF k = 0 THEN 1 ELSE 10 * f[k - 1]

LEMMA PartsExist == \A n \in Nat : \E f : PowersUpTo(n, f)
  <1> DEFINE S == {n \in Nat : \E f : PowersUpTo(n, f)}
  <1>1. 0 \in S
    <2>1. PowersUpTo(0, [k \in 0..0 |-> 1])
      BY DEF PowersUpTo
    <2> QED
      BY <2>1
  <1>2. ASSUME NEW n \in S PROVE n + 1 \in S
    <2>1. PICK f : PowersUpTo(n, f)
      BY <1>2
    <2> DEFINE g == [k \in 0..(n + 1) |-> IF k <= n THEN f[k] ELSE 10 * f[n]]
    <2>2. n \in Nat /\ n \in 0..n /\ f[n] \in Nat
      BY <2>1 DEF PowersUpTo
    <2>3. g \in [0..(n + 1) -> Nat]
      BY <2>1, <2>2 DEF PowersUpTo
    <2>4. ASSUME NEW k \in 0..(n + 1) PROVE g[k] = IF k = 0 THEN 1 ELSE 10 * g[k - 1]
      <3>1. CASE k = 0
        BY <2>1, <2>2, <3>1 DEF PowersUpTo
      <3>2. CASE k # 0 /\ k <= n
        <4>1. k \in 0..n /\ k - 1 \in 0..(n + 1) /\ k - 1 <= n
          BY <2>2, <3>2
        <4>2. g[k] = f[k] /\ g[k - 1] = f[k - 1]
          BY <3>2, <4>1
        <4> QED
          BY <2>1, <3>2, <4>1, <4>2 DEF PowersUpTo
      <3>3. CASE k = n + 1
        <4>1. ~(k <= n) /\ k - 1 = n /\ n \in 0..(n + 1) /\ n <= n /\ k # 0
          BY <2>2, <3>3
        <4> QED
          BY <4>1
      <3> QED
        BY <2>2, <3>1, <3>2, <3>3
    <2> HIDE DEF g
    <2>5. PowersUpTo(n + 1, g)
      BY <2>3, <2>4 DEF PowersUpTo
    <2> QED
      BY <2>5
  <1>3. S = Nat
    <2> HIDE DEF S
    <2>1. S \in SUBSET Nat
      BY DEF S
    <2> QED
      BY <1>1, <1>2, <2>1, AllOfNat
  <1> QED
    BY <1>3

LEMMA PartsAgree ==
  ASSUME NEW m \in Nat, NEW n \in Nat, m <= n, NEW f, NEW g, PowersUpTo(m, f), PowersUpTo(n, g)
  PROVE  \A k \in 0..m : f[k] = g[k]
  <1> DEFINE S == {k \in Nat : k <= m => f[k] = g[k]}
  <1>1. 0 \in S
    BY DEF PowersUpTo
  <1>2. ASSUME NEW k \in S PROVE k + 1 \in S
    <2> SUFFICES ASSUME k + 1 <= m PROVE f[k + 1] = g[k + 1]
      OBVIOUS
    <2>1. k + 1 \in 0..m /\ k + 1 \in 0..n /\ k + 1 # 0 /\ (k + 1) - 1 = k /\ k <= m
      OBVIOUS
    <2> QED
      BY <1>2, <2>1 DEF PowersUpTo
  <1>3. S = Nat
    <2> HIDE DEF S
    <2>1. S \in SUBSET Nat
      BY DEF S
    <2> QED
      BY <1>1, <1>2, <2>1, AllOfNat
  <1> QED
    BY <1>3

LEMMA PowersExist == \E f : f = [k \in Nat |-> IF k = 0 THEN 1 ELSE 10 * f[k - 1]]
  <1> DEFINE part(n) == CHOOSE f : PowersUpTo(n, f)
             f == [k \in Nat |-> part(k)[k]]
  <1>1. \A n \in Nat : PowersUpTo(n, part(n))
    BY PartsExist, Zenon
  <1> HIDE DEF part
  <1>2. ASSUME NEW k \in Nat PROVE f[k] = IF k = 0 THEN 1 ELSE 10 * f[k - 1]
    <2>1. CASE k = 0
      <3>1. 0 \in 0..0
        OBVIOUS
      <3> QED
        BY <1>1, <2>1, <3>1 DEF PowersUpTo
    <2>2. CASE k # 0
      <3>1. k \in 0..k /\ k - 1 \in Nat /\ k - 1 <= k /\ k - 1 \in 0..(k - 1)
        BY <2>2
      <3>2. part(k)[k] = 10 * part(k)[k - 1]
        BY <1>1, <2>2, <3>1 DEF PowersUpTo
      <3>3. PowersUpTo(k - 1, part(k - 1)) /\ PowersUpTo(k, part(k))
        BY <1>1, <3>1
      <3>4. part(k - 1)[k - 1] = part(k)[k - 1]
        BY <3>1, <3>3, PartsAgree
      <3> QED
        BY <2>2, <3>1, <3>2, <3>4
    <2> QED
      BY <2>1, <2>2
  <1>3. f = [k \in Nat |-> IF k = 0 THEN 1 ELSE 10 * f[k - 1]]
    BY <1>2
  <1> QED
    BY <1>3

LEMMA TenToIs ==
  /\ TenTo[0] = 1
  /\ \A k \in Nat : TenTo[k] \in Nat /\ TenTo[k] > 0 /\ TenTo[k + 1] = 10 * TenTo[k]
  <1>1. TenTo = [k \in Nat |-> IF k = 0 THEN 1 ELSE 10 * TenTo[k - 1]]
    BY PowersExist, Zenon DEF TenTo
  <1> HIDE DEF TenTo
  <1>2. TenTo[0] = 1
    BY <1>1
  <1>3. ASSUME NEW k \in Nat PROVE TenTo[k + 1] = 10 * TenTo[k]
    <2>1. k + 1 \in Nat /\ k + 1 # 0 /\ (k + 1) - 1 = k
      OBVIOUS
    <2> QED
      BY <1>1, <2>1
  <1> DEFINE S == {k \in Nat : TenTo[k] \in Nat /\ TenTo[k] > 0}
  <1>4. S = Nat
    <2>1. 0 \in S
      BY <1>2
    <2>2. \A n \in S : n + 1 \in S
      BY <1>3
    <2>3. S \in SUBSET Nat
      OBVIOUS
    <2> HIDE DEF S
    <2> QED
      BY <2>1, <2>2, <2>3, AllOfNat
  <1> QED
    BY <1>2, <1>3, <1>4

LEMMA TenToGrows ==
  ASSUME NEW a \in Nat, NEW b \in Nat, a <= b
  PROVE  TenTo[a] <= TenTo[b]
  <1> DEFINE S == {n \in Nat : TenTo[a] <= TenTo[a + n]}
  <1>1. 0 \in S
    BY TenToIs
  <1>2. ASSUME NEW n \in S PROVE n + 1 \in S
    <2>1. a + n \in Nat /\ a + (n + 1) = (a + n) + 1
      OBVIOUS
    <2>2. /\ TenTo[a] \in Nat /\ TenTo[a + n] \in Nat
          /\ TenTo[(a + n) + 1] = 10 * TenTo[a + n]
      BY <2>1, TenToIs
    <2>3. TenTo[a] <= TenTo[a + n]
      OBVIOUS
    <2>4. TenTo[a] <= 10 * TenTo[a + n]
      BY <2>2, <2>3
    <2> QED
      BY <2>1, <2>2, <2>4
  <1>3. S = Nat
    <2>1. S \in SUBSET Nat
      OBVIOUS
    <2> HIDE DEF S
    <2> QED
      BY <1>1, <1>2, <2>1, AllOfNat
  <1>4. b - a \in Nat /\ a + (b - a) = b
    OBVIOUS
  <1>5. b - a \in S
    BY <1>3, <1>4
  <1> QED
    BY <1>4, <1>5

LEMMA TenToAdds ==
  ASSUME NEW a \in Nat, NEW b \in Nat
  PROVE  TenTo[a + b] = TenTo[a] * TenTo[b]
  <1> DEFINE S == {n \in Nat : TenTo[a + n] = TenTo[a] * TenTo[n]}
  <1>1. 0 \in S
    BY TenToIs
  <1>2. ASSUME NEW n \in S PROVE n + 1 \in S
    <2>1. a + n \in Nat /\ a + (n + 1) = (a + n) + 1
      OBVIOUS
    <2>2. /\ TenTo[a] \in Nat /\ TenTo[n] \in Nat
          /\ TenTo[(a + n) + 1] = 10 * TenTo[a + n]
          /\ TenTo[n + 1] = 10 * TenTo[n]
      BY <2>1, TenToIs
    <2>3. TenTo[a + n] = TenTo[a] * TenTo[n]
      OBVIOUS
    <2>4. \A x, y \in Nat : 10 * (x * y) = x * (10 * y)
      OBVIOUS
    <2>5. TenTo[(a + n) + 1] = TenTo[a] * (10 * TenTo[n])
      BY <2>2, <2>3, <2>4
    <2> QED
      BY <2>1, <2>2, <2>5
  <1>3. S = Nat
    <2>1. S \in SUBSET Nat
      OBVIOUS
    <2> HIDE DEF S
    <2> QED
      BY <1>1, <1>2, <2>1, AllOfNat
  <1>4. b \in S
    BY <1>3
  <1> QED
    BY <1>4

LEMMA TenToExceeds == \A n \in Nat : n < TenTo[n]
  <1> DEFINE S == {n \in Nat : n < TenTo[n]}
  <1>1. 0 \in S
    BY TenToIs
  <1>2. ASSUME NEW n \in S PROVE n + 1 \in S
    <2>1. TenTo[n] \in Nat /\ TenTo[n + 1] = 10 * TenTo[n] /\ n < TenTo[n]
      BY TenToIs
    <2> QED
      BY <2>1
  <1>3. S = Nat
    <2>1. S \in SUBSET Nat
      OBVIOUS
    <2> HIDE DEF S
    <2> QED
      BY <1>1, <1>2, <2>1, AllOfNat
  <1> QED
    BY <1>3

-----------------------------------------------------------------------------
(* Digits and quotients.                                                   *)
LEMMA MagnitudeIs ==
  ASSUME NEW n \in Int
  PROVE  Magnitude(n) \in Nat /\ (Magnitude(n) = 0 <=> n = 0)
  BY DEF Magnitude

LEMMA MagnitudeOfProduct ==
  ASSUME NEW n \in Int, NEW u \in Nat
  PROVE  Magnitude(n * u) = Magnitude(n) * u
  <1>1. CASE n >= 0
    <2>1. n * u >= 0
      BY <1>1
    <2> QED
      BY <1>1, <2>1 DEF Magnitude
  <1>2. CASE n < 0
    <2>1. n * u <= 0 /\ -(n * u) = (-n) * u
      BY <1>2
    <2>2. n * u = 0 => -(n * u) = 0
      OBVIOUS
    <2> QED
      BY <1>2, <2>1, <2>2 DEF Magnitude
  <1> QED
    BY <1>1, <1>2

LEMMA DigitsAre ==
  ASSUME NEW n \in Int
  PROVE  /\ DigitsOf(n) \in Nat /\ DigitsOf(n) > 0
         /\ Magnitude(n) < TenTo[DigitsOf(n)]
         /\ n # 0 => TenTo[DigitsOf(n) - 1] <= Magnitude(n)
  <1>1. CASE n = 0
    <2>1. DigitsOf(n) = 1 /\ Magnitude(n) = 0
      BY <1>1 DEF DigitsOf, Magnitude
    <2> QED
      BY <1>1, <2>1, TenToIs
  <1>2. CASE n # 0
    <2> DEFINE m == Magnitude(n)
               S == {d \in Nat : m < TenTo[d]}
    <2>1. m \in Nat /\ m > 0
      BY <1>2, MagnitudeIs
    <2> HIDE DEF m
    <2>2. m \in S
      BY <2>1, TenToExceeds
    <2>3. PICK d \in S : \A e \in S : d <= e
      BY <2>2, LeastIs
    <2>4. d \in Nat /\ m < TenTo[d] /\ d <= m
      BY <2>2, <2>3
    <2>5. d # 0
      BY <2>1, <2>4, TenToIs
    <2>6. d - 1 \in Nat /\ ~(d <= d - 1)
      BY <2>4, <2>5
    <2>7. ~(m < TenTo[d - 1])
      BY <2>3, <2>6
    <2>8. TenTo[d - 1] <= m
      BY <2>1, <2>6, <2>7, TenToIs
    <2>9. \E x \in 1..m : TenTo[x - 1] <= m /\ m < TenTo[x]
      <3>1. d \in 1..m
        BY <2>1, <2>4, <2>5
      <3> QED
        BY <2>4, <2>8, <3>1
    <2>10. DigitsOf(n) = CHOOSE x \in 1..m : TenTo[x - 1] <= m /\ m < TenTo[x]
      BY <1>2 DEF DigitsOf, m
    <2> DEFINE D == DigitsOf(n)
    <2>11. D \in 1..m /\ TenTo[D - 1] <= m /\ m < TenTo[D]
      BY <2>9, <2>10, Zenon
    <2> QED
      BY <2>1, <2>11 DEF m
  <1> QED
    BY <1>1, <1>2

LEMMA FewDigits ==
  ASSUME NEW n \in Int, NEW s \in Nat, s > 0, Magnitude(n) < TenTo[s]
  PROVE  DigitsOf(n) <= s
  <1>1. CASE n = 0
    BY <1>1 DEF DigitsOf
  <1>2. CASE n # 0
    <2> DEFINE D == DigitsOf(n)
    <2>1. D \in Nat /\ D > 0 /\ TenTo[D - 1] <= Magnitude(n)
      BY <1>2, DigitsAre
    <2> HIDE DEF D
    <2> SUFFICES ASSUME ~(D <= s) PROVE FALSE
      BY DEF D
    <2>2. D - 1 \in Nat /\ s <= D - 1
      BY <2>1
    <2>3. TenTo[s] <= TenTo[D - 1] /\ TenTo[s] \in Nat /\ TenTo[D - 1] \in Nat
      BY <2>2, TenToGrows, TenToIs
    <2> QED
      BY <2>1, <2>3, MagnitudeIs
  <1> QED
    BY <1>1, <1>2

LEMMA TensAre ==
  ASSUME NEW n \in Int
  PROVE  n % 10 = 0 <=> \E c \in Int : n = c * 10
  OBVIOUS

LEMMA Cancel ==
  ASSUME NEW a \in Int, NEW b \in Int, NEW u \in Nat, u > 0, a * u = b * u
  PROVE  a = b
  OBVIOUS

LEMMA DivisionIs ==
  ASSUME NEW a \in Int, NEW u \in Nat, u > 0
  PROVE  /\ a \div u \in Int /\ a % u \in Int
         /\ a = u * (a \div u) + (a % u) /\ 0 <= a % u /\ a % u < u
  OBVIOUS

LEMMA NoRemainder ==
  ASSUME NEW a \in Int, NEW u \in Nat, u > 0
  PROVE  /\ \A q \in Int : a = q * u => a % u = 0
         /\ a % u = 0 => Quotient(a, u) \in Int /\ a = Quotient(a, u) * u
  <1>1. \A b, q \in Int : b = q * u => b % u = 0
    OBVIOUS
  <1>2. ASSUME a % u = 0 PROVE Quotient(a, u) \in Int /\ a = Quotient(a, u) * u
    <2>1. a = u * (a \div u) /\ a \div u \in Int
      BY <1>2, DivisionIs
    <2>2. CASE a >= 0
      BY <2>1, <2>2 DEF Quotient
    <2>3. CASE a < 0
      <3> DEFINE q == a \div u
      <3>1. -a = (-q) * u /\ -a \in Int /\ -q \in Int
        BY <2>1
      <3> HIDE DEF q
      <3>2. (-a) % u = 0
        BY <1>1, <3>1
      <3>3. -a = u * ((-a) \div u) /\ (-a) \div u \in Int
        BY <3>2, DivisionIs
      <3>4. a = (-((-a) \div u)) * u
        BY <3>3
      <3> QED
        BY <2>3, <3>3, <3>4 DEF Quotient
    <2> QED
      BY <2>2, <2>3
  <1> QED
    BY <1>1, <1>2

LEMMA QuotientIs ==
  ASSUME NEW a \in Int, NEW u \in Nat, u > 0
  PROVE  Quotient(a, u) \in Int /\ Magnitude(Quotient(a, u)) * u <= Magnitude(a)
  <1>1. CASE a >= 0
    <2> DEFINE q == a \div u
    <2>1. q \in Int /\ a % u \in Int /\ a = u * q + (a % u) /\ 0 <= a % u /\ a % u < u
      BY DivisionIs
    <2> HIDE DEF q
    <2>2. q >= 0 /\ q * u <= a
      BY <1>1, <2>1
    <2> QED
      BY <1>1, <2>1, <2>2 DEF Quotient, Magnitude, q
  <1>2. CASE a < 0
    <2> DEFINE b == -a
               q == b \div u
    <2>0. b \in Int /\ b > 0
      BY <1>2
    <2> HIDE DEF b
    <2>1. q \in Int /\ b % u \in Int /\ b = u * q + (b % u) /\ 0 <= b % u /\ b % u < u
      BY <2>0, DivisionIs
    <2> HIDE DEF q
    <2>2. q >= 0 /\ q * u <= b
      BY <2>0, <2>1
    <2>3. Quotient(a, u) = -q /\ Magnitude(a) = b
      BY <1>2 DEF Quotient, Magnitude, q, b
    <2>4. Magnitude(-q) = q
      BY <2>1, <2>2 DEF Magnitude
    <2> QED
      BY <2>1, <2>2, <2>3, <2>4
  <1> QED
    BY <1>1, <1>2

-----------------------------------------------------------------------------
(* The one form of a number.                                               *)
Plain(y) ==
  /\ y = [m |-> y.m, e |-> y.e] /\ y.m \in Int /\ y.e \in Int
  /\ IF y.m = 0 THEN y.e = 0 ELSE y.m % 10 # 0

LEMMA NumberIs ==
  ASSUME NEW m \in Int, NEW e \in Int
  PROVE  LET y == Number(m, e) IN
           /\ Plain(y)
           /\ \E k \in Nat : m = y.m * TenTo[k] /\ (m # 0 => y.e = e + k)
  <1>1. CASE m = 0
    <2>1. Number(m, e) = [m |-> 0, e |-> 0]
      BY <1>1 DEF Number
    <2>2. 0 = 0 * TenTo[0]
      BY TenToIs
    <2> QED
      BY <1>1, <2>1, <2>2 DEF Plain
  <1>2. CASE m # 0
    <2> DEFINE D == DigitsOf(m)
               S == {j \in 0..(D - 1) : m % TenTo[j] = 0}
               k == Max(S)
               q == Quotient(m, TenTo[k])
    <2>1. D \in Nat /\ D > 0 /\ Magnitude(m) < TenTo[D]
      BY DigitsAre
    <2> HIDE DEF D
    <2>2. 0 \in S
      BY <2>1, TenToIs
    <2>3. D - 1 \in Nat /\ S \in SUBSET (0..(D - 1))
      BY <2>1
    <2>4. k \in S /\ \A j \in S : j <= k
      <3> HIDE DEF S
      <3> QED
        BY <2>2, <2>3, MaxIs
    <2>5. k \in Nat /\ k <= D - 1 /\ m % TenTo[k] = 0
      BY <2>1, <2>4
    <2> HIDE DEF k
    <2>6. TenTo[k] \in Nat /\ TenTo[k] > 0 /\ TenTo[k + 1] = 10 * TenTo[k]
      BY <2>5, TenToIs
    <2>7. q \in Int /\ m = q * TenTo[k]
      BY <2>5, <2>6, NoRemainder
    <2>8. Number(m, e) = [m |-> q, e |-> e + k]
      BY <1>2 DEF Number, k, S, D
    <2> HIDE DEF q
    <2>9. q # 0
      BY <1>2, <2>6, <2>7
    <2>10. q % 10 # 0
      <3> SUFFICES ASSUME q % 10 = 0 PROVE FALSE
        OBVIOUS
      <3>1. PICK c \in Int : q = c * 10
        BY <2>7, TensAre
      <3>2. c # 0
        BY <2>9, <3>1
      <3>3. m = c * TenTo[k + 1]
        <4>1. \A x \in Nat : (c * 10) * x = c * (10 * x)
          BY <3>1
        <4> QED
          BY <2>6, <2>7, <3>1, <4>1
      <3>4. k + 1 \in Nat /\ TenTo[k + 1] \in Nat /\ TenTo[k + 1] > 0
        BY <2>5, TenToIs
      <3>5. m % TenTo[k + 1] = 0
        BY <3>1, <3>3, <3>4, NoRemainder
      <3>6. Magnitude(m) = Magnitude(c) * TenTo[k + 1]
        BY <3>1, <3>3, <3>4, MagnitudeOfProduct
      <3>7. TenTo[k + 1] <= Magnitude(m)
        <4>1. Magnitude(c) \in Nat /\ Magnitude(c) >= 1
          BY <3>1, <3>2, MagnitudeIs
        <4> QED
          BY <3>4, <3>6, <4>1
      <3>8. k + 1 <= D - 1
        <4> SUFFICES ASSUME ~(k + 1 <= D - 1) PROVE FALSE
          OBVIOUS
        <4>1. D <= k + 1
          BY <2>1, <2>5
        <4>2. TenTo[D] <= TenTo[k + 1] /\ TenTo[D] \in Nat
          BY <2>1, <3>4, <4>1, TenToGrows, TenToIs
        <4> QED
          BY <2>1, <3>4, <3>7, <4>2, MagnitudeIs
      <3>9. k + 1 \in S
        BY <2>1, <3>4, <3>5, <3>8
      <3> HIDE DEF S
      <3>10. k + 1 <= k
        BY <2>4, <3>9
      <3> QED
        BY <2>5, <3>10
    <2>11. e + k \in Int
      BY <2>5
    <2> QED
      BY <2>5, <2>7, <2>8, <2>9, <2>10, <2>11 DEF Plain
  <1> QED
    BY <1>1, <1>2

LEMMA PlainIsNumber ==
  ASSUME NEW y, Plain(y)
  PROVE  Number(y.m, y.e) = y
  <1>1. CASE y.m = 0
    BY <1>1 DEF Plain, Number
  <1>2. CASE y.m # 0
    <2> DEFINE z == Number(y.m, y.e)
    <2>1. y.m \in Int /\ y.e \in Int /\ y.m % 10 # 0 /\ y = [m |-> y.m, e |-> y.e]
      BY <1>2 DEF Plain
    <2>2. PICK k \in Nat : y.m = z.m * TenTo[k] /\ z.e = y.e + k
      BY <1>2, <2>1, NumberIs
    <2>3. z.m \in Int /\ z = [m |-> z.m, e |-> z.e]
      BY <2>1, NumberIs DEF Plain
    <2> HIDE DEF z
    <2>4. k = 0
      <3> SUFFICES ASSUME k # 0 PROVE FALSE
        OBVIOUS
      <3>1. k - 1 \in Nat /\ (k - 1) + 1 = k
        OBVIOUS
      <3>2. TenTo[k - 1] \in Nat /\ TenTo[k] = 10 * TenTo[k - 1]
        BY <3>1, TenToIs
      <3>3. y.m = (z.m * TenTo[k - 1]) * 10 /\ z.m * TenTo[k - 1] \in Int
        BY <2>2, <2>3, <3>2
      <3> QED
        BY <2>1, <3>3, TensAre
    <2>5. y.m = z.m /\ z.e = y.e
      BY <2>1, <2>2, <2>3, <2>4, TenToIs
    <2> QED
      BY <2>1, <2>3, <2>5 DEF z
  <1> QED
    BY <1>1, <1>2

(* A number of no more than s digits is the one that is nearest to it.     *)
LEMMA NearestOfShort ==
  ASSUME NEW y, Plain(y), NEW s \in Nat, DigitsOf(y.m) <= s
  PROVE  Nearest(y, s) = {y}
  <1> DEFINE m == y.m
             unit == TenTo[Max({0, DigitsOf(m) - s})]
             near == {q \in {Quotient(m, unit) + i : i \in {-1, 0, 1}} :
                        2 * Magnitude(m - q * unit) <= unit}
  <1>1. m \in Int /\ DigitsOf(m) \in Nat
    BY DigitsAre DEF Plain
  <1>2. Max({0, DigitsOf(m) - s}) = 0
    <2>1. DigitsOf(m) - s \in Int /\ DigitsOf(m) - s <= 0
      BY <1>1
    <2> QED
      BY <2>1, MaxOfTwo
  <1>3. unit = 1
    BY <1>2, TenToIs
  <1>4. Nearest(y, s) = {Number(q * unit, y.e) : q \in near}
    BY DEF Nearest
  <1> HIDE DEF unit, m
  <1>5. Quotient(m, 1) = m
    <2>1. m % 1 = 0
      BY <1>1
    <2>2. Quotient(m, 1) \in Int /\ m = Quotient(m, 1) * 1
      BY <1>1, <2>1, NoRemainder
    <2> QED
      BY <2>2
  <1>6. near = {m}
    <2>1. near = {q \in {m + i : i \in {-1, 0, 1}} : 2 * Magnitude(m - q * 1) <= 1}
      BY <1>3, <1>5
    <2>2. \A i \in {-1, 0, 1} : 2 * Magnitude(m - (m + i) * 1) <= 1 <=> i = 0
      BY <1>1 DEF Magnitude
    <2> HIDE DEF near
    <2>3. \A q : q \in near <=> \E i \in {-1, 0, 1} : q = m + i /\ i = 0
      BY <2>1, <2>2
    <2> QED
      BY <1>1, <2>3
  <1> HIDE DEF near
  <1>7. Nearest(y, s) = {Number(m * 1, y.e)}
    BY <1>3, <1>4, <1>6
  <1>8. m * 1 = m
    BY <1>1
  <1> QED
    BY <1>7, <1>8, PlainIsNumber DEF m

(* A rounded number has the form, and no more than s digits: one that is   *)
(* rounded up to a power of ten has one.                                   *)
LEMMA RoundedIsShort ==
  ASSUME NEW q \in Int, NEW j \in Nat, NEW e \in Int, NEW s \in Nat, s > 0,
         Magnitude(q) <= TenTo[s]
  PROVE  LET y == Number(q * TenTo[j], e) IN Plain(y) /\ DigitsOf(y.m) <= s
  <1> DEFINE n == q * TenTo[j]
             y == Number(n, e)
  <1>1. TenTo[j] \in Nat /\ TenTo[j] > 0 /\ n \in Int
    BY TenToIs
  <1>2. Plain(y) /\ \E k \in Nat : n = y.m * TenTo[k]
    BY <1>1, NumberIs
  <1>3. PICK k \in Nat : n = y.m * TenTo[k]
    BY <1>2
  <1>4. y.m \in Int /\ (y.m # 0 => y.m % 10 # 0)
    BY <1>2 DEF Plain
  <1>5. n = q * TenTo[j]
    OBVIOUS
  <1> HIDE DEF n, y
  <1>6. TenTo[k] \in Nat /\ TenTo[k] > 0 /\ TenTo[s] \in Nat /\ TenTo[s] > 0
    BY TenToIs
  <1>7. CASE y.m = 0
    BY <1>2, <1>7 DEF y, n, DigitsOf
  <1>8. CASE y.m # 0 /\ j <= k
    <2>1. k - j \in Nat /\ j + (k - j) = k
      BY <1>8
    <2> DEFINE r == TenTo[k - j]
    <2>2. r \in Nat /\ r > 0 /\ TenTo[k] = TenTo[j] * r
      <3>1. TenTo[j + (k - j)] = TenTo[j] * r
        BY <2>1, TenToAdds
      <3> QED
        BY <2>1, <3>1, TenToIs
    <2> HIDE DEF r
    <2>3. q = y.m * r
      <3>1. (y.m * r) * TenTo[j] = q * TenTo[j]
        BY <1>1, <1>3, <1>4, <1>5, <2>2
      <3>2. y.m * r \in Int
        BY <1>4, <2>2
      <3> DEFINE a == y.m * r
      <3> HIDE DEF a
      <3>3. a \in Int /\ a * TenTo[j] = q * TenTo[j]
        BY <3>1, <3>2 DEF a
      <3>4. a = q
        BY <1>1, <3>3, Cancel
      <3> QED
        BY <3>4 DEF a
    <2>4. Magnitude(q) = Magnitude(y.m) * r
      BY <1>4, <2>2, <2>3, MagnitudeOfProduct
    <2>5. Magnitude(y.m) <= Magnitude(q)
      <3>1. Magnitude(y.m) \in Nat
        BY <1>4, MagnitudeIs
      <3> QED
        BY <2>2, <2>4, <3>1
    <2>6. Magnitude(y.m) # TenTo[s]
      <3> SUFFICES ASSUME Magnitude(y.m) = TenTo[s] PROVE FALSE
        OBVIOUS
      <3>1. s - 1 \in Nat /\ (s - 1) + 1 = s
        OBVIOUS
      <3> DEFINE t == TenTo[s - 1]
      <3>2. t \in Nat /\ TenTo[s] = 10 * t
        BY <3>1, TenToIs
      <3> HIDE DEF t
      <3>3. y.m = t * 10 \/ y.m = (-t) * 10
        BY <1>4, <3>2 DEF Magnitude
      <3>4. -t \in Int
        BY <3>2
      <3>5. y.m % 10 = 0
        BY <1>4, <3>2, <3>3, <3>4, TensAre
      <3> QED
        BY <1>4, <1>8, <3>5
    <2>7. Magnitude(y.m) < TenTo[s]
      BY <1>4, <1>6, <2>5, <2>6, MagnitudeIs
    <2>8. DigitsOf(y.m) <= s
      BY <1>4, <2>7, FewDigits
    <2> QED
      BY <1>2, <2>8 DEF y, n
  <1>9. CASE y.m # 0 /\ ~(j <= k)
    <2>1. (j - k) - 1 \in Nat /\ ((j - k) - 1) + 1 \in Nat /\ k + (((j - k) - 1) + 1) = j
      BY <1>9
    <2> DEFINE r == TenTo[(j - k) - 1]
    <2>2. r \in Nat /\ TenTo[j] = TenTo[k] * (10 * r)
      <3>1. TenTo[k + (((j - k) - 1) + 1)] = TenTo[k] * TenTo[((j - k) - 1) + 1]
        BY <2>1, TenToAdds
      <3>2. r \in Nat /\ TenTo[((j - k) - 1) + 1] = 10 * r
        BY <2>1, TenToIs
      <3> QED
        BY <2>1, <3>1, <3>2
    <2> HIDE DEF r
    <2>3. y.m = (q * r) * 10
      <3> DEFINE a == (q * r) * 10
      <3>1. a \in Int
        BY <2>2
      <3>2. a * TenTo[k] = q * (TenTo[k] * (10 * r))
        BY <1>6, <2>2
      <3> HIDE DEF a
      <3>3. a * TenTo[k] = y.m * TenTo[k]
        BY <1>3, <1>5, <2>2, <3>2
      <3>4. a = y.m
        BY <1>4, <1>6, <3>1, <3>3, Cancel
      <3> QED
        BY <3>4 DEF a
    <2>4. q * r \in Int
      BY <2>2
    <2> QED
      BY <1>4, <1>9, <2>3, <2>4, TensAre
  <1> QED
    BY <1>7, <1>8, <1>9

LEMMA NearestIsShort ==
  ASSUME NEW x, x.m \in Int, x.e \in Int, NEW s \in Nat, s > 0, NEW y \in Nearest(x, s)
  PROVE  Plain(y) /\ DigitsOf(y.m) <= s
  <1> DEFINE D == DigitsOf(x.m)
             j == Max({0, D - s})
             unit == TenTo[j]
             r == Quotient(x.m, unit)
  <1>1. D \in Nat /\ D > 0 /\ Magnitude(x.m) < TenTo[D]
    BY DigitsAre
  <1> HIDE DEF D
  <1>2. j \in Nat /\ D <= s + j
    <2>1. D - s \in Int
      BY <1>1
    <2>2. j = IF 0 <= D - s THEN D - s ELSE 0
      BY <2>1, MaxOfTwo
    <2> HIDE DEF j
    <2> QED
      BY <1>1, <2>2
  <1>3. PICK i \in {-1, 0, 1} : y = Number((r + i) * unit, x.e)
    BY DEF Nearest, D
  <1> HIDE DEF j
  <1>4. unit \in Nat /\ unit > 0 /\ TenTo[s] \in Nat
    BY <1>2, TenToIs
  <1>5. Magnitude(x.m) < TenTo[s] * unit
    <2>1. s + j \in Nat /\ TenTo[s + j] = TenTo[s] * unit
      BY <1>2, TenToAdds
    <2>2. TenTo[D] <= TenTo[s + j] /\ TenTo[D] \in Nat /\ TenTo[s + j] \in Nat
      BY <1>1, <1>2, <2>1, TenToGrows, TenToIs
    <2>3. Magnitude(x.m) \in Nat
      BY MagnitudeIs
    <2> HIDE DEF unit
    <2> QED
      BY <1>1, <2>1, <2>2, <2>3
  <1>6. r \in Int /\ Magnitude(r) * unit <= Magnitude(x.m)
    BY <1>4, QuotientIs
  <1> HIDE DEF unit, r
  <1>7. Magnitude(r) < TenTo[s]
    <2>1. Magnitude(r) \in Nat /\ Magnitude(x.m) \in Nat
      BY <1>6, MagnitudeIs
    <2>2. Magnitude(r) * unit < TenTo[s] * unit
      BY <1>4, <1>5, <1>6, <2>1
    <2> QED
      BY <1>4, <2>1, <2>2
  <1>8. r + i \in Int /\ Magnitude(r + i) <= TenTo[s]
    BY <1>4, <1>6, <1>7 DEF Magnitude
  <1> QED
    BY <1>2, <1>3, <1>8, RoundedIsShort DEF unit

-----------------------------------------------------------------------------
(* The line is the text of what was set last, and numbers have the form.   *)
LineInv ==
  /\ put.as = "int" => put.of \in Int /\ line = FormatD(put.of)
  /\ put.as = "bool" =>
       put.of \in BOOLEAN /\ line = [word |-> IF put.of THEN "TRUE" ELSE "FALSE"]
  /\ put.as \in {"float", "double"} => Plain(put.of) /\ line \in FormatG(put.of, ".")
  /\ put.as = "float" => InFloat(line.num)

LEMMA RealsArePlain == \A x \in Reals : Plain(x)
  <1>1. TAKE x \in Reals
  <1>2. PICK m \in Mantissa, e \in Exponent : x = Number(m, e)
    BY DEF Reals
  <1>3. m \in Int /\ e \in Int
    BY Numbers
  <1>4. Plain(Number(m, e))
    BY <1>3, NumberIs
  <1> QED
    BY <1>2, <1>4

LEMMA InitLineInv == Init => LineInv
  <1> SUFFICES ASSUME Init PROVE LineInv
    OBVIOUS
  <1>1. put.as = "nothing"
    BY DEF Init
  <1> QED
    BY <1>1 DEF LineInv

(* What %g writes is a number that is nearest.                             *)
LEMMA LineOfNearest ==
  ASSUME NEW x, NEW l, NEW t \in FormatG(x, l)
  PROVE  t.num \in Nearest(x, Sig)
  <1> DEFINE scientific(z) == Leading(z) < -4 \/ Leading(z) >= Sig
             fraction(z) == IF scientific(z) THEN DigitsOf(z.m) > 1 ELSE z.e < 0
             text(z) == [num |-> z, sci |-> scientific(z), point |-> IF fraction(z) THEN l ELSE ""]
  <1>1. FormatG(x, l) = {text(y) : y \in Nearest(x, Sig)}
    BY DEF FormatG
  <1>2. \A z : text(z).num = z
    OBVIOUS
  <1> HIDE DEF text
  <1> QED
    BY <1>1, <1>2

LEMMA NextLineInv == LineInv /\ [Next]_vars => LineInv'
  <1> SUFFICES ASSUME LineInv, [Next]_vars PROVE LineInv'
    OBVIOUS
  <1>1. ASSUME NEW l \in {".", ","}, SetLocale(l) PROVE LineInv'
    BY <1>1 DEF LineInv, SetLocale
  <1>2. ASSUME NEW w \in Word, SetString(w) PROVE LineInv'
    BY <1>2 DEF LineInv, SetString
  <1>3. ASSUME NEW n \in CInt, SetInt(n) PROVE LineInv'
    BY <1>3, Numbers DEF LineInv, SetInt
  <1>4. ASSUME NEW b \in BOOLEAN, SetBool(b) PROVE LineInv'
    BY <1>4 DEF LineInv, SetBool
  <1>5. ASSUME NEW x \in Reals, SetDouble(x) \/ SetFloat(x) PROVE LineInv'
    <2>1. line' \in FormatG(x, ".") /\ put'.as \in {"float", "double"} /\ put'.of = x
      BY <1>5 DEF SetDouble, SetFloat
    <2>2. Plain(x)
      BY RealsArePlain
    <2>3. line'.num \in Nearest(x, Sig)
      BY <2>1, LineOfNearest
    <2>4. put'.as = "float" => InFloat(line'.num)
      BY <1>5, <2>3 DEF SetDouble, SetFloat
    <2> QED
      BY <2>1, <2>2, <2>4 DEF LineInv
  <1>6. CASE UNCHANGED vars
    BY <1>6 DEF LineInv, vars
  <1> QED
    BY <1>1, <1>2, <1>3, <1>4, <1>5, <1>6 DEF Next

LEMMA LineInvAlways == Spec => []LineInv
  BY InitLineInv, NextLineInv, PTL DEF Spec

(* A line that %g has written is a number of few digits, and every call    *)
(* that reads a number finds that one, if it is in its range.              *)
LEMMA LineIsShort ==
  ASSUME LineInv, put.as \in {"float", "double"}
  PROVE  \E y \in Nearest(put.of, Sig) :
           /\ Plain(y) /\ DigitsOf(y.m) <= Sig
           /\ line.num = y /\ line \notin Word
           /\ line.sci = (Leading(y) < -4 \/ Leading(y) >= Sig)
           /\ FormatG(y, ".") = {line}
           /\ GetDouble = {y} /\ (InFloat(y) => GetFloat = {y})
  <1> DEFINE scientific(z) == Leading(z) < -4 \/ Leading(z) >= Sig
             fraction(z) == IF scientific(z) THEN DigitsOf(z.m) > 1 ELSE z.e < 0
             text(z) == [num |-> z, sci |-> scientific(z), point |-> IF fraction(z) THEN "." ELSE ""]
  <1>1. Plain(put.of) /\ line \in FormatG(put.of, ".")
    BY DEF LineInv
  <1>2. \A z : FormatG(z, ".") = {text(w) : w \in Nearest(z, Sig)}
    BY DEF FormatG
  <1> HIDE DEF text
  <1>3. PICK y \in Nearest(put.of, Sig) : line = text(y)
    BY <1>1, <1>2
  <1>4. put.of.m \in Int /\ put.of.e \in Int /\ Sig \in Nat /\ Sig > 0
    BY <1>1, Digits DEF Plain
  <1>5. Plain(y) /\ DigitsOf(y.m) <= Sig
    BY <1>4, NearestIsShort
  <1>6. \A s \in Nat : Sig <= s => Nearest(y, s) = {y}
    <2>1. DigitsOf(y.m) \in Nat
      BY <1>5, DigitsAre DEF Plain
    <2> QED
      BY <1>4, <1>5, <2>1, NearestOfShort
  <1>7. FormatG(y, ".") = {line}
    BY <1>2, <1>3, <1>4, <1>6
  <1>8. line.num = y /\ line.sci = scientific(y) /\ line.point \in {"", "."}
    BY <1>3 DEF text
  <1>9. line \notin Word
    BY <1>3, Words DEF text
  <1>10. FloatDigits \in Nat /\ Sig <= FloatDigits /\ DoubleDigits \in Nat /\ Sig <= DoubleDigits
    BY <1>4, Digits
  <1>11. Strtod(line, ".") = {y}
    BY <1>6, <1>8, <1>9, <1>10 DEF Strtod
  <1>12. GetDouble = {y}
    BY <1>11 DEF GetDouble
  <1>13. InFloat(y) => GetFloat = {y}
    BY <1>6, <1>10, <1>11 DEF GetFloat, Narrow
  <1> QED
    BY <1>5, <1>7, <1>8, <1>9, <1>12, <1>13

LEMMA IntIsRead ==
  ASSUME NEW n \in Int
  PROVE  line = FormatD(n) => GetInt = n
  <1>0. SUFFICES ASSUME line = FormatD(n) PROVE GetInt = n
    OBVIOUS
  <1>1. PICK zero \in Int : zero = 0
    OBVIOUS
  <1>2. PICK y : y = Number(n, zero)
    OBVIOUS
  <1>3. line = [num |-> y, sci |-> FALSE, point |-> ""]
    BY <1>0, <1>1, <1>2 DEF FormatD
  <1>4. line.num = y
    BY <1>3
  <1>5. line.sci = FALSE
    BY <1>3
  <1>6. line \notin Word
    BY <1>3, Words
  <1>7. Plain(y)
    BY <1>1, <1>2, NumberIs
  <1>8. PICK k \in Nat : n = y.m * TenTo[k] /\ (n # 0 => y.e = zero + k)
    BY <1>1, <1>2, NumberIs
  <1>9. y.m \in Int /\ y.e \in Int /\ (y.m = 0 => y.e = 0)
    BY <1>7 DEF Plain
  <1>10. y.e >= 0 /\ y.m * TenTo[y.e] = n
    <2>1. CASE n = 0
      <3>1. TenTo[k] \in Nat /\ TenTo[k] > 0
        BY TenToIs
      <3>2. y.m = 0
        BY <1>8, <1>9, <2>1, <3>1
      <3> QED
        BY <1>9, <2>1, <3>2, TenToIs
    <2>2. CASE n # 0
      BY <1>1, <1>8, <2>2
    <2> QED
      BY <2>1, <2>2
  <1>11. ~(y.e < 0)
    BY <1>9, <1>10
  <1>12. IntegerPart(line) = y.m * TenTo[y.e]
    BY <1>4, <1>5, <1>11, Zenon DEF IntegerPart
  <1> QED
    BY <1>6, <1>10, <1>12, Zenon DEF GetInt, Atoi

LEMMA WholeIsRead ==
  ASSUME LineInv, put.as \in {"float", "double"}, put.of.e >= 0, Leading(put.of) < Sig
  PROVE  GetInt = put.of.m * TenTo[put.of.e]
  <1> DEFINE x == put.of
  <1>1. Plain(x) /\ x.m \in Int /\ x.e \in Int
    BY DEF LineInv, Plain
  <1>2. DigitsOf(x.m) \in Nat /\ DigitsOf(x.m) > 0 /\ Sig \in Nat
    BY <1>1, DigitsAre, Digits
  <1>3. Leading(x) >= 0 /\ Leading(x) < Sig /\ DigitsOf(x.m) <= Sig
    BY <1>1, <1>2 DEF Leading
  <1>4. Nearest(x, Sig) = {x}
    BY <1>1, <1>2, <1>3, NearestOfShort
  <1>5. /\ line.num = x /\ line \notin Word
        /\ line.sci = (Leading(x) < -4 \/ Leading(x) >= Sig)
    BY <1>4, LineIsShort
  <1>6. Leading(x) \in Int
    BY <1>1, <1>2 DEF Leading
  <1>7. ~(Leading(x) < -4) /\ ~(Leading(x) >= Sig) /\ ~(x.e < 0)
    BY <1>1, <1>2, <1>3, <1>6
  <1>8. IntegerPart(line) = x.m * TenTo[x.e]
    BY <1>5, <1>7, Zenon DEF IntegerPart
  <1> QED
    BY <1>5, <1>8, Zenon DEF GetInt, Atoi

(* ReadsBack, for every int, bool, float and double, and any digits.       *)
THEOREM TypedValuesAreRead == Spec => []ReadsBack
  <1>1. ASSUME LineInv PROVE ReadsBack
    <2>1. put.as = "int" => GetInt = put.of
      BY <1>1, IntIsRead DEF LineInv
    <2>2. put.as = "bool" => GetBool = put.of
      BY <1>1 DEF LineInv, GetBool
    <2>3. /\ put.as = "double" => GetDouble \subseteq Nearest(put.of, Sig)
          /\ put.as = "float" => GetFloat \subseteq Nearest(put.of, Sig)
      <3>1. put.as = "float" => InFloat(line.num)
        BY <1>1 DEF LineInv
      <3> QED
        BY <1>1, <3>1, LineIsShort
    <2>4. put.as \in {"float", "double"} /\ put.of.e >= 0 /\ Leading(put.of) < Sig =>
            GetInt = put.of.m * TenTo[put.of.e]
      BY <1>1, WholeIsRead
    <2> QED
      BY <2>1, <2>2, <2>3, <2>4 DEF ReadsBack
  <1> QED
    BY <1>1, LineInvAlways, PTL

(* NoDrift, for every float and double, any digits and any range of a      *)
(* float: a number drifts only where a double is read as a float that has  *)
(* no room for it.                                                         *)
THEOREM RewritingChangesNothing == Spec => []NoDrift
  <1>1. ASSUME LineInv PROVE NoDrift
    BY <1>1, LineIsShort DEF NoDrift
  <1> QED
    BY <1>1, LineInvAlways, PTL

=============================================================================
