--------------------------- MODULE RationalProofs ---------------------------
(***************************************************************************)
(* What the operators of Rational compute, for all numbers: the value that *)
(* their names say, whatever the fraction is reduced by, and with it the   *)
(* laws of an ordered field.  And what is made of them in ContrastCurve,   *)
(* for all histograms, curves and configurations: a curve is the lines     *)
(* through its points, so that three lines of one denominator are integers *)
(* to the solver; the bisection and the loop of the composition are        *)
(* followed by induction on the least counterexample.                      *)
(***************************************************************************)
EXTENDS ContrastCurve, TLAPS, WellFoundedInduction, FiniteSetTheorems

-----------------------------------------------------------------------------
(* Numbers *)

\* A set of natural numbers has a least one.
LEMMA LeastOf ==
  ASSUME NEW P, P \subseteq Nat, P # {}
  PROVE  \E i \in P : \A j \in P : i <= j
<1> DEFINE R == OpToRel(<, Nat)
<1>1. IsWellFoundedOn(R, Nat)
  BY NatLessThanWellFounded
<1>2. \A ss \in Nat \X Nat : ss \in R <=> ss[1] < ss[2]
  BY DEF OpToRel
<1> HIDE DEF R
<1>3. PICK i \in P : \A j \in P : ~ (<<j, i>> \in R)
  BY <1>1, WFMin
<1>4. ASSUME NEW j \in P PROVE i <= j
  <2>1. <<j, i>> \in Nat \X Nat /\ ~ (<<j, i>> \in R)
    BY <1>3
  <2>2. ~ (j < i)
    BY <1>2, <2>1
  <2> QED BY <2>2, SMT
<1> QED BY <1>4

\* A bounded one has a greatest, too.
LEMMA GreatestOf ==
  ASSUME NEW n \in Nat, NEW P, P \subseteq 0 .. n, P # {}
  PROVE  \E i \in P : \A j \in P : j <= i
<1> DEFINE N == {n - i : i \in P}
<1>1. N \subseteq Nat /\ N # {}
  <2>1. \A i \in P : n - i \in Nat
    OBVIOUS
  <2> QED BY <2>1
<1>2. PICK q \in N : \A r \in N : q <= r
  BY <1>1, LeastOf
<1>3. PICK i \in P : q = n - i
  OBVIOUS
<1>4. ASSUME NEW j \in P PROVE j <= i
  <2>1. n - i <= n - j
    BY <1>2, <1>3
  <2>2. i \in Nat /\ j \in Nat
    OBVIOUS
  <2> QED BY <2>1, <2>2
<1> QED BY <1>4

LEMMA DivMod ==
  ASSUME NEW a \in Int, NEW b \in Nat \ {0}
  PROVE  /\ a \div b \in Int /\ (a % b) \in 0 .. b - 1
         /\ a = b * (a \div b) + (a % b)
OBVIOUS

LEMMA DivUnique ==
  ASSUME NEW a \in Int, NEW b \in Nat \ {0}, NEW q \in Int, NEW r \in 0 .. b - 1, a = b * q + r
  PROVE  a \div b = q /\ a % b = r
OBVIOUS

Divides(d, n) == \E k \in Int : n = d * k

LEMMA DividesSum ==
  ASSUME NEW d \in Int, NEW b \in Int, NEW q \in Int, NEW r \in Int, Divides(d, b), Divides(d, r)
  PROVE  Divides(d, b * q + r)
<1>1. PICK x \in Int : b = d * x
  BY DEF Divides
<1>2. PICK y \in Int : r = d * y
  BY DEF Divides
<1>3. b * q + r = d * (x * q + y)
  BY <1>1, <1>2
<1>4. x * q + y \in Int
  OBVIOUS
<1> QED BY <1>3, <1>4 DEF Divides

LEMMA DividesLe ==
  ASSUME NEW d \in Nat, NEW n \in Nat \ {0}, Divides(d, n)
  PROVE  1 <= d /\ d <= n
<1>1. PICK k \in Int : n = d * k
  BY DEF Divides
<1>2. k >= 1
  BY <1>1
<1>3. d # 0
  BY <1>1
<1>4. d * k >= d * 1
  BY <1>2, <1>3
<1> QED BY <1>1, <1>3, <1>4

\* The divisors of the two sides of a step of Euclid's algorithm.
LEMMA DividesRest ==
  ASSUME NEW d \in Int, NEW a \in Int, NEW b \in Nat \ {0}, Divides(d, b)
  PROVE  Divides(d, a) <=> Divides(d, a % b)
<1> DEFINE q == a \div b
           r == a % b
<1>1. q \in Int /\ r \in Int /\ a = b * q + r
  <2>1. q \in Int /\ r \in 0 .. b - 1 /\ a = b * q + r
    BY DivMod, Zenon
  <2> HIDE DEF q, r
  <2> QED BY <2>1
<1>2. r = b * (-q) + a
  BY <1>1
<1>3. -q \in Int
  BY <1>1
<1> HIDE DEF q, r
<1>4. ASSUME Divides(d, r) PROVE Divides(d, b * q + r)
  <2>1. b \in Int
    OBVIOUS
  <2> QED BY <1>1, <1>4, <2>1, DividesSum, Zenon
<1>5. ASSUME Divides(d, a) PROVE Divides(d, b * (-q) + a)
  BY <1>3, <1>5, DividesSum
<1>6. Divides(d, r) <=> Divides(d, a)
  BY <1>1, <1>2, <1>4, <1>5
<1> QED BY <1>6 DEF r

LEMMA DividesItself == \A n \in Int : Divides(n, n) /\ Divides(1, n) /\ Divides(n, 0)
<1> SUFFICES ASSUME NEW n \in Int PROVE Divides(n, n) /\ Divides(1, n) /\ Divides(n, 0)
  OBVIOUS
<1>1. n = n * 1 /\ n = 1 * n /\ 0 = n * 0
  OBVIOUS
<1> QED BY <1>1 DEF Divides

-----------------------------------------------------------------------------
(* The greatest common divisor *)

Common(a, b) == {d \in Nat \ {0} : Divides(d, a) /\ Divides(d, b)}

\* A function that is as the definition of Gcd says; so Gcd is.
Greatest(a, b) ==
  IF a = 0 /\ b = 0 THEN 0 ELSE CHOOSE d \in Common(a, b) : \A e \in Common(a, b) : e <= d

LEMMA GreatestIs ==
  ASSUME NEW a \in Nat, NEW b \in Nat, a # 0 \/ b # 0
  PROVE  /\ Greatest(a, b) \in Common(a, b)
         /\ \A e \in Common(a, b) : e <= Greatest(a, b)
<1>1. Common(a, b) \subseteq 0 .. (a + b)
  BY DividesLe DEF Common
<1>2. 1 \in Common(a, b)
  BY DividesItself DEF Common
<1>3. \E d \in Common(a, b) : \A e \in Common(a, b) : e <= d
  BY <1>1, <1>2, GreatestOf
<1> QED BY <1>3, Zenon DEF Greatest

LEMMA GreatestOfZero == ASSUME NEW a \in Nat PROVE Greatest(a, 0) = a
<1>1. CASE a = 0
  BY <1>1 DEF Greatest
<1>2. CASE a # 0
  <2>1. a \in Common(a, 0)
    BY <1>2, DividesItself DEF Common
  <2>2. Greatest(a, 0) \in Common(a, 0) /\ a <= Greatest(a, 0)
    BY <1>2, <2>1, GreatestIs
  <2>3. Greatest(a, 0) \in Nat /\ Divides(Greatest(a, 0), a)
    BY <2>2 DEF Common
  <2>4. Greatest(a, 0) <= a
    BY <1>2, <2>3, DividesLe
  <2> QED BY <2>2, <2>3, <2>4
<1> QED BY <1>1, <1>2

LEMMA GreatestOfRest ==
  ASSUME NEW a \in Nat, NEW b \in Nat \ {0}
  PROVE  Greatest(a, b) = Greatest(b, a % b)
<1>1. a % b \in Nat
  BY DivMod
<1>2. \A d \in Nat : Divides(d, b) => (Divides(d, a) <=> Divides(d, a % b))
  BY DividesRest
<1>3. Common(a, b) = Common(b, a % b)
  BY <1>2 DEF Common
<1> QED BY <1>3 DEF Greatest

LEMMA GcdDef ==
  ASSUME NEW a \in Nat, NEW b \in Nat
  PROVE  Gcd[<<a, b>>] = IF b = 0 THEN a ELSE Gcd[<<b, a % b>>]
<1> DEFINE G == [p \in Nat \X Nat |-> Greatest(p[1], p[2])]
           Step(f, p) == IF p[2] = 0 THEN p[1] ELSE f[<<p[2], p[1] % p[2]>>]
<1>1. ASSUME NEW p \in Nat \X Nat PROVE G[p] = Step(G, p)
  <2>1. CASE p[2] = 0
    BY <2>1, GreatestOfZero
  <2>2. CASE p[2] # 0
    <3>1. PICK x \in Nat, y \in Nat : p = <<x, y>>
      OBVIOUS
    <3>2. y \in Nat \ {0} /\ p[1] = x /\ p[2] = y
      BY <2>2, <3>1
    <3>3. x % y \in 0 .. y - 1
      BY <3>2, DivMod
    <3>4. <<y, x % y>> \in Nat \X Nat
      BY <3>3
    <3>5. G[p] = Greatest(y, x % y)
      BY <3>2, GreatestOfRest
    <3>6. G[<<y, x % y>>] = Greatest(y, x % y)
      BY <3>4
    <3> QED BY <3>2, <3>5, <3>6
  <2> QED BY <2>1, <2>2
<1>2. G = [p \in Nat \X Nat |-> Step(G, p)]
  BY <1>1
<1>3. Gcd = CHOOSE f : f = [p \in Nat \X Nat |-> Step(f, p)]
  BY DEF Gcd
<1> HIDE DEF G
<1>4. Gcd = [p \in Nat \X Nat |-> Step(Gcd, p)]
  BY <1>2, <1>3
<1> HIDE DEF Step
<1>5. Gcd[<<a, b>>] = Step(Gcd, <<a, b>>)
  BY <1>4
<1> QED BY <1>5 DEF Step

LEMMA GcdOfZero == \A a \in Nat : Gcd[<<a, 0>>] = a
<1>1. 0 \in Nat
  OBVIOUS
<1> QED BY <1>1, GcdDef

GcdRight(b) ==
  \A a \in Nat :
    /\ Gcd[<<a, b>>] \in Nat
    /\ Divides(Gcd[<<a, b>>], a) /\ Divides(Gcd[<<a, b>>], b)

\* Gcd is a common divisor.
LEMMA GcdDivides == \A b \in Nat : GcdRight(b)
<1> DEFINE Bad == {b \in Nat : ~ GcdRight(b)}
<1> SUFFICES ASSUME Bad # {} PROVE FALSE
  OBVIOUS
<1>1. PICK b \in Bad : \A c \in Bad : b <= c
  BY LeastOf
<1>2. CASE b = 0
  <2>1. ASSUME NEW a \in Nat PROVE Gcd[<<a, 0>>] = a /\ Divides(a, a) /\ Divides(a, 0)
    <3>1. Gcd[<<a, 0>>] = a
      BY GcdDef
    <3>2. a \in Int
      OBVIOUS
    <3> QED BY <3>1, <3>2, DividesItself, Zenon
  <2> QED BY <1>1, <1>2, <2>1 DEF GcdRight
<1>3. CASE b # 0
  <2> SUFFICES ASSUME NEW a \in Nat
               PROVE  /\ Gcd[<<a, b>>] \in Nat
                      /\ Divides(Gcd[<<a, b>>], a) /\ Divides(Gcd[<<a, b>>], b)
    BY <1>1 DEF GcdRight
  <2>1. b \in Nat \ {0} /\ a % b \in 0 .. b - 1 /\ a % b \in Nat
    <3> DEFINE r == a % b
    <3>1. a \in Int /\ b \in Nat \ {0}
      BY <1>3
    <3>2. r \in 0 .. b - 1
      BY <3>1, DivMod, Zenon
    <3> HIDE DEF r
    <3>3. r \in Nat
      BY <3>2
    <3> QED BY <3>1, <3>2, <3>3 DEF r
  <2>2. GcdRight(a % b)
    BY <1>1, <2>1
  <2>3. Gcd[<<a, b>>] = Gcd[<<b, a % b>>]
    BY <2>1, GcdDef
  <2>4. /\ Gcd[<<a, b>>] \in Nat
        /\ Divides(Gcd[<<a, b>>], b) /\ Divides(Gcd[<<a, b>>], a % b)
    BY <2>1, <2>2, <2>3 DEF GcdRight
  <2>5. Divides(Gcd[<<a, b>>], a)
    <3> DEFINE g == Gcd[<<a, b>>]
    <3>1. g \in Int /\ Divides(g, b) /\ Divides(g, a % b)
      BY <2>4
    <3>2. a \in Int
      OBVIOUS
    <3> HIDE DEF g
    <3>3. Divides(g, a)
      BY <2>1, <3>1, <3>2, DividesRest, Zenon
    <3> QED BY <3>3 DEF g
  <2> QED BY <2>4, <2>5
<1> QED BY <1>2, <1>3

-----------------------------------------------------------------------------
(* Reduction *)

Positive == Nat \ {0}
Rat == Int \X Positive

\* Q(n, d) is n / d.
LEMMA QIs ==
  ASSUME NEW n \in Int, NEW d \in Positive
  PROVE  /\ Q(n, d) \in Rat
         /\ \E g \in Positive : Q(n, d)[1] * g = n /\ Q(n, d)[2] * g = d
<1> DEFINE g == Gcd[<<Abs(n), Abs(d)>>]
<1>1. Abs(n) \in Nat /\ Abs(d) = d /\ (Abs(n) = n \/ Abs(n) = -n) /\ d \in Nat /\ ~ (d < 0)
  BY DEF Abs, Positive
<1>2. g \in Nat /\ Divides(g, Abs(n)) /\ Divides(g, d)
  BY <1>1, GcdDivides DEF GcdRight
<1>3. Q(n, d) = <<(1 * n) \div g, (1 * d) \div g>>
  BY <1>1 DEF Q
<1> HIDE DEF g
<1>4. g \in Positive
  BY <1>2, DividesLe DEF Positive
<1>5. PICK x \in Int : n = g * x
  <2>1. PICK y \in Int : Abs(n) = g * y
    BY <1>2 DEF Divides
  <2>2. n = g * y \/ n = g * (-y)
    BY <1>1, <1>2, <2>1
  <2>3. -y \in Int
    OBVIOUS
  <2> QED BY <2>2, <2>3
<1>6. PICK y \in Int : d = g * y
  BY <1>2 DEF Divides
<1>7. (1 * n) \div g = x
  <2>1. 1 * n = g * x + 0 /\ 1 * n \in Int /\ 0 \in 0 .. g - 1
    BY <1>4, <1>5 DEF Positive
  <2> QED BY <1>4, <2>1, DivUnique DEF Positive
<1>8. (1 * d) \div g = y
  <2>1. 1 * d = g * y + 0 /\ 1 * d \in Int /\ 0 \in 0 .. g - 1
    BY <1>4, <1>6 DEF Positive
  <2> QED BY <1>4, <2>1, DivUnique DEF Positive
<1>9. y \in Positive
  BY <1>4, <1>6 DEF Positive
<1>10. Q(n, d)[1] = x /\ Q(n, d)[2] = y /\ Q(n, d) \in Rat
  BY <1>3, <1>7, <1>8, <1>9 DEF Rat
<1>11. x * g = n /\ y * g = d
  BY <1>4, <1>5, <1>6 DEF Positive
<1> QED BY <1>4, <1>10, <1>11

\* A common factor is a factor of the greatest common divisor.
GcdScales(b) ==
  \A k \in Positive, a \in Nat : Gcd[<<k * a, k * b>>] = k * Gcd[<<a, b>>]

LEMMA GcdIsLinear == \A b \in Nat : GcdScales(b)
<1> DEFINE Bad == {b \in Nat : ~ GcdScales(b)}
<1> SUFFICES ASSUME Bad # {} PROVE FALSE
  OBVIOUS
<1>1. PICK b \in Bad : \A c \in Bad : b <= c
  BY LeastOf
<1> SUFFICES ASSUME NEW k \in Positive, NEW a \in Nat
             PROVE  Gcd[<<k * a, k * b>>] = k * Gcd[<<a, b>>]
  BY <1>1 DEF GcdScales
<1>2. k * a \in Nat /\ k * b \in Nat
  BY DEF Positive
<1>3. CASE b = 0
  <2>1. k * b = 0
    BY <1>3 DEF Positive
  <2>2. Gcd[<<k * a, 0>>] = k * a /\ Gcd[<<a, 0>>] = a
    <3>1. 0 \in Nat
      OBVIOUS
    <3>2. \A x \in Nat : Gcd[<<x, 0>>] = x
      BY <3>1, GcdDef
    <3> QED BY <1>2, <3>2
  <2> QED BY <1>3, <2>1, <2>2
<1>4. CASE b # 0
  <2> DEFINE q == a \div b
             r == a % b
  <2>1. b \in Nat \ {0} /\ a \in Int
    BY <1>4
  <2>2. q \in Int /\ r \in 0 .. b - 1 /\ a = b * q + r
    BY <2>1, DivMod
  <2>3. Gcd[<<a, b>>] = Gcd[<<b, r>>]
    BY <1>4, GcdDef
  <2> DEFINE u == k * a
             v == k * b
  <2>4. u \in Nat /\ v \in Nat \ {0}
    BY <1>2, <1>4 DEF Positive
  <2>5. u % v = k * r
    <3> HIDE DEF q, r
    <3>1. u = v * q + k * r
      BY <2>2 DEF Positive
    <3>2. k * r \in 0 .. v - 1
      <4>1. r + 1 <= b /\ r >= 0
        BY <2>2
      <4>2. k * (r + 1) <= k * b
        BY <2>2, <4>1 DEF Positive
      <4>3. k * (r + 1) = k * r + k /\ k * r >= 0 /\ k >= 1
        BY <2>2 DEF Positive
      <4> QED BY <2>2, <4>2, <4>3 DEF Positive
    <3> HIDE DEF u, v
    <3>3. u \in Int
      BY <2>4
    <3> DEFINE s == k * r
    <3> HIDE DEF s
    <3>4. u = v * q + s /\ s \in 0 .. v - 1
      BY <3>1, <3>2 DEF s
    <3>5. u % v = s
      BY <2>2, <2>4, <3>3, <3>4, DivUnique
    <3> QED BY <3>5 DEF s
  <2>6. Gcd[<<u, v>>] = Gcd[<<v, u % v>>]
    <3> HIDE DEF u, v
    <3> QED BY <2>4, GcdDef
  <2>7. GcdScales(r)
    BY <1>1, <2>2
  <2>8. Gcd[<<k * b, k * r>>] = k * Gcd[<<b, r>>]
    BY <2>7 DEF GcdScales
  <2> QED BY <2>3, <2>5, <2>6, <2>8
<1> QED BY <1>3, <1>4

LEMMA QScales ==
  ASSUME NEW n \in Int, NEW d \in Positive, NEW k \in Positive
  PROVE  Q(k * n, k * d) = Q(n, d)
<1>1. Abs(k * n) = k * Abs(n) /\ Abs(n) \in Nat /\ ~ (d < 0) /\ ~ (k * d < 0)
  <2>1. CASE n < 0
    <3>1. k * n < 0 /\ - (k * n) = k * (-n)
      BY <2>1 DEF Positive
    <3>2. k * d >= 0
      BY DEF Positive
    <3> QED BY <2>1, <3>1, <3>2 DEF Abs, Positive
  <2>2. CASE ~ (n < 0)
    <3>1. k * n >= 0 /\ k * d >= 0
      BY <2>2 DEF Positive
    <3> QED BY <2>2, <3>1 DEF Abs, Positive
  <2> QED BY <2>1, <2>2
<1>2. Abs(k * d) = k * d /\ Abs(d) = d /\ d \in Nat
  BY <1>1 DEF Abs, Positive
<1> DEFINE g == Gcd[<<Abs(n), Abs(d)>>]
           h == Gcd[<<Abs(k * n), Abs(k * d)>>]
<1>3. h = k * g
  BY <1>1, <1>2, GcdIsLinear DEF GcdScales
<1>4. g \in Nat /\ Divides(g, Abs(n)) /\ Divides(g, d)
  BY <1>1, <1>2, GcdDivides DEF GcdRight
<1>5. /\ Q(n, d) = <<(1 * n) \div g, (1 * d) \div g>>
      /\ Q(k * n, k * d) = <<(1 * (k * n)) \div h, (1 * (k * d)) \div h>>
  BY <1>1 DEF Q
<1> HIDE DEF g, h
<1>6. g \in Positive
  BY <1>4, DividesLe DEF Positive
<1>7. ASSUME NEW m \in Int, Divides(g, m)
      PROVE  (1 * (k * m)) \div h = (1 * m) \div g
  <2>1. PICK x \in Int : m = g * x
    BY <1>7 DEF Divides
  <2>2. 1 * m = g * x + 0 /\ 1 * m \in Int /\ 0 \in 0 .. g - 1
    BY <1>6, <2>1 DEF Positive
  <2>3. (1 * m) \div g = x
    BY <1>6, <2>2, DivUnique DEF Positive
  <2>4. h \in Nat \ {0}
    BY <1>3, <1>6 DEF Positive
  <2>5. 1 * (k * m) = h * x + 0
    BY <1>3, <1>6, <2>1 DEF Positive
  <2>6. 1 * (k * m) \in Int /\ 0 \in 0 .. h - 1
    BY <2>4 DEF Positive
  <2>7. (1 * (k * m)) \div h = x
    BY <2>4, <2>5, <2>6, DivUnique
  <2> QED BY <2>3, <2>7
<1>8. Divides(g, n)
  <2>1. PICK y \in Int : Abs(n) = g * y
    BY <1>4 DEF Divides
  <2>2. n = Abs(n) \/ n = - Abs(n)
    BY DEF Abs
  <2>3. n = g * y \/ n = g * (-y)
    BY <1>6, <2>1, <2>2 DEF Positive
  <2>4. -y \in Int
    OBVIOUS
  <2> QED BY <2>3, <2>4 DEF Divides
<1>9. d \in Int
  BY DEF Positive
<1> QED BY <1>4, <1>5, <1>7, <1>8, <1>9

\* The same value is the same pair.
LEMMA QIsCanonical ==
  ASSUME NEW n \in Int, NEW d \in Positive, NEW m \in Int, NEW e \in Positive, n * e = m * d
  PROVE  Q(n, d) = Q(m, e)
<1>1. Q(n, d) = Q(e * n, e * d)
  BY QScales
<1>2. Q(m, e) = Q(d * m, d * e)
  BY QScales
<1>3. e * n = d * m /\ e * d = d * e
  BY DEF Positive
<1> QED BY <1>1, <1>2, <1>3

-----------------------------------------------------------------------------
(* Values *)

Reduced == {p \in Rat : Q(p[1], p[2]) = p}

LEMMA QIsReduced ==
  ASSUME NEW n \in Int, NEW d \in Positive
  PROVE  Q(n, d) \in Reduced
<1> DEFINE r == Q(n, d)
<1>1. r \in Rat /\ \E g \in Positive : r[1] * g = n /\ r[2] * g = d
  BY QIs
<1> HIDE DEF r
<1>2. PICK x \in Int, y \in Positive : r = <<x, y>>
  BY <1>1 DEF Rat
<1>3. PICK g \in Positive : x * g = n /\ y * g = d
  BY <1>1, <1>2
<1>4. x * d = n * y
  BY <1>3 DEF Positive
<1>5. Q(x, y) = Q(n, d)
  BY <1>4, QIsCanonical
<1> QED BY <1>1, <1>2, <1>5 DEF Reduced, r

\* Fractions compare as what they are reduced from.
LEMMA AtMostQ ==
  ASSUME NEW n \in Int, NEW d \in Positive, NEW m \in Int, NEW e \in Positive
  PROVE  AtMost(Q(n, d), Q(m, e)) <=> n * e <= m * d
<1>1. PICK x \in Int, y \in Positive, g \in Positive : Q(n, d) = <<x, y>> /\ x * g = n /\ y * g = d
  <2>1. PICK x \in Int, y \in Positive : Q(n, d) = <<x, y>>
    BY QIs DEF Rat
  <2>2. PICK g \in Positive : Q(n, d)[1] * g = n /\ Q(n, d)[2] * g = d
    BY QIs
  <2> QED BY <2>1, <2>2
<1>2. PICK u \in Int, v \in Positive, h \in Positive : Q(m, e) = <<u, v>> /\ u * h = m /\ v * h = e
  <2>1. PICK u \in Int, v \in Positive : Q(m, e) = <<u, v>>
    BY QIs DEF Rat
  <2>2. PICK h \in Positive : Q(m, e)[1] * h = m /\ Q(m, e)[2] * h = e
    BY QIs
  <2> QED BY <2>1, <2>2
<1>3. AtMost(Q(n, d), Q(m, e)) <=> x * v <= u * y
  BY <1>1, <1>2 DEF AtMost
<1> DEFINE k == g * h
           a == x * v
           b == u * y
<1>4. n * e = k * a /\ m * d = k * b
  BY <1>1, <1>2 DEF Positive
<1>5. k \in Positive /\ a \in Int /\ b \in Int
  BY DEF Positive
<1> HIDE DEF k, a, b
<1>6. a <= b <=> k * a <= k * b
  BY <1>5 DEF Positive
<1> QED BY <1>3, <1>4, <1>6 DEF a, b

LEMMA AtMostOrder ==
  ASSUME NEW p \in Rat, NEW q \in Rat, NEW r \in Rat
  PROVE  /\ AtMost(p, p)
         /\ AtMost(p, q) \/ AtMost(q, p)
         /\ Less(p, q) <=> ~ AtMost(q, p)
         /\ AtMost(p, q) /\ AtMost(q, r) => AtMost(p, r)
<1>1. PICK a \in Int, b \in Positive : p = <<a, b>>
  BY DEF Rat
<1>2. PICK c \in Int, d \in Positive : q = <<c, d>>
  BY DEF Rat
<1>3. PICK e \in Int, f \in Positive : r = <<e, f>>
  BY DEF Rat
<1>4. /\ AtMost(p, p) <=> a * b <= a * b
      /\ AtMost(p, q) <=> a * d <= c * b
      /\ AtMost(q, p) <=> c * b <= a * d
      /\ Less(p, q) <=> a * d < c * b
      /\ AtMost(q, r) <=> c * f <= e * d
      /\ AtMost(p, r) <=> a * f <= e * b
  BY <1>1, <1>2, <1>3 DEF AtMost, Less
<1>5. ASSUME a * d <= c * b, c * f <= e * d PROVE a * f <= e * b
  <2>1. (a * d) * f <= (c * b) * f
    BY <1>5 DEF Positive
  <2>2. (c * f) * b <= (e * d) * b
    BY <1>5 DEF Positive
  <2>3. (a * d) * f = d * (a * f) /\ (c * b) * f = (c * f) * b /\ (e * d) * b = d * (e * b)
    BY DEF Positive
  <2> DEFINE x == a * f
             y == e * b
  <2>4. d * x <= d * y
    BY <2>1, <2>2, <2>3 DEF Positive
  <2>5. x \in Int /\ y \in Int
    BY DEF Positive
  <2> HIDE DEF x, y
  <2>6. x <= y
    BY <2>4, <2>5 DEF Positive
  <2> QED BY <2>6 DEF x, y
<1>6. a * d \in Int /\ c * b \in Int /\ a * b \in Int
  BY DEF Positive
<1>7. a * d <= c * b \/ c * b <= a * d
  BY <1>6
<1>8. a * d < c * b <=> ~ (c * b <= a * d)
  BY <1>6
<1>9. a * b <= a * b
  BY <1>6
<1> QED BY <1>4, <1>5, <1>7, <1>8, <1>9

\* Of reduced fractions none has the value of another.
LEMMA SameValue ==
  ASSUME NEW p \in Reduced, NEW q \in Reduced, AtMost(p, q), AtMost(q, p)
  PROVE  p = q
<1>1. PICK a \in Int, b \in Positive : p = <<a, b>>
  BY DEF Reduced, Rat
<1>2. PICK c \in Int, d \in Positive : q = <<c, d>>
  BY DEF Reduced, Rat
<1>3. a * d <= c * b /\ c * b <= a * d
  BY <1>1, <1>2 DEF AtMost
<1>4. a * d = c * b
  BY <1>3 DEF Positive
<1>5. Q(a, b) = Q(c, d)
  BY <1>4, QIsCanonical
<1> QED BY <1>1, <1>2, <1>5 DEF Reduced

PositiveRat == {p \in Rat : p[1] > 0}

LEMMA MulIs ==
  ASSUME NEW p \in Rat, NEW q \in Rat
  PROVE  /\ Mul(p, q) \in Reduced
         /\ Mul(p, q) = Mul(q, p)
         /\ p \in PositiveRat /\ q \in PositiveRat => Mul(p, q) \in PositiveRat
<1>1. PICK a \in Int, b \in Positive : p = <<a, b>>
  BY DEF Rat
<1>2. PICK c \in Int, d \in Positive : q = <<c, d>>
  BY DEF Rat
<1>3. Mul(p, q) = Q(a * c, b * d) /\ Mul(q, p) = Q(c * a, d * b)
  BY <1>1, <1>2 DEF Mul
<1>4. a * c \in Int /\ b * d \in Positive /\ a * c = c * a /\ b * d = d * b
  BY DEF Positive
<1>5. Mul(p, q) \in Reduced
  BY <1>3, <1>4, QIsReduced
<1>6. ASSUME a > 0, c > 0 PROVE Mul(p, q) \in PositiveRat
  <2>1. a * c > 0
    BY <1>6
  <2>2. PICK x \in Int, y \in Positive : Mul(p, q) = <<x, y>>
    BY <1>5 DEF Reduced, Rat
  <2>3. PICK g \in Positive : Q(a * c, b * d)[1] * g = a * c
    BY <1>4, QIs
  <2>4. x * g > 0
    BY <1>3, <2>1, <2>2, <2>3
  <2>5. x > 0
    BY <2>4 DEF Positive
  <2> QED BY <2>2, <2>5 DEF PositiveRat, Rat
<1> QED BY <1>1, <1>2, <1>3, <1>4, <1>5, <1>6 DEF PositiveRat

LEMMA MulGrows ==
  ASSUME NEW p \in Rat, NEW q \in Rat, NEW r \in PositiveRat, AtMost(p, q)
  PROVE  AtMost(Mul(p, r), Mul(q, r)) /\ AtMost(Mul(r, p), Mul(r, q))
<1>1. PICK a \in Int, b \in Positive : p = <<a, b>>
  BY DEF Rat
<1>2. PICK c \in Int, d \in Positive : q = <<c, d>>
  BY DEF Rat
<1>3. PICK e \in Positive, f \in Positive : r = <<e, f>> /\ r \in Rat
  BY DEF Rat, PositiveRat, Positive
<1>4. Mul(p, r) = Q(a * e, b * f) /\ Mul(q, r) = Q(c * e, d * f)
  BY <1>1, <1>2, <1>3 DEF Mul
<1>5. /\ a * e \in Int /\ b * f \in Positive /\ c * e \in Int /\ d * f \in Positive
  BY DEF Positive
<1>6. a * d <= c * b
  BY <1>1, <1>2 DEF AtMost
<1>7. (a * e) * (d * f) <= (c * e) * (b * f)
  <2>1. (a * d) * (e * f) <= (c * b) * (e * f)
    <3>1. e * f \in Positive /\ a * d \in Int /\ c * b \in Int
      BY DEF Positive
    <3> QED BY <1>6, <3>1 DEF Positive
  <2> QED BY <2>1 DEF Positive
<1>8. AtMost(Mul(p, r), Mul(q, r))
  BY <1>4, <1>5, <1>7, AtMostQ
<1>9. Mul(r, p) = Mul(p, r) /\ Mul(r, q) = Mul(q, r)
  BY <1>3, MulIs
<1> QED BY <1>8, <1>9

LEMMA OverIs ==
  ASSUME NEW p \in Reduced, NEW r \in PositiveRat
  PROVE  /\ Over(p, r) \in Reduced
         /\ p \in PositiveRat => Over(p, r) \in PositiveRat
         /\ Mul(Over(p, r), r) = p /\ Mul(r, Over(p, r)) = p
<1>1. PICK a \in Int, b \in Positive : p = <<a, b>>
  BY DEF Reduced, Rat
<1>2. PICK e \in Positive, f \in Positive : r = <<e, f>> /\ r \in Rat
  BY DEF Rat, PositiveRat, Positive
<1>3. Over(p, r) = Q(a * f, b * e)
  BY <1>1, <1>2 DEF Over
<1>4. a * f \in Int /\ b * e \in Positive
  BY DEF Positive
<1>5. Over(p, r) \in Reduced
  BY <1>3, <1>4, QIsReduced
<1>6. PICK x \in Int, y \in Positive : Over(p, r) = <<x, y>>
  BY <1>5 DEF Reduced, Rat
<1>7. PICK g \in Positive : x * g = a * f /\ y * g = b * e
  BY <1>3, <1>4, <1>6, QIs
<1>8. Mul(Over(p, r), r) = Q(x * e, y * f)
  BY <1>2, <1>6 DEF Mul
<1>9. Q(x * e, y * f) = Q(a, b)
  <2>1. x * e \in Int /\ y * f \in Positive
    BY DEF Positive
  <2>2. (x * e) * b = a * (y * f)
    <3>1. (x * g) * (e * b) = (a * f) * (y * g)
      BY <1>7 DEF Positive
    <3>2. g * ((x * e) * b) = g * (a * (y * f))
      BY <3>1 DEF Positive
    <3> DEFINE u == (x * e) * b
               v == a * (y * f)
    <3>3. u \in Int /\ v \in Int
      BY DEF Positive
    <3> HIDE DEF u, v
    <3>4. g * u = g * v
      BY <3>2 DEF u, v
    <3>5. u = v
      BY <3>3, <3>4 DEF Positive
    <3> QED BY <3>5 DEF u, v
  <2> QED BY <2>1, <2>2, QIsCanonical
<1>10. Q(a, b) = p
  BY <1>1 DEF Reduced
<1>11. Mul(Over(p, r), r) = p
  BY <1>8, <1>9, <1>10
<1>12. Mul(r, Over(p, r)) = Mul(Over(p, r), r)
  BY <1>2, <1>5, MulIs DEF Reduced
<1>13. ASSUME a > 0 PROVE x > 0
  <2>1. a * f > 0
    BY <1>13 DEF Positive
  <2>2. x * g > 0
    BY <1>7, <2>1
  <2> QED BY <2>2 DEF Positive
<1> QED BY <1>1, <1>5, <1>6, <1>11, <1>12, <1>13 DEF PositiveRat, Reduced

-----------------------------------------------------------------------------
(* Operations on fractions that are given by other numbers *)

LEMMA QParts ==
  ASSUME NEW n \in Int, NEW d \in Positive
  PROVE  \E x \in Int, y \in Positive, g \in Positive : Q(n, d) = <<x, y>> /\ n = g * x /\ d = g * y
<1>1. PICK x \in Int, y \in Positive : Q(n, d) = <<x, y>>
  BY QIs DEF Rat
<1>2. PICK g \in Positive : Q(n, d)[1] * g = n /\ Q(n, d)[2] * g = d
  BY QIs
<1>3. n = g * x /\ d = g * y
  BY <1>1, <1>2 DEF Positive
<1> QED BY <1>1, <1>3

LEMMA QAdds ==
  ASSUME NEW n \in Int, NEW d \in Positive, NEW m \in Int, NEW e \in Positive
  PROVE  /\ Add(Q(n, d), Q(m, e)) = Q(n * e + m * d, d * e)
         /\ Sub(Q(n, d), Q(m, e)) = Q(n * e - m * d, d * e)
         /\ Mul(Q(n, d), Q(m, e)) = Q(n * m, d * e)
<1>1. PICK x \in Int, y \in Positive, g \in Positive : Q(n, d) = <<x, y>> /\ n = g * x /\ d = g * y
  BY QParts
<1>2. PICK u \in Int, v \in Positive, h \in Positive : Q(m, e) = <<u, v>> /\ m = h * u /\ e = h * v
  BY QParts
<1>3. /\ Add(Q(n, d), Q(m, e)) = Q(x * v + u * y, y * v)
      /\ Sub(Q(n, d), Q(m, e)) = Q(x * v - u * y, y * v)
      /\ Mul(Q(n, d), Q(m, e)) = Q(x * u, y * v)
  BY <1>1, <1>2 DEF Add, Sub, Mul
<1>4. /\ x * v + u * y \in Int /\ x * v - u * y \in Int /\ x * u \in Int
      /\ y * v \in Positive /\ g * h \in Positive
  BY DEF Positive
<1>5. /\ n * e = (g * h) * (x * v) /\ m * d = (g * h) * (u * y)
      /\ d * e = (g * h) * (y * v) /\ n * m = (g * h) * (x * u)
  BY <1>1, <1>2 DEF Positive
<1>6. /\ n * e + m * d = (g * h) * (x * v + u * y)
      /\ n * e - m * d = (g * h) * (x * v - u * y)
  <2> DEFINE k == g * h
             a == x * v
             b == u * y
  <2>1. k \in Int /\ a \in Int /\ b \in Int
    BY DEF Positive
  <2> HIDE DEF k, a, b
  <2>2. k * a + k * b = k * (a + b) /\ k * a - k * b = k * (a - b)
    BY <2>1
  <2> QED BY <1>5, <2>2 DEF k, a, b
<1> QED BY <1>3, <1>4, <1>5, <1>6, QScales

LEMMA QDivides ==
  ASSUME NEW n \in Int, NEW d \in Positive, NEW m \in Positive, NEW e \in Positive
  PROVE  Over(Q(n, d), Q(m, e)) = Q(n * e, d * m)
<1>1. PICK x \in Int, y \in Positive, g \in Positive : Q(n, d) = <<x, y>> /\ n = g * x /\ d = g * y
  BY QParts
<1>2. PICK u \in Int, v \in Positive, h \in Positive : Q(m, e) = <<u, v>> /\ m = h * u /\ e = h * v
  <2>1. m \in Int
    BY DEF Positive
  <2> QED BY <2>1, QParts
<1>3. u \in Positive
  BY <1>2 DEF Positive
<1>4. Over(Q(n, d), Q(m, e)) = Q(x * v, y * u)
  BY <1>1, <1>2 DEF Over
<1>5. x * v \in Int /\ y * u \in Positive /\ g * h \in Positive
  BY <1>3 DEF Positive
<1>6. n * e = (g * h) * (x * v) /\ d * m = (g * h) * (y * u)
  BY <1>1, <1>2 DEF Positive
<1> QED BY <1>4, <1>5, <1>6, QScales

LEMMA QCompares ==
  ASSUME NEW n \in Int, NEW d \in Positive, NEW m \in Int, NEW e \in Positive
  PROVE  /\ Less(Q(n, d), Q(m, e)) <=> n * e < m * d
         /\ Q(n, d) = Q(m, e) <=> n * e = m * d
<1>1. n * e \in Int /\ m * d \in Int
  BY DEF Positive
<1>2. Less(Q(n, d), Q(m, e)) <=> ~ AtMost(Q(m, e), Q(n, d))
  BY QIs, AtMostOrder
<1>3. AtMost(Q(m, e), Q(n, d)) <=> m * d <= n * e
  BY AtMostQ
<1>4. Less(Q(n, d), Q(m, e)) <=> n * e < m * d
  <2> DEFINE a == n * e
             b == m * d
  <2>1. a \in Int /\ b \in Int /\ (Less(Q(n, d), Q(m, e)) <=> ~ b <= a)
    BY <1>1, <1>2, <1>3
  <2> HIDE DEF a, b
  <2>2. Less(Q(n, d), Q(m, e)) <=> a < b
    BY <2>1
  <2> QED BY <2>2 DEF a, b
<1>5. ASSUME Q(n, d) = Q(m, e) PROVE n * e = m * d
  <2>1. PICK x \in Int, y \in Positive, g \in Positive : Q(n, d) = <<x, y>> /\ n = g * x /\ d = g * y
    BY QParts
  <2>2. PICK u \in Int, v \in Positive, h \in Positive : Q(m, e) = <<u, v>> /\ m = h * u /\ e = h * v
    BY QParts
  <2>3. <<x, y>> = <<u, v>>
    BY <1>5, <2>1, <2>2
  <2>4. x = u /\ y = v
    BY <2>3
  <2> QED BY <2>1, <2>2, <2>4 DEF Positive
<1> QED BY <1>4, <1>5, QIsCanonical

LEMMA QFloors ==
  ASSUME NEW n \in Int, NEW d \in Positive
  PROVE  Floor(Q(n, d)) = n \div d
<1>1. PICK x \in Int, y \in Positive, g \in Positive : Q(n, d) = <<x, y>> /\ n = g * x /\ d = g * y
  BY QParts
<1> DEFINE q == x \div y
           r == x % y
<1>2. q \in Int /\ r \in 0 .. y - 1 /\ x = y * q + r
  BY DivMod DEF Positive
<1> HIDE DEF q, r
<1>3. g * r \in 0 .. d - 1
  <2>1. g * r >= 0 /\ g * (y - 1 - r) >= 0 /\ g * r \in Int
    BY <1>2 DEF Positive
  <2>2. g * (y - 1 - r) = d - g - g * r
    BY <1>1, <1>2 DEF Positive
  <2> QED BY <2>1, <2>2 DEF Positive
<1>4. n = d * q + g * r
  BY <1>1, <1>2 DEF Positive
<1>5. n \div d = q
  BY <1>2, <1>3, <1>4, DivUnique DEF Positive
<1>6. Floor(Q(n, d)) = q
  BY <1>1 DEF Floor, q
<1> QED BY <1>5, <1>6

LEMMA IntIsQ == \A n \in Int : Int2Q(n) = Q(n, 1)
<1> SUFFICES ASSUME NEW n \in Int PROVE Int2Q(n) = Q(n, 1)
  OBVIOUS
<1>1. PICK x \in Int, y \in Positive, g \in Positive : Q(n, 1) = <<x, y>> /\ n = g * x /\ 1 = g * y
  <2>1. 1 \in Positive
    BY DEF Positive
  <2> QED BY <2>1, QParts
<1>2. g = 1 /\ y = 1
  BY <1>1 DEF Positive
<1>3. x = n
  BY <1>1, <1>2
<1> QED BY <1>1, <1>2, <1>3 DEF Int2Q

LEMMA HalfIsQ == <<1, 2>> = Q(1, 2) /\ <<-1, 2>> = Q(-1, 2)
<1>1. ASSUME NEW n \in {1, -1} PROVE <<n, 2>> = Q(n, 2)
  <2>1. PICK x \in Int, y \in Positive, g \in Positive : Q(n, 2) = <<x, y>> /\ n = g * x /\ 2 = g * y
    <3>1. 2 \in Positive /\ n \in Int
      BY DEF Positive
    <3> QED BY <3>1, QParts
  <2>2. g = 1
    <3>1. g * x = 1 \/ g * (-x) = 1
      BY <2>1 DEF Positive
    <3>2. \A z \in Int : g * z = 1 => g = 1
      BY DEF Positive
    <3>3. -x \in Int
      OBVIOUS
    <3> QED BY <3>1, <3>2, <3>3
  <2>3. x = n /\ y = 2
    BY <2>1, <2>2 DEF Positive
  <2> QED BY <2>1, <2>3
<1> QED BY <1>1

-----------------------------------------------------------------------------
(* Lines *)

\* The fractions with some denominator.
Den(D) == {Q(n, D) : n \in Int}

\* Points of a curve.
Points == Reduced \X Reduced

\* The point z lies on the line through p and q.
OnLine(p, q, z) == Mul(Sub(z[2], p[2]), Sub(q[1], p[1])) = Mul(Sub(z[1], p[1]), Sub(q[2], p[2]))

LEMMA InDen == \A p \in Reduced : p[2] \in Positive /\ p \in Den(p[2])
<1> SUFFICES ASSUME NEW p \in Reduced PROVE p[2] \in Positive /\ p \in Den(p[2])
  OBVIOUS
<1>1. p[1] \in Int /\ p[2] \in Positive /\ p = Q(p[1], p[2])
  BY DEF Reduced, Rat
<1> QED BY <1>1 DEF Den

LEMMA DenGrows ==
  ASSUME NEW D \in Positive, NEW F \in Positive
  PROVE  D * F \in Positive /\ Den(D) \subseteq Den(D * F) /\ Den(F) \subseteq Den(D * F)
<1>1. D * F \in Positive /\ F * D = D * F
  BY DEF Positive
<1>2. ASSUME NEW n \in Int PROVE Q(n, D) \in Den(D * F) /\ Q(n, F) \in Den(D * F)
  <2>1. Q(n, D) = Q(F * n, F * D) /\ Q(n, F) = Q(D * n, D * F)
    BY QScales
  <2>2. F * n \in Int /\ D * n \in Int
    BY DEF Positive
  <2> QED BY <1>1, <2>1, <2>2 DEF Den
<1> QED BY <1>1, <1>2 DEF Den

\* Some fractions have a common denominator.
Shared(S) == \E D \in Positive : S \subseteq Den(D)

LEMMA SharedByMore ==
  ASSUME NEW S, Shared(S), NEW p \in Reduced
  PROVE  Shared(S \cup {p})
<1>1. PICK D \in Positive : S \subseteq Den(D)
  BY DEF Shared
<1>2. p[2] \in Positive /\ p \in Den(p[2])
  BY InDen
<1>3. D * p[2] \in Positive /\ Den(D) \subseteq Den(D * p[2]) /\ Den(p[2]) \subseteq Den(D * p[2])
  BY <1>2, DenGrows
<1>4. S \cup {p} \subseteq Den(D * p[2])
  BY <1>1, <1>2, <1>3
<1> QED BY <1>3, <1>4 DEF Shared

Together(p, q, r, s, t, u, v, w, x, y) ==
  \E D \in Positive : {p, q, r, s, t, u, v, w, x, y} \subseteq Den(D)

LEMMA SharedByAll ==
  ASSUME NEW p \in Reduced, NEW q \in Reduced, NEW r \in Reduced, NEW s \in Reduced,
         NEW t \in Reduced, NEW u \in Reduced, NEW v \in Reduced, NEW w \in Reduced,
         NEW x \in Reduced, NEW y \in Reduced
  PROVE  Together(p, q, r, s, t, u, v, w, x, y)
<1>1. Shared({})
  <2>1. 1 \in Positive
    BY DEF Positive
  <2> QED BY <2>1 DEF Shared
<1> DEFINE A == {} \cup {p}
           B == A \cup {q}
           C == B \cup {r}
           E == C \cup {s}
           F == E \cup {t}
           G == F \cup {u}
           H == G \cup {v}
           I == H \cup {w}
           J == I \cup {x}
           K == J \cup {y}
<1>2. Shared(A)
  BY <1>1, SharedByMore
<1>3. Shared(B)
  BY <1>2, SharedByMore, Zenon
<1>4. Shared(C)
  BY <1>3, SharedByMore, Zenon
<1>5. Shared(E)
  BY <1>4, SharedByMore, Zenon
<1>6. Shared(F)
  BY <1>5, SharedByMore, Zenon
<1>7. Shared(G)
  BY <1>6, SharedByMore, Zenon
<1>8. Shared(H)
  BY <1>7, SharedByMore, Zenon
<1>9. Shared(I)
  BY <1>8, SharedByMore, Zenon
<1>10. Shared(J)
  BY <1>9, SharedByMore, Zenon
<1>11. Shared(K)
  BY <1>10, SharedByMore, Zenon
<1>12. K = {p, q, r, s, t, u, v, w, x, y}
  OBVIOUS
<1> QED BY <1>11, <1>12 DEF Shared, Together

LEMMA OfDen ==
  ASSUME NEW D \in Positive, NEW n \in Int, NEW m \in Int
  PROVE  /\ AtMost(Q(n, D), Q(m, D)) <=> n <= m
         /\ Less(Q(n, D), Q(m, D)) <=> n < m
         /\ Q(n, D) = Q(m, D) <=> n = m
         /\ Add(Q(n, D), Q(m, D)) = Q(n + m, D)
         /\ Sub(Q(n, D), Q(m, D)) = Q(n - m, D)
<1>1. n * D \in Int /\ m * D \in Int /\ D * D \in Positive
  BY DEF Positive
<1>2. (n * D <= m * D <=> n <= m) /\ (n * D < m * D <=> n < m) /\ (n * D = m * D <=> n = m)
  BY DEF Positive
<1>3. n * D + m * D = D * (n + m) /\ n * D - m * D = D * (n - m)
  BY DEF Positive
<1>4. AtMost(Q(n, D), Q(m, D)) <=> n * D <= m * D
  BY AtMostQ
<1>5. /\ Less(Q(n, D), Q(m, D)) <=> n * D < m * D
      /\ Q(n, D) = Q(m, D) <=> n * D = m * D
  BY QCompares
<1>6. /\ Add(Q(n, D), Q(m, D)) = Q(D * (n + m), D * D)
      /\ Sub(Q(n, D), Q(m, D)) = Q(D * (n - m), D * D)
  BY <1>3, QAdds
<1>7. Q(D * (n + m), D * D) = Q(n + m, D) /\ Q(D * (n - m), D * D) = Q(n - m, D)
  BY QScales
<1> QED BY <1>2, <1>4, <1>5, <1>6, <1>7

\* The same for whole numbers, and the point that has them over a denominator.
OnGrid(g, h, k) == (k[2] - g[2]) * (h[1] - g[1]) = (k[1] - g[1]) * (h[2] - g[2])

At(D, g) == <<Q(g[1], D), Q(g[2], D)>>

Grid == Int \X Int

LEMMA GridParts ==
  ASSUME NEW g \in Grid
  PROVE  g[1] \in Int /\ g[2] \in Int /\ g = <<g[1], g[2]>>
BY DEF Grid

LEMMA PointParts ==
  ASSUME NEW p \in Points
  PROVE  p[1] \in Reduced /\ p[2] \in Reduced /\ p = <<p[1], p[2]>>
BY DEF Points

LEMMA OnLineAt ==
  ASSUME NEW D \in Positive, NEW g \in Grid, NEW h \in Grid, NEW k \in Grid
  PROVE  OnLine(At(D, g), At(D, h), At(D, k)) <=> OnGrid(g, h, k)
<1> DEFINE a == g[1]
           b == g[2]
           c == h[1]
           d == h[2]
           x == k[1]
           v == k[2]
<1>1. a \in Int /\ b \in Int /\ c \in Int /\ d \in Int /\ x \in Int /\ v \in Int
  BY GridParts
<1>2. /\ At(D, g) = <<Q(a, D), Q(b, D)>> /\ At(D, h) = <<Q(c, D), Q(d, D)>>
      /\ At(D, k) = <<Q(x, D), Q(v, D)>>
      /\ OnGrid(g, h, k) <=> (v - b) * (c - a) = (x - a) * (d - b)
  BY DEF At, OnGrid
<1> HIDE DEF a, b, c, d, x, v
<1>3. /\ Sub(Q(v, D), Q(b, D)) = Q(v - b, D) /\ Sub(Q(c, D), Q(a, D)) = Q(c - a, D)
      /\ Sub(Q(x, D), Q(a, D)) = Q(x - a, D) /\ Sub(Q(d, D), Q(b, D)) = Q(d - b, D)
  BY <1>1, OfDen
<1>4. /\ Mul(Q(v - b, D), Q(c - a, D)) = Q((v - b) * (c - a), D * D)
      /\ Mul(Q(x - a, D), Q(d - b, D)) = Q((x - a) * (d - b), D * D)
  <2>1. v - b \in Int /\ c - a \in Int /\ x - a \in Int /\ d - b \in Int
    BY <1>1
  <2> QED BY <2>1, QAdds
<1>5. D * D \in Positive /\ (v - b) * (c - a) \in Int /\ (x - a) * (d - b) \in Int
  BY <1>1 DEF Positive
<1>6. Q((v - b) * (c - a), D * D) = Q((x - a) * (d - b), D * D)
        <=> (v - b) * (c - a) = (x - a) * (d - b)
  BY <1>5, OfDen, Zenon
<1> QED BY <1>2, <1>3, <1>4, <1>6 DEF OnLine

\* Some points on one grid.
OnOneGrid(p, q, r, s, t) ==
  \E D \in Positive : \E g, h, i, j, k \in Grid :
    p = At(D, g) /\ q = At(D, h) /\ r = At(D, i) /\ s = At(D, j) /\ t = At(D, k)

LEMMA AllOnOneGrid ==
  ASSUME NEW p \in Points, NEW q \in Points, NEW r \in Points, NEW s \in Points, NEW t \in Points
  PROVE  OnOneGrid(p, q, r, s, t)
<1>1. /\ p[1] \in Reduced /\ p[2] \in Reduced /\ q[1] \in Reduced /\ q[2] \in Reduced
      /\ r[1] \in Reduced /\ r[2] \in Reduced /\ s[1] \in Reduced /\ s[2] \in Reduced
      /\ t[1] \in Reduced /\ t[2] \in Reduced
  BY PointParts
<1>2. Together(p[1], p[2], q[1], q[2], r[1], r[2], s[1], s[2], t[1], t[2])
  BY <1>1, SharedByAll
<1>3. PICK D \in Positive :
        {p[1], p[2], q[1], q[2], r[1], r[2], s[1], s[2], t[1], t[2]} \subseteq Den(D)
  BY <1>2 DEF Together
<1>4. ASSUME NEW u \in Points, u[1] \in Den(D), u[2] \in Den(D)
      PROVE  \E g \in Grid : u = At(D, g)
  <2>1. PICK a \in Int, b \in Int : u[1] = Q(a, D) /\ u[2] = Q(b, D)
    BY <1>4 DEF Den
  <2>2. <<a, b>> \in Grid /\ u = At(D, <<a, b>>)
    BY <2>1, PointParts DEF Grid, At
  <2> QED BY <2>2
<1>5. PICK g \in Grid : p = At(D, g)
  BY <1>3, <1>4
<1>6. PICK h \in Grid : q = At(D, h)
  BY <1>3, <1>4
<1>7. PICK i \in Grid : r = At(D, i)
  BY <1>3, <1>4
<1>8. PICK j \in Grid : s = At(D, j)
  BY <1>3, <1>4
<1>9. PICK k \in Grid : t = At(D, k)
  BY <1>3, <1>4
<1> QED BY <1>5, <1>6, <1>7, <1>8, <1>9 DEF OnOneGrid

LEMMA GridOrder ==
  ASSUME NEW D \in Positive, NEW g \in Grid, NEW h \in Grid
  PROVE  /\ Less(At(D, g)[1], At(D, h)[1]) <=> g[1] < h[1]
         /\ AtMost(At(D, g)[1], At(D, h)[1]) <=> g[1] <= h[1]
         /\ AtMost(At(D, g)[2], At(D, h)[2]) <=> g[2] <= h[2]
         /\ At(D, g)[1] = At(D, h)[1] <=> g[1] = h[1]
         /\ At(D, g)[2] = At(D, h)[2] <=> g[2] = h[2]
<1>1. g[1] \in Int /\ g[2] \in Int /\ h[1] \in Int /\ h[2] \in Int
  BY GridParts
<1> DEFINE a == g[1]
           b == g[2]
           c == h[1]
           d == h[2]
<1>2. /\ At(D, g)[1] = Q(a, D) /\ At(D, g)[2] = Q(b, D)
      /\ At(D, h)[1] = Q(c, D) /\ At(D, h)[2] = Q(d, D)
  BY DEF At
<1>3. a \in Int /\ b \in Int /\ c \in Int /\ d \in Int
  BY <1>1
<1> HIDE DEF a, b, c, d
<1>4. (Less(Q(a, D), Q(c, D)) <=> a < c) /\ (AtMost(Q(a, D), Q(c, D)) <=> a <= c)
  BY <1>3, OfDen
<1>5. (AtMost(Q(b, D), Q(d, D)) <=> b <= d) /\ (Q(a, D) = Q(c, D) <=> a = c)
  BY <1>3, OfDen
<1>6. Q(b, D) = Q(d, D) <=> b = d
  BY <1>3, OfDen
<1> QED BY <1>2, <1>4, <1>5, <1>6 DEF a, b, c, d

\* The value that the formula of the code gives lies on the line.
LEMMA FormulaOnLine ==
  ASSUME NEW p \in Points, NEW q \in Points, NEW x \in Reduced, Less(p[1], q[1])
  PROVE  LET v == Add(p[2], Over(Mul(Sub(x, p[1]), Sub(q[2], p[2])), Sub(q[1], p[1]))) IN
           v \in Reduced /\ OnLine(p, q, <<x, v>>)
<1> DEFINE m == Mul(Sub(x, p[1]), Sub(q[2], p[2]))
           d == Sub(q[1], p[1])
           o == Over(m, d)
           v == Add(p[2], o)
<1>1. p[1] \in Reduced /\ p[2] \in Reduced /\ q[1] \in Reduced /\ q[2] \in Reduced
  BY PointParts
<1>2. d \in PositiveRat
  <2>1. PICK D \in Positive : {p[1], q[1], x, x, x, x, x} \subseteq Den(D)
    <3>1. Together(p[1], q[1], x, x, x, x, x, x, x, x)
      BY <1>1, SharedByAll
    <3> QED BY <3>1 DEF Together
  <2>2. PICK a \in Int, c \in Int : p[1] = Q(a, D) /\ q[1] = Q(c, D)
    BY <2>1 DEF Den
  <2>3. a < c /\ d = Q(c - a, D)
    BY <2>2, OfDen
  <2>4. c - a \in Int /\ c - a > 0
    BY <2>3
  <2>5. PICK y \in Int, z \in Positive, g \in Positive : Q(c - a, D) = <<y, z>> /\ c - a = g * y /\ D = g * z
    BY <2>4, QParts
  <2>6. y > 0
    BY <2>4, <2>5 DEF Positive
  <2> QED BY <2>3, <2>5, <2>6 DEF PositiveRat, Rat
<1>3. Sub(x, p[1]) \in Rat /\ Sub(q[2], p[2]) \in Rat
  <2>1. ASSUME NEW s \in Reduced, NEW t \in Reduced PROVE Sub(s, t) \in Rat
    <3>1. PICK a \in Int, b \in Positive : s = <<a, b>>
      BY DEF Reduced, Rat
    <3>2. PICK e \in Int, f \in Positive : t = <<e, f>>
      BY DEF Reduced, Rat
    <3>3. Sub(s, t) = Q(a * f - e * b, b * f) /\ a * f - e * b \in Int /\ b * f \in Positive
      BY <3>1, <3>2 DEF Sub, Positive
    <3> QED BY <3>3, QIs
  <2> QED BY <1>1, <2>1
<1>4. m \in Reduced
  BY <1>3, MulIs
<1>5. o \in Reduced /\ Mul(o, d) = m
  <2> HIDE DEF m, d
  <2> QED BY <1>2, <1>4, OverIs
<1>6. v \in Reduced /\ Sub(v, p[2]) = o
  <2> HIDE DEF o
  <2>1. PICK D \in Positive : {p[2], o, x, x, x, x, x} \subseteq Den(D)
    <3>1. Together(p[2], o, x, x, x, x, x, x, x, x)
      BY <1>1, <1>5, SharedByAll
    <3> QED BY <3>1 DEF Together
  <2>2. PICK a \in Int, b \in Int : p[2] = Q(a, D) /\ o = Q(b, D)
    BY <2>1 DEF Den
  <2>3. v = Q(a + b, D) /\ a + b \in Int
    BY <2>2, OfDen
  <2>4. Sub(v, p[2]) = Q((a + b) - a, D) /\ (a + b) - a = b
    BY <2>2, <2>3, OfDen
  <2> QED BY <2>2, <2>3, <2>4, QIsReduced
<1>7. Mul(Sub(v, p[2]), Sub(q[1], p[1])) = Mul(Sub(x, p[1]), Sub(q[2], p[2]))
  BY <1>5, <1>6
<1> QED BY <1>6, <1>7 DEF OnLine

LEMMA GridRises ==
  ASSUME NEW g \in Grid, NEW h \in Grid, NEW i \in Grid, NEW j \in Grid,
         g[1] < h[1], g[2] <= h[2], i[1] <= j[1], OnGrid(g, h, i), OnGrid(g, h, j)
  PROVE  i[2] <= j[2]
<1> DEFINE e == h[1] - g[1]
           f == h[2] - g[2]
           b == g[2]
           a == g[1]
           x == i[1]
           v == i[2]
           y == j[1]
           w == j[2]
<1>1. /\ g[1] \in Int /\ g[2] \in Int /\ h[1] \in Int /\ h[2] \in Int
      /\ i[1] \in Int /\ i[2] \in Int /\ j[1] \in Int /\ j[2] \in Int
  BY GridParts
<1>2. (v - b) * e = (x - a) * f /\ (w - b) * e = (y - a) * f
  BY DEF OnGrid
<1>3. /\ e \in Int /\ f \in Int /\ e > 0 /\ f >= 0 /\ x <= y
      /\ a \in Int /\ b \in Int /\ x \in Int /\ v \in Int /\ y \in Int /\ w \in Int
  BY <1>1
<1> HIDE DEF e, f, a, b, x, v, y, w
<1>4. (w - v) * e = (y - x) * f
  BY <1>2, <1>3
<1>5. (y - x) * f >= 0
  BY <1>3
<1>6. ASSUME w < v PROVE FALSE
  <2>1. (v - w) * e > 0
    BY <1>3, <1>6
  <2> QED BY <1>3, <1>4, <1>5, <2>1
<1>7. v <= w
  BY <1>3, <1>6
<1> QED BY <1>7 DEF v, w

\* A line that rises keeps the order.
LEMMA LineRises ==
  ASSUME NEW p \in Points, NEW q \in Points, NEW r \in Points, NEW s \in Points,
         Less(p[1], q[1]), AtMost(p[2], q[2]), AtMost(r[1], s[1]), OnLine(p, q, r), OnLine(p, q, s)
  PROVE  AtMost(r[2], s[2])
<1>1. OnOneGrid(p, q, r, s, s)
  BY AllOnOneGrid
<1>2. PICK D \in Positive : \E g, h, i, j, k \in Grid :
        p = At(D, g) /\ q = At(D, h) /\ r = At(D, i) /\ s = At(D, j) /\ s = At(D, k)
  BY <1>1 DEF OnOneGrid
<1>3. PICK g \in Grid, h \in Grid, i \in Grid, j \in Grid :
        p = At(D, g) /\ q = At(D, h) /\ r = At(D, i) /\ s = At(D, j)
  BY <1>2
<1>4. g[1] < h[1] /\ g[2] <= h[2] /\ i[1] <= j[1]
  BY <1>3, GridOrder
<1>5. OnGrid(g, h, i) /\ OnGrid(g, h, j)
  BY <1>3, OnLineAt
<1>6. i[2] <= j[2]
  BY <1>4, <1>5, GridRises
<1> QED BY <1>3, <1>6, GridOrder

\* A line has one value.
LEMMA LineHasOne ==
  ASSUME NEW p \in Points, NEW q \in Points, NEW r \in Points, NEW s \in Points,
         Less(p[1], q[1]), r[1] = s[1], OnLine(p, q, r), OnLine(p, q, s)
  PROVE  r = s
<1>1. OnOneGrid(p, q, r, s, s)
  BY AllOnOneGrid
<1>2. PICK D \in Positive : \E g, h, i, j, k \in Grid :
        p = At(D, g) /\ q = At(D, h) /\ r = At(D, i) /\ s = At(D, j) /\ s = At(D, k)
  BY <1>1 DEF OnOneGrid
<1>3. PICK g \in Grid, h \in Grid, i \in Grid, j \in Grid :
        p = At(D, g) /\ q = At(D, h) /\ r = At(D, i) /\ s = At(D, j)
  BY <1>2
<1>4. g[1] < h[1] /\ i[1] = j[1]
  BY <1>3, GridOrder
<1>5. OnGrid(g, h, i) /\ OnGrid(g, h, j)
  BY <1>3, OnLineAt
<1>6. i[2] = j[2]
  <2>1. /\ g[1] \in Int /\ g[2] \in Int /\ h[1] \in Int /\ h[2] \in Int
        /\ i[1] \in Int /\ i[2] \in Int /\ j[1] \in Int /\ j[2] \in Int
    BY GridParts
  <2> DEFINE e == h[1] - g[1]
             m == i[2] - g[2]
             n == j[2] - g[2]
  <2>2. m * e = n * e
    BY <1>4, <1>5 DEF OnGrid
  <2>3. e \in Int /\ e > 0 /\ m \in Int /\ n \in Int
    BY <1>4, <2>1
  <2> HIDE DEF e, m, n
  <2>4. m = n
    BY <2>2, <2>3
  <2> QED BY <2>1, <2>4 DEF m, n
<1>7. i = j
  BY <1>4, <1>6, GridParts
<1> QED BY <1>3, <1>7

\* It goes through its two points.
LEMMA LineEnds ==
  ASSUME NEW p \in Points, NEW q \in Points
  PROVE  OnLine(p, q, p) /\ OnLine(p, q, q)
<1>1. OnOneGrid(p, q, q, q, q)
  BY AllOnOneGrid
<1>2. PICK D \in Positive, g \in Grid, h \in Grid : p = At(D, g) /\ q = At(D, h)
  BY <1>1 DEF OnOneGrid
<1>3. OnGrid(g, h, g) /\ OnGrid(g, h, h)
  <2>1. g[1] \in Int /\ g[2] \in Int /\ h[1] \in Int /\ h[2] \in Int
    BY GridParts
  <2> QED BY <2>1 DEF OnGrid
<1> QED BY <1>2, <1>3, OnLineAt

LEMMA GridChord ==
  ASSUME NEW g \in Grid, NEW h \in Grid, NEW i \in Grid, NEW j \in Grid, NEW k \in Grid,
         g[1] < h[1], OnGrid(g, h, i), OnGrid(g, h, j), OnGrid(g, h, k)
  PROVE  OnGrid(i, j, k)
<1>1. /\ g[1] \in Int /\ g[2] \in Int /\ h[1] \in Int /\ h[2] \in Int /\ k[1] \in Int
      /\ i[1] \in Int /\ i[2] \in Int /\ j[1] \in Int /\ j[2] \in Int /\ k[2] \in Int
  BY GridParts
<1> DEFINE e == h[1] - g[1]
           f == h[2] - g[2]
           m == k[2] - i[2]
           n == j[1] - i[1]
           o == k[1] - i[1]
           q == j[2] - i[2]
<1>2. e \in Int /\ f \in Int /\ e > 0 /\ m \in Int /\ n \in Int /\ o \in Int /\ q \in Int
  BY <1>1
<1>3. m * e = o * f /\ q * e = n * f
  <2> DEFINE a == g[1]
             b == g[2]
             x == i[1]
             y == i[2]
             u == j[1]
             v == j[2]
             s == k[1]
             t == k[2]
  <2>1. (y - b) * e = (x - a) * f /\ (v - b) * e = (u - a) * f /\ (t - b) * e = (s - a) * f
    BY DEF OnGrid
  <2>2. m = t - y /\ o = s - x /\ q = v - y /\ n = u - x
    OBVIOUS
  <2>3. /\ a \in Int /\ b \in Int /\ x \in Int /\ y \in Int /\ u \in Int /\ v \in Int
        /\ s \in Int /\ t \in Int
    BY <1>1
  <2> HIDE DEF a, b, x, y, u, v, s, t, e, f, m, n, o, q
  <2>4. (t - y) * e = (s - x) * f /\ (v - y) * e = (u - x) * f
    BY <1>2, <2>1, <2>3
  <2> QED BY <2>2, <2>4
<1>4. OnGrid(i, j, k) <=> m * n = o * q
  BY DEF OnGrid
<1> HIDE DEF e, f, m, n, o, q
<1>5. (m * n) * e = (o * q) * e
  <2>1. (m * n) * e = n * (m * e) /\ (o * q) * e = o * (q * e)
    BY <1>2
  <2>2. n * (o * f) = o * (n * f)
    BY <1>2
  <2> QED BY <1>3, <2>1, <2>2
<1>6. m * n = o * q
  <2> DEFINE s == m * n
             t == o * q
  <2>1. s \in Int /\ t \in Int /\ s * e = t * e
    BY <1>2, <1>5
  <2> HIDE DEF s, t
  <2>2. s = t
    BY <1>2, <2>1
  <2> QED BY <2>2 DEF s, t
<1> QED BY <1>4, <1>6

LEMMA OrderLaws ==
  /\ \A a, b, c \in Reduced : AtMost(a, b) /\ AtMost(b, c) => AtMost(a, c)
  /\ \A a, b \in Reduced : Less(a, b) <=> ~ AtMost(b, a)
  /\ \A a, b \in Reduced : AtMost(a, b) \/ AtMost(b, a)
  /\ \A a, b \in Reduced : AtMost(a, b) /\ AtMost(b, a) => a = b
  /\ \A a \in Reduced : AtMost(a, a)
<1>1. Reduced \subseteq Rat
  BY DEF Reduced
<1>2. \A a, b, c \in Reduced : AtMost(a, b) /\ AtMost(b, c) => AtMost(a, c)
  BY <1>1, AtMostOrder
<1>3. \A a, b \in Reduced : Less(a, b) <=> ~ AtMost(b, a)
  BY <1>1, AtMostOrder
<1>4. \A a, b \in Reduced : AtMost(a, b) \/ AtMost(b, a)
  BY <1>1, AtMostOrder
<1>5. \A a, b \in Reduced : AtMost(a, b) /\ AtMost(b, a) => a = b
  BY SameValue
<1>6. \A a \in Reduced : AtMost(a, a)
  BY <1>1, AtMostOrder
<1> QED BY <1>2, <1>3, <1>4, <1>5, <1>6

\* Two points of a line give the same line.
LEMMA ChordIsLine ==
  ASSUME NEW p \in Points, NEW q \in Points, NEW r \in Points, NEW s \in Points, NEW t \in Points,
         Less(p[1], q[1]), OnLine(p, q, r), OnLine(p, q, s), OnLine(p, q, t)
  PROVE  OnLine(r, s, t)
<1>1. OnOneGrid(p, q, r, s, t)
  BY AllOnOneGrid
<1>2. PICK D \in Positive, g \in Grid, h \in Grid, i \in Grid, j \in Grid, k \in Grid :
        p = At(D, g) /\ q = At(D, h) /\ r = At(D, i) /\ s = At(D, j) /\ t = At(D, k)
  BY <1>1 DEF OnOneGrid
<1>3. g[1] < h[1]
  BY <1>2, GridOrder
<1>4. OnGrid(g, h, i) /\ OnGrid(g, h, j) /\ OnGrid(g, h, k)
  BY <1>2, OnLineAt
<1>5. OnGrid(i, j, k)
  BY <1>3, <1>4, GridChord
<1> QED BY <1>2, <1>5, OnLineAt

\* What a line makes of the y of points of another one: a line as well.
LEMMA ChordsCompose ==
  ASSUME NEW a \in Reduced, NEW b \in Reduced, NEW c \in Reduced, NEW d \in Reduced,
         NEW e \in Reduced, NEW f \in Reduced, NEW x \in Reduced, NEW y \in Reduced, NEW z \in Reduced,
         Less(a, c), b # d \/ (y = b => e = f /\ e = z),
         OnLine(<<a, b>>, <<c, d>>, <<x, y>>), OnLine(<<b, e>>, <<d, f>>, <<y, z>>)
  PROVE  OnLine(<<a, e>>, <<c, f>>, <<x, z>>)
<1>6. PICK D \in Positive : {a, b, e, c, d, f, x, y, z} \subseteq Den(D)
  <2>1. Together(a, b, e, c, d, f, x, y, z, z)
    BY SharedByAll
  <2> QED BY <2>1 DEF Together
<1>7. PICK i \in Int, j \in Int, k \in Int : a = Q(i, D) /\ b = Q(j, D) /\ e = Q(k, D)
  BY <1>6 DEF Den
<1>8. PICK l \in Int, m \in Int, n \in Int : c = Q(l, D) /\ d = Q(m, D) /\ f = Q(n, D)
  BY <1>6 DEF Den
<1>9. PICK t \in Int, u \in Int, v \in Int : x = Q(t, D) /\ y = Q(u, D) /\ z = Q(v, D)
  BY <1>6 DEF Den
<1>1. /\ <<i, j>> \in Grid /\ <<l, m>> \in Grid /\ <<t, u>> \in Grid /\ <<j, k>> \in Grid
      /\ <<m, n>> \in Grid /\ <<u, v>> \in Grid /\ <<i, k>> \in Grid /\ <<l, n>> \in Grid
      /\ <<t, v>> \in Grid
  BY DEF Grid
<1>2. /\ <<a, b>> = At(D, <<i, j>>) /\ <<c, d>> = At(D, <<l, m>>) /\ <<x, y>> = At(D, <<t, u>>)
      /\ <<b, e>> = At(D, <<j, k>>) /\ <<d, f>> = At(D, <<m, n>>) /\ <<y, z>> = At(D, <<u, v>>)
      /\ <<a, e>> = At(D, <<i, k>>) /\ <<c, f>> = At(D, <<l, n>>) /\ <<x, z>> = At(D, <<t, v>>)
  BY <1>7, <1>8, <1>9 DEF At
<1>10. OnGrid(<<i, j>>, <<l, m>>, <<t, u>>)
  BY <1>1, <1>2, OnLineAt
<1>11. OnGrid(<<j, k>>, <<m, n>>, <<u, v>>)
  BY <1>1, <1>2, OnLineAt
<1>12. i < l
  BY <1>7, <1>8, OfDen
<1>13. OnGrid(<<i, k>>, <<l, n>>, <<t, v>>)
  <2>1. CASE j = m
    <3>1. b = d
      BY <1>7, <1>8, <2>1
    <3>2. u = j
      <4>1. (u - j) * (l - i) = 0
        BY <1>10, <2>1 DEF OnGrid
      <4> DEFINE g == u - j
                 h == l - i
      <4>2. g \in Int /\ h \in Int /\ h > 0 /\ g * h = 0
        BY <1>12, <4>1
      <4> HIDE DEF g, h
      <4>3. g = 0
        BY <4>2
      <4> QED BY <4>3 DEF g
    <3>3. y = b
      BY <1>7, <1>9, <3>2
    <3>4. e = f /\ e = z
      BY <3>1, <3>3
    <3>5. k = n
      <4>1. Q(k, D) = Q(n, D)
        BY <1>7, <1>8, <3>4
      <4> QED BY <4>1, OfDen
    <3>6. k = v
      <4>1. Q(k, D) = Q(v, D)
        BY <1>7, <1>9, <3>4
      <4> QED BY <4>1, OfDen
    <3> QED BY <3>5, <3>6 DEF OnGrid
  <2>2. CASE j # m
    <3> DEFINE oo == u - j
               mm == v - k
               nn == m - j
               qq == n - k
               gg == l - i
               hh == t - i
    <3>1. /\ mm \in Int /\ nn \in Int /\ oo \in Int /\ qq \in Int /\ gg \in Int /\ hh \in Int
          /\ nn # 0
      BY <2>2
    <3>2. oo * gg = hh * nn /\ mm * nn = oo * qq
      BY <1>10, <1>11 DEF OnGrid
    <3>3. OnGrid(<<i, k>>, <<l, n>>, <<t, v>>) <=> mm * gg = hh * qq
      BY DEF OnGrid
    <3> HIDE DEF mm, nn, oo, qq, gg, hh
    <3>4. (mm * gg) * nn = (hh * qq) * nn
      <4>1. (mm * gg) * nn = gg * (mm * nn) /\ (hh * qq) * nn = qq * (hh * nn)
        BY <3>1
      <4>2. gg * (oo * qq) = qq * (oo * gg)
        BY <3>1
      <4> QED BY <3>2, <4>1, <4>2
    <3>5. mm * gg = hh * qq
      <4> DEFINE ss == mm * gg
                 tt == hh * qq
      <4>1. ss \in Int /\ tt \in Int /\ ss * nn = tt * nn
        BY <3>1, <3>4
      <4> HIDE DEF ss, tt
      <4>2. ss = tt
        BY <3>1, <4>1
      <4> QED BY <4>2 DEF ss, tt
    <3> QED BY <3>3, <3>5
  <2> QED BY <2>1, <2>2
<1> QED BY <1>1, <1>2, <1>13, OnLineAt

\* The composition of two lines is one, through the points where their ends go.
LEMMA LinesCompose ==
  ASSUME NEW p \in Points, NEW q \in Points, NEW r \in Points, NEW s \in Points,
         Less(p[1], q[1]), Less(r[1], s[1]),
         NEW a \in Reduced, NEW b \in Reduced, NEW e \in Reduced,
         NEW c \in Reduced, NEW d \in Reduced, NEW f \in Reduced,
         NEW x \in Reduced, NEW y \in Reduced, NEW z \in Reduced, Less(a, c),
         OnLine(p, q, <<a, b>>), OnLine(p, q, <<c, d>>), OnLine(p, q, <<x, y>>),
         OnLine(r, s, <<b, e>>), OnLine(r, s, <<d, f>>), OnLine(r, s, <<y, z>>)
  PROVE  OnLine(<<a, e>>, <<c, f>>, <<x, z>>)
<1>1. /\ <<a, b>> \in Points /\ <<c, d>> \in Points /\ <<x, y>> \in Points
      /\ <<b, e>> \in Points /\ <<d, f>> \in Points /\ <<y, z>> \in Points
  BY DEF Points
<1>2. OnLine(<<a, b>>, <<c, d>>, <<x, y>>)
  BY <1>1, ChordIsLine
<1>3. OnLine(<<b, e>>, <<d, f>>, <<y, z>>)
  BY <1>1, ChordIsLine
<1>4. ASSUME b = d, y = b PROVE e = f /\ e = z
  <2>1. <<b, e>> = <<d, f>>
    BY <1>1, <1>4, LineHasOne
  <2>2. <<b, e>> = <<y, z>>
    BY <1>1, <1>4, LineHasOne
  <2> QED BY <2>1, <2>2
<1> QED BY <1>2, <1>3, <1>4, ChordsCompose

-----------------------------------------------------------------------------
(* Curves *)

Curve(c) == c \in Seq(Points) /\ Len(c) >= 2 /\ Increasing(c)

LEMMA CurvePoint ==
  ASSUME NEW c, Curve(c), NEW i \in 1 .. Len(c)
  PROVE  c[i] \in Points /\ c[i][1] \in Reduced /\ c[i][2] \in Reduced
<1>1. c[i] \in Points
  BY DEF Curve
<1> QED BY <1>1, PointParts

\* Every point of a curve is to the left of the later ones, and not above them.
LEMMA CurveOrder ==
  ASSUME NEW c, Curve(c), NEW i \in 1 .. Len(c), NEW j \in 1 .. Len(c), i < j
  PROVE  Less(c[i][1], c[j][1]) /\ AtMost(c[i][2], c[j][2])
<1> DEFINE Right(k) == Less(c[i][1], c[k][1]) /\ AtMost(c[i][2], c[k][2])
           Bad == {k \in i + 1 .. Len(c) : ~ Right(k)}
<1>1. Len(c) \in Nat /\ i \in Nat
  BY DEF Curve
<1>2. SUFFICES ASSUME Bad # {} PROVE FALSE
  BY <1>1, <1>2
<1>3. Bad \subseteq Nat
  BY <1>1
<1>4. PICK k \in Bad : \A l \in Bad : k <= l
  BY <1>2, <1>3, LeastOf
<1>5. k \in i + 1 .. Len(c) /\ k \in 1 .. Len(c) /\ k - 1 \in 1 .. Len(c) - 1 /\ k - 1 \in 1 .. Len(c)
  BY <1>1, <1>4
<1>6. Less(c[k - 1][1], c[k][1]) /\ AtMost(c[k - 1][2], c[k][2])
  <2>1. (k - 1) + 1 = k
    BY <1>5
  <2> QED BY <1>5, <2>1 DEF Curve, Increasing
<1>7. k - 1 = i \/ Right(k - 1)
  <2>1. ~ (k <= k - 1)
    BY <1>1, <1>5
  <2>2. ~ (k - 1 \in Bad)
    BY <1>4, <2>1
  <2> QED BY <1>1, <1>5, <2>2
<1>8. /\ c[i][1] \in Reduced /\ c[i][2] \in Reduced /\ c[k][1] \in Reduced /\ c[k][2] \in Reduced
      /\ c[k - 1][1] \in Reduced /\ c[k - 1][2] \in Reduced
  BY <1>5, CurvePoint
<1>9. Right(k)
  BY <1>6, <1>7, <1>8, OrderLaws
<1> QED BY <1>4, <1>9

\* The span i of a curve is one that x is in, or the last one and x beyond it.
Inside(c, i, x) ==
  /\ i \in 1 .. Len(c) - 1 /\ AtMost(c[i][1], x)
  /\ i = Len(c) - 1 \/ AtMost(x, c[i + 1][1])

LEMMA SpanOf ==
  ASSUME NEW c, Curve(c), NEW x \in Reduced, AtMost(c[1][1], x)
  PROVE  \E i \in 1 .. Len(c) - 1 :
           /\ AtMost(c[i][1], x)
           /\ i = Len(c) - 1 \/ Less(x, c[i + 1][1])
<1> DEFINE P == {i \in 1 .. Len(c) - 1 : AtMost(c[i][1], x)}
<1>1. Len(c) \in Nat /\ Len(c) >= 2
  BY DEF Curve
<1>2. P \subseteq 0 .. Len(c) - 1 /\ 1 \in P /\ Len(c) - 1 \in Nat
  BY <1>1
<1>3. PICK i \in P : \A j \in P : j <= i
  BY <1>2, GreatestOf
<1>4. ASSUME i # Len(c) - 1 PROVE Less(x, c[i + 1][1])
  <2>1. i + 1 \in 1 .. Len(c) - 1 /\ i + 1 \in 1 .. Len(c) /\ ~ (i + 1 <= i)
    BY <1>1, <1>3, <1>4
  <2>2. ~ AtMost(c[i + 1][1], x)
    BY <1>3, <2>1
  <2>3. c[i + 1][1] \in Reduced
    BY <2>1, CurvePoint
  <2> QED BY <2>2, <2>3, OrderLaws
<1> QED BY <1>3, <1>4

\* FindSpan finds it.
LEMMA FindSpanIs ==
  ASSUME NEW c, Curve(c), NEW x \in Reduced, NEW i \in 1 .. Len(c) - 1, AtMost(c[i][1], x),
         i = Len(c) - 1 \/ Less(x, c[i + 1][1])
  PROVE  FindSpan(c, x) = i
<1> DEFINE last == Len(c) - 1
           in == {j \in 1 .. last : AtMost(c[j][1], x) /\ Less(x, c[j + 1][1])}
<1>1. Len(c) \in Nat /\ Len(c) >= 2
  BY DEF Curve
<1>2. \A j \in in : j = i
  <2> SUFFICES ASSUME NEW j \in in, j # i PROVE FALSE
    OBVIOUS
  <2>1. /\ i \in 1 .. Len(c) /\ j \in 1 .. Len(c) /\ j + 1 \in 1 .. Len(c)
        /\ i \in Int /\ j \in Int /\ AtMost(c[j][1], x) /\ Less(x, c[j + 1][1])
    BY <1>1
  <2>2. c[i][1] \in Reduced /\ c[j][1] \in Reduced /\ c[j + 1][1] \in Reduced
    BY <2>1, CurvePoint
  <2>3. CASE i < j
    <3>1. i + 1 \in 1 .. Len(c) /\ (i + 1 = j \/ i + 1 < j) /\ i # Len(c) - 1
      BY <1>1, <2>1, <2>3
    <3>2. c[i + 1][1] \in Reduced /\ (i + 1 = j \/ Less(c[i + 1][1], c[j][1]))
      BY <2>1, <3>1, CurvePoint, CurveOrder
    <3> QED BY <2>1, <2>2, <3>1, <3>2, OrderLaws
  <2>4. CASE j < i
    <3>1. j + 1 = i \/ j + 1 < i
      BY <2>1, <2>4
    <3>2. j + 1 = i \/ Less(c[j + 1][1], c[i][1])
      BY <2>1, <3>1, CurveOrder
    <3> QED BY <2>1, <2>2, <3>2, OrderLaws
  <2> QED BY <2>1, <2>3, <2>4
<1>3. FindSpan(c, x) = IF in = {} THEN last ELSE CHOOSE k \in in : \A j \in in : k <= j
  BY DEF FindSpan
<1>4. CASE in = {}
  <2>1. ~ (i \in in)
    BY <1>4
  <2>2. i = last
    BY <2>1
  <2> QED BY <1>3, <1>4, <2>2
<1>5. CASE in # {}
  <2>1. in = {i}
    BY <1>2, <1>5
  <2>2. i \in Int
    OBVIOUS
  <2> HIDE DEF in
  <2>3. (CHOOSE k \in in : \A j \in in : k <= j) = i
    <3>1. \E k \in in : \A j \in in : k <= j
      BY <2>1, <2>2
    <3> QED BY <2>1, <3>1
  <2> QED BY <1>3, <1>5, <2>3
<1> QED BY <1>4, <1>5

LEMMA SpanLess ==
  ASSUME NEW c, Curve(c), NEW i \in 1 .. Len(c) - 1
  PROVE  /\ c[i] \in Points /\ c[i + 1] \in Points /\ Less(c[i][1], c[i + 1][1])
         /\ AtMost(c[i][2], c[i + 1][2])
<1>1. i \in 1 .. Len(c) /\ i + 1 \in 1 .. Len(c)
  BY DEF Curve
<1>2. c[i] \in Points /\ c[i + 1] \in Points
  BY <1>1, CurvePoint
<1> QED BY <1>2 DEF Curve, Increasing

LEMMA EvalAtSpan ==
  ASSUME NEW c, Curve(c), NEW x \in Reduced, NEW i \in 1 .. Len(c) - 1, FindSpan(c, x) = i
  PROVE  /\ EvalGammaCurve(c, x) \in Reduced
         /\ OnLine(c[i], c[i + 1], <<x, EvalGammaCurve(c, x)>>)
<1> DEFINE p == c[i]
           q == c[i + 1]
<1>1. p \in Points /\ q \in Points /\ Less(p[1], q[1])
  BY SpanLess
<1>2. EvalGammaCurve(c, x) = Add(p[2], Over(Mul(Sub(x, p[1]), Sub(q[2], p[2])), Sub(q[1], p[1])))
  BY DEF EvalGammaCurve
<1> HIDE DEF p, q
<1>3. LET v == Add(p[2], Over(Mul(Sub(x, p[1]), Sub(q[2], p[2])), Sub(q[1], p[1]))) IN
        v \in Reduced /\ OnLine(p, q, <<x, v>>)
  BY <1>1, FormulaOnLine
<1>4. EvalGammaCurve(c, x) \in Reduced /\ OnLine(p, q, <<x, EvalGammaCurve(c, x)>>)
  BY <1>2, <1>3
<1> QED BY <1>4 DEF p, q

\* EvalGammaCurve is on the line of every span that x is in.
EvalOn(c, i, x) ==
  EvalGammaCurve(c, x) \in Reduced /\ OnLine(c[i], c[i + 1], <<x, EvalGammaCurve(c, x)>>)

LEMMA EvalIsOn ==
  ASSUME NEW c, Curve(c), NEW x \in Reduced, NEW i, Inside(c, i, x)
  PROVE  EvalOn(c, i, x)
<1>1. i \in 1 .. Len(c) - 1 /\ AtMost(c[i][1], x) /\ Len(c) \in Nat
  BY DEF Inside, Curve
<1>2. CASE i = Len(c) - 1 \/ Less(x, c[i + 1][1])
  <2>1. FindSpan(c, x) = i
    BY <1>1, <1>2, FindSpanIs
  <2> QED BY <1>1, <2>1, EvalAtSpan DEF EvalOn
<1>3. CASE ~ (i = Len(c) - 1 \/ Less(x, c[i + 1][1]))
  <2>1. i + 1 \in 1 .. Len(c) /\ i + 1 \in 1 .. Len(c) - 1 /\ AtMost(x, c[i + 1][1])
    BY <1>1, <1>3 DEF Inside
  <2>2. c[i + 1][1] \in Reduced
    BY <2>1, CurvePoint
  <2>3. x = c[i + 1][1]
    BY <1>3, <2>1, <2>2, OrderLaws
  <2> DEFINE k == i + 1
  <2>4. k \in 1 .. Len(c) - 1 /\ AtMost(c[k][1], x)
    BY <2>1, <2>3, OrderLaws
  <2>5. c[k] \in Points /\ c[k + 1] \in Points /\ Less(c[k][1], c[k + 1][1])
    BY <2>4, SpanLess
  <2>6. Less(x, c[k + 1][1])
    BY <2>3, <2>5
  <2> HIDE DEF k
  <2>7. FindSpan(c, x) = k
    BY <2>4, <2>6, FindSpanIs
  <2>8. /\ EvalGammaCurve(c, x) \in Reduced
        /\ OnLine(c[k], c[k + 1], <<x, EvalGammaCurve(c, x)>>)
    BY <2>4, <2>7, EvalAtSpan
  <2> DEFINE r == <<x, EvalGammaCurve(c, x)>>
  <2>9. r \in Points /\ r[1] = c[k][1]
    BY <2>3, <2>8 DEF Points, k
  <2>10. OnLine(c[k], c[k + 1], c[k])
    BY <2>5, LineEnds
  <2> HIDE DEF r
  <2>11. OnLine(c[k], c[k + 1], r)
    BY <2>8 DEF r
  <2>12. r = c[k]
    BY <2>5, <2>9, <2>10, <2>11, LineHasOne
  <2>13. c[i] \in Points /\ c[i + 1] \in Points
    BY <1>1, SpanLess
  <2>14. OnLine(c[i], c[i + 1], c[i + 1])
    BY <2>13, LineEnds
  <2> QED BY <2>8, <2>12, <2>14 DEF EvalOn, r, k
<1> QED BY <1>2, <1>3

LEMMA EvalUnique ==
  ASSUME NEW c, Curve(c), NEW x \in Reduced, NEW i, Inside(c, i, x), NEW z \in Reduced,
         OnLine(c[i], c[i + 1], <<x, z>>)
  PROVE  EvalGammaCurve(c, x) = z
<1>1. i \in 1 .. Len(c) - 1
  BY DEF Inside
<1>2. c[i] \in Points /\ c[i + 1] \in Points /\ Less(c[i][1], c[i + 1][1])
  BY <1>1, SpanLess
<1>3. EvalOn(c, i, x)
  BY EvalIsOn
<1> DEFINE r == <<x, EvalGammaCurve(c, x)>>
           s == <<x, z>>
<1>4. r \in Points /\ s \in Points /\ r[1] = s[1] /\ r[2] = EvalGammaCurve(c, x) /\ s[2] = z
  BY <1>3 DEF Points, EvalOn
<1>5. OnLine(c[i], c[i + 1], r) /\ OnLine(c[i], c[i + 1], s)
  BY <1>3 DEF EvalOn
<1> HIDE DEF r, s
<1>6. r = s
  BY <1>2, <1>4, <1>5, LineHasOne
<1> QED BY <1>4, <1>6

LEMMA InsideOne ==
  ASSUME NEW c, Curve(c), NEW x \in Reduced, AtMost(c[1][1], x)
  PROVE  \E i : Inside(c, i, x)
<1>1. PICK i \in 1 .. Len(c) - 1 : AtMost(c[i][1], x) /\ (i = Len(c) - 1 \/ Less(x, c[i + 1][1]))
  BY SpanOf
<1>2. i + 1 \in 1 .. Len(c)
  BY DEF Curve
<1>3. c[i + 1][1] \in Reduced
  BY <1>2, CurvePoint
<1> QED BY <1>1, <1>3, OrderLaws DEF Inside

\* A curve goes through its points.
LEMMA EvalAtPoint ==
  ASSUME NEW c, Curve(c), NEW i \in 1 .. Len(c)
  PROVE  EvalGammaCurve(c, c[i][1]) = c[i][2]
<1>1. Len(c) \in Nat /\ Len(c) >= 2
  BY DEF Curve
<1>2. c[i] \in Points /\ c[i][1] \in Reduced /\ c[i][2] \in Reduced /\ c[i] = <<c[i][1], c[i][2]>>
  BY CurvePoint, PointParts
<1>3. CASE i # Len(c)
  <2>1. i \in 1 .. Len(c) - 1
    BY <1>1, <1>3
  <2>2. c[i + 1] \in Points /\ Less(c[i][1], c[i + 1][1]) /\ c[i + 1][1] \in Reduced
    BY <2>1, SpanLess, PointParts
  <2>3. Inside(c, i, c[i][1])
    BY <1>2, <2>1, <2>2, OrderLaws DEF Inside
  <2>4. OnLine(c[i], c[i + 1], <<c[i][1], c[i][2]>>)
    BY <1>2, <2>2, LineEnds
  <2> QED BY <1>2, <2>3, <2>4, EvalUnique
<1>4. CASE i = Len(c)
  <2> DEFINE k == i - 1
  <2>1. k \in 1 .. Len(c) - 1 /\ k + 1 = i /\ k = Len(c) - 1
    BY <1>1, <1>4
  <2> HIDE DEF k
  <2>2. c[k] \in Points /\ Less(c[k][1], c[k + 1][1]) /\ c[k][1] \in Reduced
    BY <2>1, SpanLess, PointParts
  <2>3. Inside(c, k, c[i][1])
    BY <1>2, <2>1, <2>2, OrderLaws DEF Inside
  <2>4. OnLine(c[k], c[k + 1], <<c[i][1], c[i][2]>>)
    BY <1>2, <2>1, <2>2, LineEnds
  <2> QED BY <1>2, <2>3, <2>4, EvalUnique
<1> QED BY <1>3, <1>4

EvalOrdered(c, x, y) ==
  /\ EvalGammaCurve(c, x) \in Reduced /\ EvalGammaCurve(c, y) \in Reduced
  /\ AtMost(EvalGammaCurve(c, x), EvalGammaCurve(c, y))

\* A curve rises from its first point on.
LEMMA EvalRises ==
  ASSUME NEW c, Curve(c), NEW x \in Reduced, NEW y \in Reduced, AtMost(c[1][1], x), AtMost(x, y)
  PROVE  EvalOrdered(c, x, y)
<1> DEFINE v == EvalGammaCurve(c, x)
           w == EvalGammaCurve(c, y)
           r == <<x, v>>
           s == <<y, w>>
<1>1. Len(c) \in Nat /\ Len(c) >= 2
  BY DEF Curve
<1>2. c[1][1] \in Reduced
  BY <1>1, CurvePoint
<1>3. AtMost(c[1][1], y)
  BY <1>2, OrderLaws
<1>4. PICK i : Inside(c, i, x)
  BY InsideOne
<1>5. PICK j \in 1 .. Len(c) - 1 : AtMost(c[j][1], y) /\ (j = Len(c) - 1 \/ Less(y, c[j + 1][1]))
  BY <1>3, SpanOf
<1>6. i \in 1 .. Len(c) - 1 /\ AtMost(c[i][1], x)
  BY <1>4 DEF Inside
<1>7. /\ c[i] \in Points /\ c[i + 1] \in Points /\ c[j] \in Points /\ c[j + 1] \in Points
      /\ Less(c[i][1], c[i + 1][1]) /\ AtMost(c[i][2], c[i + 1][2])
      /\ Less(c[j][1], c[j + 1][1]) /\ AtMost(c[j][2], c[j + 1][2])
  BY <1>5, <1>6, SpanLess
<1>8. /\ c[i][1] \in Reduced /\ c[i + 1][1] \in Reduced /\ c[j][1] \in Reduced /\ c[j + 1][1] \in Reduced
      /\ c[i][2] \in Reduced /\ c[i + 1][2] \in Reduced /\ c[j][2] \in Reduced /\ c[j + 1][2] \in Reduced
  BY <1>7, PointParts
<1>9. Inside(c, j, y)
  BY <1>5, <1>8, OrderLaws DEF Inside
<1>10. EvalOn(c, i, x) /\ EvalOn(c, j, y)
  BY <1>4, <1>9, EvalIsOn
<1>11. v \in Reduced /\ w \in Reduced /\ OnLine(c[i], c[i + 1], r) /\ OnLine(c[j], c[j + 1], s)
  BY <1>10 DEF EvalOn
<1>12. r \in Points /\ s \in Points /\ r[1] = x /\ r[2] = v /\ s[1] = y /\ s[2] = w
  BY <1>11 DEF Points
<1> HIDE DEF v, w, r, s
<1>13. i <= j
  <2>1. CASE j < i
    <3>1. j + 1 \in 1 .. Len(c) /\ i \in 1 .. Len(c) /\ (j + 1 = i \/ j + 1 < i) /\ j # Len(c) - 1
      BY <1>1, <1>5, <1>6, <2>1
    <3>2. j + 1 = i \/ Less(c[j + 1][1], c[i][1])
      BY <3>1, CurveOrder
    <3>3. Less(y, c[j + 1][1])
      BY <1>5, <3>1
    <3> QED BY <1>6, <1>8, <3>2, <3>3, OrderLaws
  <2> QED BY <1>5, <1>6, <2>1
<1>14. CASE i = j
  <2>1. AtMost(r[2], s[2])
    BY <1>7, <1>11, <1>12, <1>14, LineRises
  <2> QED BY <1>11, <1>12, <2>1 DEF EvalOrdered, v, w
<1>15. CASE i < j
  <2>1. AtMost(x, c[i + 1][1])
    BY <1>4, <1>5, <1>6, <1>15 DEF Inside
  <2>2. OnLine(c[i], c[i + 1], c[i + 1]) /\ OnLine(c[j], c[j + 1], c[j])
    BY <1>7, LineEnds
  <2>3. AtMost(r[2], c[i + 1][2])
    BY <1>7, <1>11, <1>12, <2>1, <2>2, LineRises
  <2>4. AtMost(c[j][2], s[2])
    BY <1>5, <1>7, <1>11, <1>12, <2>2, LineRises
  <2>5. i + 1 \in 1 .. Len(c) /\ j \in 1 .. Len(c) /\ (i + 1 = j \/ i + 1 < j)
    BY <1>1, <1>5, <1>6, <1>15
  <2>6. AtMost(c[i + 1][2], c[j][2])
    BY <1>8, <2>5, CurveOrder, OrderLaws
  <2>7. AtMost(v, w)
    BY <1>8, <1>11, <1>12, <2>3, <2>4, <2>6, OrderLaws
  <2> QED BY <1>11, <2>7 DEF EvalOrdered, v, w
<1> QED BY <1>5, <1>6, <1>13, <1>14, <1>15

Ordered2(a, b) == a \in Reduced /\ b \in Reduced /\ AtMost(a, b)

LEMMA OperatorsRise ==
  ASSUME NEW a \in Reduced, NEW b \in Reduced, AtMost(a, b), NEW r \in Reduced
  PROVE  /\ Ordered2(Sub(a, r), Sub(b, r)) /\ Ordered2(Add(a, r), Add(b, r))
         /\ Ordered2(MinQ(r, a), MinQ(r, b)) /\ Ordered2(MaxQ(r, a), MaxQ(r, b))
         /\ AtMost(Int2Q(0), r) => Ordered2(Mul(a, r), Mul(b, r))
<1>1. PICK D \in Positive : {a, b, r} \subseteq Den(D)
  <2>1. Together(a, b, r, r, r, r, r, r, r, r)
    BY SharedByAll
  <2> QED BY <2>1 DEF Together
<1>2. PICK i \in Int, j \in Int, k \in Int : a = Q(i, D) /\ b = Q(j, D) /\ r = Q(k, D)
  BY <1>1 DEF Den
<1>3. i <= j
  BY <1>2, OfDen
<1>4. Ordered2(Sub(a, r), Sub(b, r))
  <2>1. Sub(a, r) = Q(i - k, D) /\ Sub(b, r) = Q(j - k, D) /\ i - k \in Int /\ j - k \in Int
    BY <1>2, OfDen
  <2>2. i - k <= j - k
    BY <1>3
  <2> QED BY <2>1, <2>2, OfDen, QIsReduced DEF Ordered2
<1>5. Ordered2(Add(a, r), Add(b, r))
  <2>1. Add(a, r) = Q(i + k, D) /\ Add(b, r) = Q(j + k, D) /\ i + k \in Int /\ j + k \in Int
    BY <1>2, OfDen
  <2>2. i + k <= j + k
    BY <1>3
  <2> QED BY <2>1, <2>2, OfDen, QIsReduced DEF Ordered2
<1>6. Ordered2(MinQ(r, a), MinQ(r, b)) /\ Ordered2(MaxQ(r, a), MaxQ(r, b))
  BY OrderLaws DEF Ordered2, MinQ, MaxQ
<1>7. ASSUME AtMost(Int2Q(0), r) PROVE Ordered2(Mul(a, r), Mul(b, r))
  <2>1. k >= 0
    <3>1. 0 \in Int /\ 1 \in Positive /\ Int2Q(0) = Q(0, 1)
      BY IntIsQ DEF Positive
    <3>2. AtMost(Q(0, 1), Q(k, D))
      BY <1>2, <1>7, <3>1
    <3>3. 0 * D <= k * 1
      BY <3>1, <3>2, AtMostQ
    <3> QED BY <3>3 DEF Positive
  <2>2. Mul(a, r) = Q(i * k, D * D) /\ Mul(b, r) = Q(j * k, D * D)
    BY <1>2, QAdds
  <2>3. i * k \in Int /\ j * k \in Int /\ D * D \in Positive
    BY DEF Positive
  <2>4. i * k <= j * k
    BY <1>3, <2>1
  <2> DEFINE u == i * k
             v == j * k
             E == D * D
  <2>5. u \in Int /\ v \in Int /\ E \in Positive /\ u <= v /\ Mul(a, r) = Q(u, E) /\ Mul(b, r) = Q(v, E)
    BY <2>2, <2>3, <2>4
  <2> HIDE DEF u, v, E
  <2>6. AtMost(Q(u, E), Q(v, E))
    BY <2>5, OfDen
  <2>7. Q(u, E) \in Reduced /\ Q(v, E) \in Reduced
    BY <2>5, QIsReduced
  <2> QED BY <2>5, <2>6, <2>7 DEF Ordered2
<1> QED BY <1>4, <1>5, <1>6, <1>7

LEMMA IntReduced == \A n \in Int : Int2Q(n) \in Reduced
<1> TAKE n \in Int
<1>1. 1 \in Positive
  BY DEF Positive
<1> QED BY <1>1, IntIsQ, QIsReduced

\* Brightness and contrast keep a curve one.
LEMMA AdjustedIsCurve ==
  ASSUME NEW c, Curve(c), NEW contrast \in Reduced, AtMost(Int2Q(0), contrast),
         NEW brightness \in Reduced, NEW top \in Nat
  PROVE  /\ Curve(Adjusted(c, contrast, brightness, top))
         /\ Adjusted(c, contrast, brightness, top)[1][1] = c[1][1]
<1> DEFINE half == Q(top, 2)
           Moved(y) == MaxQ(Int2Q(0), MinQ(Int2Q(top),
                         Add(Add(Mul(Sub(y, half), contrast), half), brightness)))
           a == Adjusted(c, contrast, brightness, top)
<1>1. Len(c) \in Nat /\ Len(c) >= 2 /\ DOMAIN c = 1 .. Len(c) /\ c \in Seq(Points)
  BY DEF Curve
<1>2. half \in Reduced /\ Int2Q(0) \in Reduced /\ Int2Q(top) \in Reduced
  <2>1. top \in Int /\ 2 \in Positive
    BY DEF Positive
  <2> QED BY <2>1, IntReduced, QIsReduced
<1>3. ASSUME NEW y \in Reduced, NEW z \in Reduced, AtMost(y, z)
      PROVE  Ordered2(Moved(y), Moved(z))
  <2> HIDE DEF half
  <2>1. Ordered2(Sub(y, half), Sub(z, half))
    BY <1>2, <1>3, OperatorsRise
  <2>2. Ordered2(Mul(Sub(y, half), contrast), Mul(Sub(z, half), contrast))
    BY <2>1, OperatorsRise DEF Ordered2
  <2>3. Ordered2(Add(Mul(Sub(y, half), contrast), half), Add(Mul(Sub(z, half), contrast), half))
    BY <1>2, <2>2, OperatorsRise DEF Ordered2
  <2> DEFINE u == Add(Mul(Sub(y, half), contrast), half)
             v == Add(Mul(Sub(z, half), contrast), half)
  <2>4. Ordered2(u, v)
    BY <2>3
  <2> HIDE DEF u, v
  <2>5. Ordered2(Add(u, brightness), Add(v, brightness))
    BY <2>4, OperatorsRise DEF Ordered2
  <2>6. Ordered2(MinQ(Int2Q(top), Add(u, brightness)), MinQ(Int2Q(top), Add(v, brightness)))
    BY <1>2, <2>5, OperatorsRise DEF Ordered2
  <2>7. Ordered2(MaxQ(Int2Q(0), MinQ(Int2Q(top), Add(u, brightness))),
                 MaxQ(Int2Q(0), MinQ(Int2Q(top), Add(v, brightness))))
    BY <1>2, <2>6, OperatorsRise DEF Ordered2
  <2> QED BY <2>7 DEF u, v
<1>4. a = [i \in 1 .. Len(c) |-> <<c[i][1], Moved(c[i][2])>>]
  BY <1>1 DEF Adjusted
<1> HIDE DEF Moved, a
<1>5. \A y \in Reduced : Moved(y) \in Reduced
  BY <1>3, OrderLaws DEF Ordered2
<1>6. ASSUME NEW i \in 1 .. Len(c) PROVE a[i] \in Points
  <2>1. c[i][1] \in Reduced /\ c[i][2] \in Reduced
    BY CurvePoint
  <2> QED BY <1>4, <1>5, <2>1 DEF Points
<1>7. a \in Seq(Points) /\ Len(a) = Len(c)
  <2>1. a \in [1 .. Len(c) -> Points]
    BY <1>4, <1>6
  <2> QED BY <1>1, <2>1
<1>8. ASSUME NEW i \in 1 .. Len(a) - 1
      PROVE  Less(a[i][1], a[i + 1][1]) /\ AtMost(a[i][2], a[i + 1][2])
  <2>1. i \in 1 .. Len(c) - 1 /\ i \in 1 .. Len(c) /\ i + 1 \in 1 .. Len(c)
    BY <1>1, <1>7, <1>8
  <2>2. c[i] \in Points /\ c[i + 1] \in Points /\ Less(c[i][1], c[i + 1][1]) /\ AtMost(c[i][2], c[i + 1][2])
    BY <2>1, SpanLess
  <2>3. c[i][2] \in Reduced /\ c[i + 1][2] \in Reduced
    BY <2>2, PointParts
  <2>4. AtMost(Moved(c[i][2]), Moved(c[i + 1][2]))
    BY <1>3, <2>2, <2>3 DEF Ordered2
  <2> QED BY <1>4, <2>1, <2>2, <2>4
<1>9. Curve(a)
  BY <1>1, <1>7, <1>8 DEF Curve, Increasing
<1>10. a[1][1] = c[1][1]
  BY <1>1, <1>4
<1> QED BY <1>9, <1>10 DEF a

LEMMA FloorRises ==
  ASSUME NEW p \in Reduced, NEW q \in Reduced, AtMost(p, q)
  PROVE  Floor(p) \in Int /\ Floor(q) \in Int /\ Floor(p) <= Floor(q)
<1>1. PICK D \in Positive : {p, q} \subseteq Den(D)
  <2>1. Together(p, q, q, q, q, q, q, q, q, q)
    BY SharedByAll
  <2> QED BY <2>1 DEF Together
<1>2. PICK i \in Int, j \in Int : p = Q(i, D) /\ q = Q(j, D)
  BY <1>1 DEF Den
<1>3. i <= j
  BY <1>2, OfDen
<1>4. Floor(p) = i \div D /\ Floor(q) = j \div D
  BY <1>2, QFloors
<1> DEFINE m == i \div D
           r == i % D
           n == j \div D
           s == j % D
<1>5. D \in Nat \ {0}
  BY DEF Positive
<1>6. m \in Int /\ r \in 0 .. D - 1 /\ i = D * m + r
  BY <1>5, DivMod, Zenon
<1>7. n \in Int /\ s \in 0 .. D - 1 /\ j = D * n + s
  BY <1>5, DivMod, Zenon
<1> HIDE DEF m, n, r, s
<1>8. m <= n
  <2> SUFFICES ASSUME n + 1 <= m PROVE FALSE
    BY <1>6, <1>7
  <2>1. D * (n + 1) <= D * m
    BY <1>5, <1>6, <1>7
  <2>2. D * (n + 1) = D * n + D
    BY <1>5, <1>7
  <2> QED BY <1>3, <1>5, <1>6, <1>7, <2>1, <2>2
<1> QED BY <1>4, <1>6, <1>7, <1>8 DEF m, n

LEMMA FloorOfInt == \A n \in Int : Floor(Int2Q(n)) = n
<1> TAKE n \in Int
<1>1. n \div 1 = n
  OBVIOUS
<1> QED BY <1>1 DEF Floor, Int2Q

IntsOrdered(n, m) == AtMost(Int2Q(n), Int2Q(m)) <=> n <= m

LEMMA IntOrder == \A n, m \in Int : IntsOrdered(n, m)
<1> TAKE n, m \in Int
<1>1. n * 1 = n /\ m * 1 = m
  OBVIOUS
<1> QED BY <1>1 DEF IntsOrdered, AtMost, Int2Q

\* Steps at which the curve is read.
Growing(xs) == xs \in Seq(Nat) /\ \A i \in 1 .. Len(xs) - 1 : xs[i] <= xs[i + 1]

\* The levels of a curve rise up to the greatest.
LevelsRise(levels, top) ==
  /\ levels[Len(levels)] = top
  /\ \A i \in 1 .. Len(levels) - 1 : levels[i] <= levels[i + 1]

LEMMA FilledRises ==
  ASSUME NEW c, Curve(c), AtMost(c[1][1], Int2Q(0)), NEW xs, Growing(xs), NEW top \in Nat
  PROVE  LevelsRise(FillInContrastStatus(c, xs, top), top)
<1> DEFINE n == Len(xs)
           Level(i) == Floor(MinQ(Int2Q(top), EvalGammaCurve(c, Int2Q(xs[i]))))
           levels == FillInContrastStatus(c, xs, top)
<1>1. n \in Nat /\ \A i \in 1 .. n : xs[i] \in Nat
  BY DEF Growing
<1>2. levels = [i \in 1 .. n + 1 |-> IF i > n THEN top ELSE Level(i)]
  BY DEF FillInContrastStatus
<1> HIDE DEF levels
<1>3. Len(levels) = n + 1 /\ levels[n + 1] = top /\ \A i \in 1 .. n : levels[i] = Level(i)
  BY <1>1, <1>2
<1>4. Int2Q(top) \in Reduced /\ Int2Q(0) \in Reduced /\ Len(c) \in Nat /\ Len(c) >= 2
  BY IntReduced DEF Curve
<1>5. c[1][1] \in Reduced
  BY <1>4, CurvePoint
<1>6. ASSUME NEW x \in Nat, NEW y \in Nat, x <= y
      PROVE  LET v == EvalGammaCurve(c, Int2Q(x))
                 w == EvalGammaCurve(c, Int2Q(y)) IN
               /\ Floor(MinQ(Int2Q(top), v)) <= Floor(MinQ(Int2Q(top), w))
               /\ Floor(MinQ(Int2Q(top), v)) <= top
  <2>1. Int2Q(x) \in Reduced /\ Int2Q(y) \in Reduced
    BY IntReduced
  <2>2. AtMost(Int2Q(0), Int2Q(x)) /\ AtMost(Int2Q(x), Int2Q(y))
    BY <1>6, IntOrder DEF IntsOrdered
  <2>3. AtMost(c[1][1], Int2Q(x))
    BY <1>4, <1>5, <2>1, <2>2, OrderLaws
  <2>4. EvalOrdered(c, Int2Q(x), Int2Q(y))
    BY <2>1, <2>2, <2>3, EvalRises
  <2> DEFINE v == EvalGammaCurve(c, Int2Q(x))
             w == EvalGammaCurve(c, Int2Q(y))
  <2>5. v \in Reduced /\ w \in Reduced /\ AtMost(v, w)
    BY <2>4 DEF EvalOrdered
  <2> HIDE DEF v, w
  <2>6. Ordered2(MinQ(Int2Q(top), v), MinQ(Int2Q(top), w))
    BY <1>4, <2>5, OperatorsRise
  <2>7. Floor(MinQ(Int2Q(top), v)) <= Floor(MinQ(Int2Q(top), w))
    BY <2>6, FloorRises DEF Ordered2
  <2>8. AtMost(MinQ(Int2Q(top), v), Int2Q(top))
    BY <1>4, <2>5, OrderLaws DEF MinQ
  <2>9. Floor(MinQ(Int2Q(top), v)) <= top
    BY <1>4, <2>6, <2>8, FloorRises, FloorOfInt DEF Ordered2
  <2> QED BY <2>7, <2>9 DEF v, w
<1>7. ASSUME NEW i \in 1 .. n PROVE levels[i] <= levels[i + 1]
  <2>1. CASE i = n
    BY <1>1, <1>3, <1>6, <2>1
  <2>2. CASE i # n
    <3>1. i \in 1 .. Len(xs) - 1 /\ i + 1 \in 1 .. n
      BY <1>1, <2>2
    <3>2. xs[i] <= xs[i + 1] /\ xs[i] \in Nat /\ xs[i + 1] \in Nat
      BY <1>1, <3>1 DEF Growing
    <3> QED BY <1>3, <1>6, <3>1, <3>2
  <2> QED BY <2>1, <2>2
<1> QED BY <1>1, <1>3, <1>7 DEF levels, LevelsRise

-----------------------------------------------------------------------------
(* Histograms *)

Histogram(h) == h \in Seq(Nat) /\ Len(h) >= 1

\* The pixels in the bins before k.
Count(h, k) == Cardinality(Pixels(h, 0 .. k - 1))

CountIs(h, k) ==
  /\ IsFiniteSet(Pixels(h, 0 .. k - 1)) /\ Count(h, k) \in Nat
  /\ k = 0 => Count(h, k) = 0
  /\ k > 0 => Count(h, k) = Count(h, k - 1) + h[k]

LEMMA PixelsOfMore ==
  ASSUME NEW h, Histogram(h), NEW k \in 1 .. Len(h), IsFiniteSet(Pixels(h, 0 .. k - 2))
  PROVE  /\ IsFiniteSet(Pixels(h, 0 .. k - 1))
         /\ Cardinality(Pixels(h, 0 .. k - 1)) = Cardinality(Pixels(h, 0 .. k - 2)) + h[k]
<1> DEFINE b == k - 1
           A == Pixels(h, 0 .. k - 2)
           B == {b} \X (1 .. h[k])
<1>1. Len(h) \in Nat /\ k \in Nat /\ b \in Nat /\ h[k] \in Nat
  BY DEF Histogram
<1>2. 0 .. k - 1 = (0 .. k - 2) \cup {b}
  BY <1>1
<1>3. Pixels(h, 0 .. k - 1) = A \cup B
  <2>1. b + 1 = k
    BY <1>1
  <2> HIDE DEF b
  <2>2. UNION {{bin} \X (1 .. h[bin + 1]) : bin \in (0 .. k - 2) \cup {b}}
          = (UNION {{bin} \X (1 .. h[bin + 1]) : bin \in 0 .. k - 2}) \cup ({b} \X (1 .. h[b + 1]))
    BY Zenon
  <2> QED BY <1>2, <2>1, <2>2 DEF Pixels
<1>4. A \cap B = {}
  <2> SUFFICES ASSUME NEW x \in A, x \in B PROVE FALSE
    OBVIOUS
  <2>1. PICK bin \in 0 .. k - 2 : x \in {bin} \X (1 .. h[bin + 1])
    BY DEF Pixels
  <2>2. x[1] = bin /\ x[1] = b
    BY <2>1
  <2> QED BY <1>1, <2>1, <2>2
<1>5. IsFiniteSet(B) /\ Cardinality(B) = h[k]
  <2>1. IsFiniteSet({b}) /\ Cardinality({b}) = 1
    BY FS_Singleton
  <2>2. IsFiniteSet(1 .. h[k]) /\ Cardinality(1 .. h[k]) = h[k]
    <3>1. 1 \in Int /\ h[k] \in Int
      BY <1>1
    <3>2. IsFiniteSet(1 .. h[k]) /\ Cardinality(1 .. h[k]) = IF 1 > h[k] THEN 0 ELSE h[k] - 1 + 1
      BY <3>1, FS_Interval
    <3> QED BY <1>1, <3>2
  <2>3. IsFiniteSet(B) /\ Cardinality(B) = 1 * h[k]
    BY <2>1, <2>2, FS_Product
  <2> QED BY <1>1, <2>3
<1> HIDE DEF A, B
<1>6. IsFiniteSet(A)
  BY DEF A
<1>7. IsFiniteSet(A \cup B) /\ Cardinality(A \cup B) = Cardinality(A) + Cardinality(B) - Cardinality(A \cap B)
  BY <1>5, <1>6, FS_Union
<1>8. Cardinality(A \cap B) = 0
  BY <1>4, FS_EmptySet
<1>9. Cardinality(A) \in Nat
  BY <1>6, FS_CardinalityType
<1>10. Cardinality(A \cup B) = Cardinality(A) + h[k]
  BY <1>1, <1>5, <1>7, <1>8, <1>9
<1> QED BY <1>3, <1>7, <1>10 DEF A

LEMMA CountsAre == ASSUME NEW h, Histogram(h) PROVE \A k \in 0 .. Len(h) : CountIs(h, k)
<1> DEFINE Bad == {k \in 0 .. Len(h) : ~ CountIs(h, k)}
<1> SUFFICES ASSUME Bad # {} PROVE FALSE
  OBVIOUS
<1>1. Len(h) \in Nat
  BY DEF Histogram
<1>2. Bad \subseteq Nat
  BY <1>1
<1>3. PICK k \in Bad : \A l \in Bad : k <= l
  BY <1>2, LeastOf
<1>4. CASE k = 0
  <2>1. 0 .. 0 - 1 = {}
    OBVIOUS
  <2>2. Pixels(h, 0 .. 0 - 1) = {}
    BY <2>1 DEF Pixels
  <2>3. CountIs(h, 0)
    <3>1. IsFiniteSet({}) /\ Cardinality({}) = 0
      BY FS_EmptySet
    <3>2. IsFiniteSet(Pixels(h, 0 .. 0 - 1)) /\ Count(h, 0) = 0
      BY <2>2, <3>1 DEF Count
    <3>3. ~ (0 > 0) /\ 0 \in Nat
      OBVIOUS
    <3> QED BY <3>2, <3>3 DEF CountIs
  <2> QED BY <1>3, <1>4, <2>3
<1>5. CASE k # 0
  <2>1. k \in 1 .. Len(h) /\ k - 1 \in 0 .. Len(h) /\ ~ (k <= k - 1) /\ (k - 1) - 1 = k - 2
    BY <1>1, <1>3, <1>5
  <2>2. CountIs(h, k - 1)
    BY <1>3, <2>1
  <2>3. IsFiniteSet(Pixels(h, 0 .. k - 2)) /\ Count(h, k - 1) = Cardinality(Pixels(h, 0 .. k - 2))
    BY <2>1, <2>2 DEF CountIs, Count
  <2>4. /\ IsFiniteSet(Pixels(h, 0 .. k - 1))
        /\ Cardinality(Pixels(h, 0 .. k - 1)) = Cardinality(Pixels(h, 0 .. k - 2)) + h[k]
    BY <2>1, <2>3, PixelsOfMore
  <2>5. Count(h, k) = Count(h, k - 1) + h[k] /\ Count(h, k) \in Nat
    BY <2>3, <2>4, FS_CardinalityType DEF Count
  <2>6. CountIs(h, k)
    BY <1>5, <2>4, <2>5 DEF CountIs
  <2> QED BY <1>3, <2>6
<1> QED BY <1>4, <1>5

\* What has been summed up before a bin are the pixels there.
LEMMA CumulativeIs ==
  ASSUME NEW h, Histogram(h)
  PROVE  HistogramCumulative(h) = [i \in 1 .. Len(h) + 1 |-> Count(h, i - 1)]
<1> DEFINE I == 1 .. Len(h) + 1
           G == [i \in I |-> Count(h, i - 1)]
           Step(f, i) == IF i = 1 THEN 0 ELSE f[i - 1] + h[i - 1]
           H == HistogramCumulative(h)
<1>1. Len(h) \in Nat
  BY DEF Histogram
<1>2. ASSUME NEW i \in I PROVE G[i] = Step(G, i) /\ (i # 1 => i - 1 \in I)
  <2>1. i - 1 \in 0 .. Len(h) /\ i \in Nat
    BY <1>1
  <2>2. CountIs(h, i - 1)
    BY <2>1, CountsAre
  <2>3. CASE i = 1
    BY <2>1, <2>2, <2>3 DEF CountIs
  <2>4. CASE i # 1
    <3>1. i - 1 > 0 /\ i - 1 \in I
      BY <1>1, <2>1, <2>4
    <3>2. Count(h, i - 1) = Count(h, (i - 1) - 1) + h[i - 1]
      BY <2>2, <3>1 DEF CountIs
    <3>3. G[i] = Count(h, i - 1) /\ G[i - 1] = Count(h, (i - 1) - 1)
      BY <3>1
    <3> QED BY <2>4, <3>1, <3>2, <3>3
  <2> QED BY <2>3, <2>4
<1>3. H = CHOOSE f : f = [i \in I |-> Step(f, i)]
  BY DEF HistogramCumulative
<1>4. G = [i \in I |-> Step(G, i)]
  BY <1>2
<1> HIDE DEF G, H, Step
<1>5. H = [i \in I |-> Step(H, i)]
  BY <1>3, <1>4
<1> DEFINE Bad == {i \in I : H[i] # G[i]}
<1>6. ASSUME Bad # {} PROVE FALSE
  <2>1. Bad \subseteq Nat
    BY <1>1
  <2>2. PICK i \in Bad : \A j \in Bad : i <= j
    BY <1>6, <2>1, LeastOf
  <2>3. i \in I /\ i \in Nat /\ H[i] # G[i]
    BY <2>1, <2>2
  <2>4. H[i] = Step(H, i) /\ G[i] = Step(G, i)
    BY <1>2, <1>5, <2>3
  <2>5. i # 1 => H[i - 1] = G[i - 1]
    <3> SUFFICES ASSUME i # 1 PROVE H[i - 1] = G[i - 1]
      OBVIOUS
    <3>1. i - 1 \in I /\ ~ (i <= i - 1)
      BY <1>2, <2>3
    <3> QED BY <2>2, <3>1
  <2>6. H[i] = G[i]
    BY <2>4, <2>5 DEF Step
  <2> QED BY <2>3, <2>6
<1>7. \A i \in I : H[i] = G[i]
  BY <1>6
<1>8. H = [i \in I |-> H[i]] /\ G = [i \in I |-> G[i]]
  BY <1>4, <1>5
<1>9. H = G
  BY <1>7, <1>8
<1> QED BY <1>9 DEF G, H

\* Sums are sums of some histogram: they begin with 0 and never fall.
Sums(c) ==
  /\ c \in Seq(Nat) /\ Len(c) >= 2 /\ c[1] = 0
  /\ \A i, j \in 1 .. Len(c) : i <= j => c[i] <= c[j]

LEMMA CumulativeIsSums ==
  ASSUME NEW h, Histogram(h)
  PROVE  /\ Sums(HistogramCumulative(h)) /\ Len(HistogramCumulative(h)) = Len(h) + 1
         /\ \A k \in 0 .. Len(h) : HistogramCumulative(h)[k + 1] = Count(h, k)
<1> DEFINE c == HistogramCumulative(h)
           n == Len(h)
<1>1. n \in Nat /\ n >= 1
  BY DEF Histogram
<1>2. c = [i \in 1 .. n + 1 |-> Count(h, i - 1)]
  BY CumulativeIs
<1> HIDE DEF c, n
<1>3. \A k \in 0 .. n : CountIs(h, k)
  BY CountsAre DEF n
<1>4. \A k \in 0 .. n : c[k + 1] = Count(h, k) /\ Count(h, k) \in Nat
  <2> SUFFICES ASSUME NEW k \in 0 .. n PROVE c[k + 1] = Count(h, k) /\ Count(h, k) \in Nat
    OBVIOUS
  <2>1. k + 1 \in 1 .. n + 1 /\ (k + 1) - 1 = k
    BY <1>1
  <2> QED BY <1>2, <1>3, <2>1 DEF CountIs
<1>5. \A i \in 1 .. n + 1 : c[i] \in Nat
  <2> SUFFICES ASSUME NEW i \in 1 .. n + 1 PROVE c[i] \in Nat
    OBVIOUS
  <2>1. i - 1 \in 0 .. n /\ (i - 1) + 1 = i
    BY <1>1
  <2> QED BY <1>4, <2>1
<1>6. c \in Seq(Nat) /\ Len(c) = n + 1
  BY <1>1, <1>2, <1>5
<1>7. c[1] = 0
  <2>1. 0 \in 0 .. n /\ 0 + 1 = 1
    BY <1>1
  <2> QED BY <1>3, <1>4, <2>1 DEF CountIs
<1>8. ASSUME NEW i \in 1 .. n + 1, NEW j \in 1 .. n + 1, i <= j PROVE c[i] <= c[j]
  <2> DEFINE Bad == {k \in i .. n + 1 : ~ (c[i] <= c[k])}
  <2>1. SUFFICES ASSUME Bad # {} PROVE FALSE
    BY <1>1, <1>8, <2>1
  <2>2. Bad \subseteq Nat
    BY <1>1
  <2>3. PICK k \in Bad : \A l \in Bad : k <= l
    BY <2>1, <2>2, LeastOf
  <2>4. k \in i .. n + 1 /\ ~ (c[i] <= c[k]) /\ k # i /\ c[i] \in Nat
    BY <1>1, <1>5, <2>3
  <2>5. k - 1 \in i .. n + 1 /\ ~ (k <= k - 1) /\ k - 1 \in 0 .. n /\ k - 2 \in 0 .. n /\ k - 1 > 0
        /\ (k - 1) + 1 = k /\ (k - 2) + 1 = k - 1 /\ (k - 1) - 1 = k - 2 /\ k - 1 \in 1 .. n
    BY <1>1, <2>4
  <2>6. c[i] <= c[k - 1]
    BY <2>3, <2>5
  <2>7. c[k] = Count(h, k - 1) /\ c[k - 1] = Count(h, k - 2)
    BY <1>4, <2>5
  <2>8. Count(h, k - 1) = Count(h, k - 2) + h[k - 1]
    BY <1>3, <2>5 DEF CountIs
  <2>9. h[k - 1] \in Nat /\ Count(h, k - 2) \in Nat
    BY <1>4, <2>5 DEF Histogram, n
  <2> QED BY <2>4, <2>6, <2>7, <2>8, <2>9
<1> QED BY <1>1, <1>4, <1>6, <1>7, <1>8 DEF Sums, c, n

-----------------------------------------------------------------------------
(* Quantiles *)

\* More than so many items lie in the bin b or below; or it is the last.
Reaches(c, items, b, hi) == c[b + 2] > items \/ b = hi

First(c, items, lo, hi) ==
  CHOOSE b \in lo .. hi :
    Reaches(c, items, b, hi) /\ \A a \in lo .. hi : a < b => ~ Reaches(c, items, a, hi)

IsFirst(c, items, lo, hi, b) ==
  /\ b \in lo .. hi /\ Reaches(c, items, b, hi)
  /\ \A a \in lo .. hi : a < b => ~ Reaches(c, items, a, hi)

LEMMA FirstExists ==
  ASSUME NEW c, NEW items, NEW lo \in Nat, NEW hi \in Nat, lo <= hi
  PROVE  IsFirst(c, items, lo, hi, First(c, items, lo, hi))
<1> DEFINE P == {b \in lo .. hi : Reaches(c, items, b, hi)}
<1>1. P \subseteq Nat /\ hi \in P
  BY DEF Reaches
<1>2. PICK b \in P : \A a \in P : b <= a
  BY <1>1, LeastOf
<1>3. ASSUME NEW a \in lo .. hi, a < b PROVE ~ Reaches(c, items, a, hi)
  <2>1. ~ (b <= a)
    BY <1>1, <1>2, <1>3
  <2> QED BY <1>2, <2>1
<1>4. \E d \in lo .. hi :
        Reaches(c, items, d, hi) /\ \A a \in lo .. hi : a < d => ~ Reaches(c, items, a, hi)
  BY <1>2, <1>3
<1> QED BY <1>4 DEF IsFirst, First

LEMMA FirstIsOne ==
  ASSUME NEW c, NEW items, NEW lo \in Nat, NEW hi \in Nat, NEW a, NEW b,
         IsFirst(c, items, lo, hi, a), IsFirst(c, items, lo, hi, b)
  PROVE  a = b
<1>1. a \in lo .. hi /\ b \in lo .. hi /\ ~ (a < b) /\ ~ (b < a)
  BY DEF IsFirst
<1> QED BY <1>1

\* One turn of the bisection leaves the bin it looks for between its two ends.
LEMMA FirstHalves ==
  ASSUME NEW c, Sums(c), NEW items \in Int, NEW lo \in Nat, NEW hi \in Nat, NEW mid \in Nat,
         lo <= mid, mid < hi, hi <= Len(c) - 2
  PROVE  First(c, items, lo, hi) =
           IF c[mid + 2] > items THEN First(c, items, lo, mid) ELSE First(c, items, mid + 1, hi)
<1> DEFINE f == First(c, items, lo, hi)
           g == First(c, items, lo, mid)
           k == First(c, items, mid + 1, hi)
<1>1. mid + 1 \in Nat /\ Len(c) \in Nat
  BY DEF Sums
<1>2. IsFirst(c, items, lo, hi, f) /\ IsFirst(c, items, lo, mid, g)
  BY FirstExists
<1>3. IsFirst(c, items, mid + 1, hi, k)
  BY <1>1, FirstExists
<1> HIDE DEF f, g, k
<1>4. CASE c[mid + 2] > items
  <2>1. /\ g \in lo .. hi /\ g <= mid /\ \A a \in lo .. hi : a < g => a \in lo .. mid /\ a # mid /\ a # hi
    BY <1>2 DEF IsFirst
  <2>2. c[g + 2] > items
    BY <1>2, <1>4 DEF IsFirst, Reaches
  <2>3. IsFirst(c, items, lo, hi, g)
    BY <1>2, <2>1, <2>2 DEF IsFirst, Reaches
  <2>4. f = g
    BY <1>2, <2>3, FirstIsOne
  <2> QED BY <1>4, <2>4 DEF f, g
<1>5. CASE ~ (c[mid + 2] > items)
  <2>1. k \in lo .. hi /\ Reaches(c, items, k, hi)
    BY <1>3 DEF IsFirst
  <2>2. ASSUME NEW a \in lo .. hi, a < k PROVE ~ Reaches(c, items, a, hi)
    <3>1. CASE a \in mid + 1 .. hi
      BY <1>3, <2>2, <3>1 DEF IsFirst
    <3>2. CASE ~ (a \in mid + 1 .. hi)
      <4>1. a <= mid /\ a # hi /\ a + 2 \in 1 .. Len(c) /\ mid + 2 \in 1 .. Len(c)
            /\ a + 2 <= mid + 2
        BY <1>1, <3>2
      <4>2. c[a + 2] <= c[mid + 2] /\ c[a + 2] \in Nat /\ c[mid + 2] \in Nat
        BY <4>1 DEF Sums
      <4> QED BY <1>5, <4>1, <4>2 DEF Reaches
    <3> QED BY <3>1, <3>2
  <2>3. IsFirst(c, items, lo, hi, k)
    BY <2>1, <2>2 DEF IsFirst
  <2>4. f = k
    BY <1>2, <2>3, FirstIsOne
  <2> QED BY <1>5, <2>4 DEF f, k
<1> QED BY <1>4, <1>5

LEMMA FirstOfOne ==
  ASSUME NEW c, NEW items, NEW b \in Nat PROVE First(c, items, b, b) = b
<1>1. IsFirst(c, items, b, b, First(c, items, b, b))
  BY FirstExists
<1> QED BY <1>1 DEF IsFirst

LEMMA Middle ==
  ASSUME NEW lo \in Nat, NEW hi \in Nat, lo < hi
  PROVE  (lo + hi) \div 2 \in Nat /\ lo <= (lo + hi) \div 2 /\ (lo + hi) \div 2 < hi
OBVIOUS

\* The bisection finds the first bin with more than so many items up to it.
LEMMA BisectIs ==
  ASSUME NEW c, Sums(c), NEW items \in Int
  PROVE  Bisect(c, items)[<<0, Len(c) - 2>>] = First(c, items, 0, Len(c) - 2)
<1> DEFINE n == Len(c) - 2
           bins == 0 .. n
           Half(p) == (p[1] + p[2]) \div 2
           Next(p) == IF c[Half(p) + 2] > items THEN <<p[1], Half(p)>> ELSE <<Half(p) + 1, p[2]>>
           Step(f, p) == IF p[1] >= p[2] THEN p[1]
                         ELSE LET middle == (p[1] + p[2]) \div 2 IN
                                IF c[middle + 2] > items THEN f[<<p[1], middle>>]
                                                         ELSE f[<<middle + 1, p[2]>>]
           G == [p \in bins \X bins |->
                   IF p[1] > p[2] THEN p[1] ELSE First(c, items, p[1], p[2])]
           B == Bisect(c, items)
<1>1. Len(c) \in Nat /\ n \in Nat
  BY DEF Sums
<1>2. ASSUME NEW x \in bins, NEW y \in bins
      PROVE  /\ G[<<x, y>>] = Step(G, <<x, y>>)
             /\ x < y => Next(<<x, y>>) \in bins \X bins
  <2> DEFINE mid == (x + y) \div 2
  <2>1. x \in Nat /\ y \in Nat /\ x <= n /\ y <= n /\ <<x, y>> \in bins \X bins
    BY <1>1
  <2>2. CASE x > y
    BY <1>1, <2>1, <2>2
  <2>3. CASE x = y
    <3>1. G[<<x, y>>] = First(c, items, x, x)
      BY <2>1, <2>3
    <3>2. G[<<x, y>>] = x
      BY <2>1, <3>1, FirstOfOne
    <3>3. Step(G, <<x, y>>) = x
      BY <2>1, <2>3
    <3> QED BY <2>1, <2>3, <3>2, <3>3
  <2>4. CASE x < y
    <3>1. mid \in Nat /\ x <= mid /\ mid < y
      BY <2>1, <2>4, Middle
    <3>2. Step(G, <<x, y>>) = IF c[mid + 2] > items THEN G[<<x, mid>>] ELSE G[<<mid + 1, y>>]
      BY <2>1, <2>4
    <3>3. Half(<<x, y>>) = mid
      OBVIOUS
    <3> HIDE DEF mid, Step
    <3>4. mid \in bins /\ mid + 1 \in bins /\ ~ (x > mid) /\ ~ (mid + 1 > y) /\ ~ (x > y)
      BY <1>1, <2>1, <3>1
    <3>5. /\ G[<<x, mid>>] = First(c, items, x, mid)
          /\ G[<<mid + 1, y>>] = First(c, items, mid + 1, y)
          /\ G[<<x, y>>] = First(c, items, x, y)
      BY <2>1, <3>4
    <3>6. First(c, items, x, y) =
            IF c[mid + 2] > items THEN First(c, items, x, mid) ELSE First(c, items, mid + 1, y)
      BY <2>1, <3>1, FirstHalves
    <3>7. Next(<<x, y>>) \in bins \X bins
      BY <3>3, <3>4
    <3> QED BY <3>2, <3>5, <3>6, <3>7
  <2> QED BY <2>1, <2>2, <2>3, <2>4
<1>3. B = CHOOSE f : f = [p \in bins \X bins |-> Step(f, p)]
  BY DEF Bisect
<1>4. G = [p \in bins \X bins |-> Step(G, p)]
  <2>1. ASSUME NEW p \in bins \X bins PROVE G[p] = Step(G, p)
    <3>1. PICK x \in bins, y \in bins : p = <<x, y>>
      OBVIOUS
    <3> HIDE DEF G, Step
    <3> QED BY <1>2, <3>1
  <2> HIDE DEF Step
  <2> QED BY <2>1
<1> HIDE DEF G, B
<1>5. B = [p \in bins \X bins |-> Step(B, p)]
  BY <1>3, <1>4
<1> DEFINE Bad == {k \in Nat : \E x, y \in bins : y - x = k /\ B[<<x, y>>] # G[<<x, y>>]}
<1>6. ASSUME Bad # {} PROVE FALSE
  <2>1. PICK k \in Bad : \A j \in Bad : k <= j
    BY <1>6, LeastOf
  <2>2. PICK x \in bins, y \in bins : y - x = k /\ B[<<x, y>>] # G[<<x, y>>]
    BY <2>1
  <2>3. x \in Nat /\ y \in Nat /\ k \in Nat /\ <<x, y>> \in bins \X bins
    BY <1>1, <2>1
  <2>4. B[<<x, y>>] = Step(B, <<x, y>>) /\ G[<<x, y>>] = Step(G, <<x, y>>)
    <3> HIDE DEF Step
    <3> QED BY <1>4, <1>5, <2>3
  <2>5. CASE ~ (x < y)
    <3>1. x >= y
      BY <2>3, <2>5
    <3> QED BY <2>2, <2>4, <3>1
  <2>6. CASE x < y
    <3> DEFINE mid == (x + y) \div 2
    <3>1. mid \in Nat /\ x <= mid /\ mid < y
      BY <2>3, <2>6, Middle
    <3>2. ASSUME NEW f PROVE Step(f, <<x, y>>) = IF c[mid + 2] > items THEN f[<<x, mid>>] ELSE f[<<mid + 1, y>>]
      BY <2>3, <2>6
    <3> HIDE DEF mid, Step
    <3>3. mid \in bins /\ mid + 1 \in bins /\ mid - x \in Nat /\ y - (mid + 1) \in Nat
          /\ ~ (k <= mid - x) /\ ~ (k <= y - (mid + 1))
      BY <1>1, <2>2, <2>3, <3>1
    <3>4. B[<<x, mid>>] = G[<<x, mid>>]
      <4>1. ~ (mid - x \in Bad)
        BY <2>1, <3>3
      <4> QED BY <3>3, <4>1
    <3>5. B[<<mid + 1, y>>] = G[<<mid + 1, y>>]
      <4>1. ~ (y - (mid + 1) \in Bad)
        BY <2>1, <3>3
      <4> QED BY <3>3, <4>1
    <3> QED BY <2>2, <2>4, <3>2, <3>4, <3>5
  <2> QED BY <2>5, <2>6
<1>7. 0 \in bins /\ n \in bins /\ n - 0 \in Nat /\ ~ (0 > n)
  BY <1>1
<1>8. B[<<0, n>>] = G[<<0, n>>]
  <2>1. ~ (n - 0 \in Bad)
    BY <1>6
  <2> QED BY <1>7, <2>1
<1>9. G[<<0, n>>] = First(c, items, 0, n)
  <2>1. <<0, n>> \in bins \X bins
    BY <1>7
  <2> QED BY <1>7, <2>1 DEF G
<1> QED BY <1>8, <1>9 DEF B

\* A part of the whole.
Part(q) == q \in Rat /\ 0 <= q[1] /\ q[1] <= q[2]

LEMMA PartOfItems ==
  ASSUME NEW q, Part(q), NEW total \in Nat
  PROVE  Floor(Mul(q, Int2Q(total))) \in 0 .. total
<1>1. PICK a \in Nat, b \in Positive : q = <<a, b>> /\ a <= b
  BY DEF Part, Rat
<1>2. Mul(q, Int2Q(total)) = Q(a * total, b)
  BY <1>1 DEF Mul, Int2Q, Positive
<1> DEFINE n == a * total
           f == n \div b
           r == n % b
<1>3. n \in Int /\ n >= 0 /\ n <= b * total
  <2>1. (b - a) * total >= 0
    BY <1>1 DEF Positive
  <2>2. (b - a) * total = b * total - a * total
    BY DEF Positive
  <2> QED BY <2>1, <2>2 DEF Positive
<1> HIDE DEF n
<1>4. Floor(Mul(q, Int2Q(total))) = f
  BY <1>2, <1>3, QFloors DEF n
<1>5. b \in Nat \ {0}
  BY DEF Positive
<1>6. f \in Int /\ r \in 0 .. b - 1 /\ n = b * f + r
  BY <1>3, <1>5, DivMod, Zenon
<1> HIDE DEF f, r
<1>7. f >= 0
  <2> SUFFICES ASSUME f <= -1 PROVE FALSE
    BY <1>6
  <2>1. b * f <= b * (-1)
    BY <1>5, <1>6
  <2> QED BY <1>3, <1>5, <1>6, <2>1
<1>8. f <= total
  <2> SUFFICES ASSUME f >= total + 1 PROVE FALSE
    BY <1>6
  <2>1. b * f >= b * (total + 1)
    BY <1>5, <1>6
  <2>2. b * (total + 1) = b * total + b
    BY <1>5
  <2> QED BY <1>3, <1>5, <1>6, <2>1, <2>2
<1> QED BY <1>4, <1>6, <1>7, <1>8

QuantileIn(h, q) ==
  LET total == Cardinality(Pixels(h, 0 .. Len(h) - 1))
      bin == QuantileBin(h, Floor(Mul(q, Int2Q(total))))
      at == CumulativeQuantile(HistogramCumulative(h), q) IN
    /\ bin \in 0 .. Len(h) - 1 /\ at \in Reduced
    /\ AtMost(Int2Q(bin), at) /\ AtMost(at, Int2Q(bin + 1))

\* A quantile lies in the bin that the count of the pixels reaches, for every histogram
\* (__cumulative_quantile).
THEOREM QuantileIsIn == ASSUME NEW h, Histogram(h), NEW q, Part(q) PROVE QuantileIn(h, q)
<1> DEFINE c == HistogramCumulative(h)
           n == Len(h)
           total == Cardinality(Pixels(h, 0 .. n - 1))
           items == Floor(Mul(q, Int2Q(total)))
           bin == First(c, items, 0, n - 1)
           inBin == c[bin + 2] - c[bin + 1]
           at == CumulativeQuantile(c, q)
<1>1. n \in Nat /\ n >= 1
  BY DEF Histogram
<1>2. Sums(c) /\ Len(c) = n + 1 /\ \A k \in 0 .. n : c[k + 1] = Count(h, k)
  BY CumulativeIsSums
<1>3. c[n + 1] = total /\ total \in Nat
  <2>1. n \in 0 .. n /\ Count(h, n) = total
    BY <1>1 DEF Count
  <2>2. n + 1 \in 1 .. Len(c)
    BY <1>1, <1>2
  <2> QED BY <1>2, <2>1, <2>2 DEF Sums
<1>4. items \in 0 .. total
  BY <1>3, PartOfItems
<1>5. QuantileBin(h, items) = bin
  <2>1. \A b \in 0 .. n - 1 : c[b + 2] = Cardinality(Pixels(h, 0 .. b))
    <3> SUFFICES ASSUME NEW b \in 0 .. n - 1 PROVE c[b + 2] = Cardinality(Pixels(h, 0 .. b))
      OBVIOUS
    <3>1. b + 1 \in 0 .. n /\ (b + 1) + 1 = b + 2 /\ (b + 1) - 1 = b
      BY <1>1
    <3>2. c[(b + 1) + 1] = Count(h, b + 1)
      BY <1>2, <3>1
    <3> QED BY <3>1, <3>2 DEF Count
  <2> HIDE DEF c, items
  <2>2. \A b \in 0 .. n - 1 :
          (Cardinality(Pixels(h, 0 .. b)) > items \/ b = n - 1) <=> Reaches(c, items, b, n - 1)
    BY <2>1 DEF Reaches
  <2>3. QuantileBin(h, items) =
          CHOOSE b \in 0 .. n - 1 :
            /\ Cardinality(Pixels(h, 0 .. b)) > items \/ b = n - 1
            /\ \A a \in 0 .. n - 1 : a < b => ~ (Cardinality(Pixels(h, 0 .. a)) > items \/ a = n - 1)
    BY DEF QuantileBin
  <2>4. IsFirst(c, items, 0, n - 1, bin)
    BY <1>1, FirstExists
  <2>5. bin \in 0 .. n - 1 /\ Reaches(c, items, bin, n - 1)
        /\ \A a \in 0 .. n - 1 : a < bin => ~ Reaches(c, items, a, n - 1)
    BY <2>4 DEF IsFirst
  <2> HIDE DEF bin
  <2> DEFINE Is(b) == /\ Cardinality(Pixels(h, 0 .. b)) > items \/ b = n - 1
                      /\ \A a \in 0 .. n - 1 :
                           a < b => ~ (Cardinality(Pixels(h, 0 .. a)) > items \/ a = n - 1)
  <2>6. Is(bin)
    BY <2>2, <2>5
  <2> DEFINE found == QuantileBin(h, items)
  <2>7. found = CHOOSE b \in 0 .. n - 1 : Is(b)
    BY <2>3
  <2> HIDE DEF Is, found
  <2>8. found \in 0 .. n - 1 /\ Is(found)
    BY <2>5, <2>6, <2>7
  <2>9. IsFirst(c, items, 0, n - 1, found)
    BY <2>2, <2>8 DEF Is, IsFirst
  <2>10. found = bin
    BY <1>1, <2>4, <2>9, FirstIsOne
  <2> QED BY <2>10 DEF found
<1>6. at = IF inBin = 0 THEN Int2Q(bin) ELSE Add(Int2Q(bin), Q(items - c[bin + 1], inBin))
  <2>1. c[Len(c)] = total /\ Len(c) - 2 = n - 1 /\ items \in Int
    BY <1>1, <1>2, <1>3, <1>4
  <2>2. Bisect(c, items)[<<0, Len(c) - 2>>] = bin
    BY <1>2, <2>1, BisectIs
  <2> HIDE DEF c, bin
  <2>3. items = Floor(Mul(q, Int2Q(c[Len(c)])))
    BY <2>1
  <2> HIDE DEF items
  <2> QED BY <2>2, <2>3 DEF CumulativeQuantile
<1> HIDE DEF c, items, total, at
<1>7. IsFirst(c, items, 0, n - 1, bin)
  BY <1>1, FirstExists
<1> HIDE DEF bin
<1>8. /\ bin \in 0 .. n - 1 /\ bin + 1 \in 1 .. Len(c) /\ bin + 2 \in 1 .. Len(c)
      /\ bin + 1 <= bin + 2
  BY <1>1, <1>2, <1>7 DEF IsFirst
<1>9. c[bin + 1] \in Nat /\ c[bin + 2] \in Nat /\ c[bin + 1] <= c[bin + 2]
  <2>1. c \in Seq(Nat) /\ \A i, j \in 1 .. Len(c) : i <= j => c[i] <= c[j]
    BY <1>2 DEF Sums
  <2>2. c[bin + 1] \in Nat /\ c[bin + 2] \in Nat
    BY <1>8, <2>1
  <2> QED BY <1>8, <2>1, <2>2
<1>10. c[bin + 1] <= items
  <2>1. CASE bin = 0
    BY <1>2, <1>4, <2>1 DEF Sums
  <2>2. CASE bin # 0
    <3>1. bin - 1 \in 0 .. n - 1 /\ bin - 1 < bin /\ (bin - 1) + 2 = bin + 1
      BY <1>8, <2>2
    <3>2. ~ (c[bin + 1] > items)
      BY <1>7, <3>1 DEF IsFirst, Reaches
    <3> QED BY <1>4, <1>9, <3>2
  <2> QED BY <2>1, <2>2
<1>11. items <= c[bin + 2]
  <2>1. CASE c[bin + 2] > items
    BY <1>4, <1>9, <2>1
  <2>2. CASE bin = n - 1
    <3>1. bin + 2 = n + 1
      BY <1>1, <2>2
    <3> QED BY <1>3, <1>4, <3>1
  <2> QED BY <1>7, <2>1, <2>2 DEF IsFirst, Reaches
<1>12. at \in Reduced /\ AtMost(Int2Q(bin), at) /\ AtMost(at, Int2Q(bin + 1))
  <2>1. bin \in Int /\ bin + 1 \in Int /\ bin <= bin + 1 /\ bin <= bin
    BY <1>8
  <2>2. CASE inBin = 0
    <3>1. IntsOrdered(bin, bin) /\ IntsOrdered(bin, bin + 1)
      BY <2>1, IntOrder
    <3> QED BY <1>6, <2>1, <2>2, <3>1, IntReduced DEF IntsOrdered
  <2>3. CASE inBin # 0
    <3> DEFINE D == inBin
               k == items - c[bin + 1]
    <3>1. D \in Positive /\ k \in Int /\ 0 <= k /\ k <= D
      BY <1>4, <1>9, <1>10, <1>11, <2>3 DEF Positive
    <3>2. at = Add(Int2Q(bin), Q(k, D))
      BY <1>6, <2>3
    <3> HIDE DEF D, k
    <3>3. Int2Q(bin) = Q(bin * D, D) /\ Int2Q(bin + 1) = Q((bin + 1) * D, D)
      <4>1. 1 \in Positive /\ Int2Q(bin) = Q(bin, 1) /\ Int2Q(bin + 1) = Q(bin + 1, 1)
        BY <2>1, IntIsQ DEF Positive
      <4>2. Q(D * bin, D * 1) = Q(bin, 1) /\ Q(D * (bin + 1), D * 1) = Q(bin + 1, 1)
        BY <2>1, <3>1, <4>1, QScales
      <4>3. D * 1 = D /\ D * bin = bin * D /\ D * (bin + 1) = (bin + 1) * D
        BY <2>1, <3>1 DEF Positive
      <4> QED BY <4>1, <4>2, <4>3
    <3> DEFINE x == bin * D
               y == (bin + 1) * D
    <3>4. x \in Int /\ y \in Int /\ x + k \in Int /\ x <= x + k /\ x + k <= y
      <4>1. x \in Int /\ y = x + D
        BY <2>1, <3>1 DEF Positive
      <4> HIDE DEF x, y
      <4> QED BY <3>1, <4>1 DEF Positive
    <3>5. Int2Q(bin) = Q(x, D) /\ Int2Q(bin + 1) = Q(y, D)
      BY <3>3
    <3> HIDE DEF x, y
    <3>6. at = Q(x + k, D)
      BY <3>1, <3>2, <3>4, <3>5, OfDen
    <3> QED BY <3>1, <3>4, <3>5, <3>6, OfDen, QIsReduced
  <2> QED BY <2>2, <2>3
<1> QED BY <1>5, <1>8, <1>12 DEF QuantileIn, c, items, total, at, n

-----------------------------------------------------------------------------
(* The curve that stretches *)

Zero == Int2Q(0)

End(c) == c[Len(c)]

\* A curve that begins in the origin, or just that point.
Begun(c) == c \in Seq(Points) /\ Len(c) >= 1 /\ Increasing(c) /\ c[1] = <<Zero, Zero>>

ExtendedTo(c, d, x, y) ==
  /\ Begun(d)
  /\ End(d) = <<x, y>> \/ (End(d) = End(c) /\ AtMost(x, End(c)[1]))

LEMMA AppendIncreases ==
  ASSUME NEW c \in Seq(Points), Len(c) >= 1, Increasing(c), NEW x \in Reduced, NEW y \in Reduced,
         Less(End(c)[1], x), AtMost(End(c)[2], y)
  PROVE  /\ Append(c, <<x, y>>) \in Seq(Points) /\ Len(Append(c, <<x, y>>)) = Len(c) + 1
         /\ Increasing(Append(c, <<x, y>>)) /\ End(Append(c, <<x, y>>)) = <<x, y>>
         /\ \A i \in 1 .. Len(c) : Append(c, <<x, y>>)[i] = c[i]
<1> DEFINE d == Append(c, <<x, y>>)
           n == Len(c)
<1>1. n \in Nat /\ <<x, y>> \in Points
  BY DEF Points
<1>2. /\ d \in Seq(Points) /\ Len(d) = n + 1 /\ d[n + 1] = <<x, y>>
      /\ \A i \in 1 .. n : d[i] = c[i]
  BY <1>1
<1> HIDE DEF d
<1>3. ASSUME NEW i \in 1 .. Len(d) - 1
      PROVE  Less(d[i][1], d[i + 1][1]) /\ AtMost(d[i][2], d[i + 1][2])
  <2>1. i \in 1 .. n
    BY <1>1, <1>2
  <2>2. CASE i = n
    BY <1>2, <2>1, <2>2 DEF End
  <2>3. CASE i # n
    <3>1. i \in 1 .. Len(c) - 1 /\ i + 1 \in 1 .. n
      BY <1>1, <2>1, <2>3
    <3> QED BY <1>2, <2>1, <3>1 DEF Increasing
  <2> QED BY <2>2, <2>3
<1> QED BY <1>2, <1>3 DEF Increasing, End, d

LEMMA ExtendedIs ==
  ASSUME NEW c, Begun(c), NEW x \in Reduced, NEW y \in Reduced,
         Less(End(c)[1], x) => AtMost(End(c)[2], y)
  PROVE  ExtendedTo(c, Extended(c, x, y), x, y)
<1>1. Len(c) \in Nat /\ Len(c) >= 1 /\ c \in Seq(Points) /\ Len(c) \in 1 .. Len(c) /\ 1 \in 1 .. Len(c)
  BY DEF Begun
<1>2. End(c) \in Points
  BY <1>1 DEF End
<1>3. End(c)[1] \in Reduced
  BY <1>2, PointParts
<1>4. CASE Less(End(c)[1], x)
  <2>1. Extended(c, x, y) = Append(c, <<x, y>>)
    BY <1>4 DEF Extended, End
  <2>2. /\ Append(c, <<x, y>>) \in Seq(Points) /\ Len(Append(c, <<x, y>>)) = Len(c) + 1
        /\ Increasing(Append(c, <<x, y>>)) /\ End(Append(c, <<x, y>>)) = <<x, y>>
        /\ \A i \in 1 .. Len(c) : Append(c, <<x, y>>)[i] = c[i]
    BY <1>1, <1>4, AppendIncreases DEF Begun
  <2> DEFINE d == Append(c, <<x, y>>)
  <2> HIDE DEF d
  <2>3. d \in Seq(Points) /\ Len(d) >= 1 /\ Increasing(d) /\ End(d) = <<x, y>> /\ d[1] = c[1]
    BY <1>1, <2>2 DEF d
  <2>4. ExtendedTo(c, d, x, y)
    <3>1. Begun(d)
      BY <2>3 DEF Begun
    <3> QED BY <2>3, <3>1 DEF ExtendedTo
  <2> QED BY <2>1, <2>4 DEF d
<1>5. CASE ~ Less(End(c)[1], x)
  <2>1. Extended(c, x, y) = c
    BY <1>5 DEF Extended, End
  <2>2. AtMost(x, End(c)[1])
    BY <1>3, <1>5, OrderLaws
  <2> QED BY <2>1, <2>2 DEF ExtendedTo
<1> QED BY <1>4, <1>5

\* What of a configuration the code relies on.
Contrast(cfg) ==
  /\ cfg.top \in Nat \ {0} /\ Part(cfg.loHist) /\ Part(cfg.hiHist)
  /\ Part(cfg.loLevel) /\ Part(cfg.hiLevel) /\ cfg.loMax \in Reduced /\ cfg.hiMax \in Reduced

Within(v, top) == v \in Reduced /\ AtMost(Zero, v) /\ AtMost(v, Int2Q(top))

LEMMA ZeroReduced == Zero \in Reduced
BY IntReduced DEF Zero

LEMMA ScaledWithin ==
  ASSUME NEW v, NEW n \in Nat \ {0}, Within(v, n), NEW top \in Nat
  PROVE  Within(Mul(v, Q(top, n)), top)
<1>1. PICK a \in Int, D \in Positive : v = Q(a, D)
  <2>1. v[2] \in Positive /\ v \in Den(v[2])
    BY InDen DEF Within
  <2> QED BY <2>1 DEF Den
<1>2. 1 \in Positive /\ n \in Int /\ n \in Positive /\ top \in Int /\ 0 \in Int
  BY DEF Positive
<1>3. Zero = Q(0, 1) /\ Int2Q(n) = Q(n, 1) /\ Int2Q(top) = Q(top, 1)
  BY <1>2, IntIsQ DEF Zero
<1>4. 0 * D <= a * 1
  BY <1>1, <1>2, <1>3, AtMostQ DEF Within
<1>5. a * 1 <= n * D
  BY <1>1, <1>2, <1>3, AtMostQ DEF Within
<1>6. 0 <= a /\ a <= n * D /\ D > 0
  BY <1>4, <1>5 DEF Positive
<1>7. Mul(v, Q(top, n)) = Q(a * top, D * n)
  BY <1>1, <1>2, QAdds
<1> DEFINE m == a * top
           e == D * n
<1>8. m \in Int /\ e \in Positive /\ 0 * e <= m * 1 /\ m * 1 <= top * e
  <2>1. m \in Int /\ e \in Nat /\ e > 0
    BY <1>6 DEF Positive
  <2>2. m >= 0
    BY <1>6
  <2>3. top * (n * D - a) >= 0
    BY <1>6 DEF Positive
  <2>4. top * (n * D - a) = top * e - m
    BY DEF Positive
  <2>5. top * e \in Int
    BY <2>1
  <2> HIDE DEF m
  <2>6. m <= top * e
    BY <2>1, <2>3, <2>4, <2>5
  <2> HIDE DEF e
  <2> QED BY <2>1, <2>2, <2>6 DEF Positive
<1> HIDE DEF m, e
<1>9. AtMost(Q(0, 1), Q(m, e))
  BY <1>2, <1>8, AtMostQ
<1>10. AtMost(Q(m, e), Q(top, 1))
  BY <1>2, <1>8, AtMostQ
<1>11. Q(m, e) \in Reduced
  BY <1>8, QIsReduced
<1> QED BY <1>3, <1>7, <1>9, <1>10, <1>11 DEF Within, m, e

LEMMA LevelWithin ==
  ASSUME NEW p, Part(p), NEW top \in Nat \ {0}
  PROVE  Within(Mul(p, Int2Q(top)), top)
<1>1. PICK a \in Nat, b \in Positive : p = <<a, b>> /\ a <= b
  BY DEF Part, Rat
<1>2. Mul(p, Int2Q(top)) = Q(a * top, b)
  BY <1>1 DEF Mul, Int2Q, Positive
<1>3. 1 \in Positive /\ 0 \in Int /\ top \in Int /\ Zero = Q(0, 1) /\ Int2Q(top) = Q(top, 1)
  BY IntIsQ DEF Zero, Positive
<1> DEFINE m == a * top
<1>4. m \in Int /\ 0 * b <= m * 1 /\ m * 1 <= top * b
  <2>1. m \in Int /\ m >= 0
    OBVIOUS
  <2>2. top * (b - a) >= 0 /\ top * (b - a) = top * b - m /\ top * b \in Int
    BY <1>1 DEF Positive
  <2> HIDE DEF m
  <2> QED BY <2>1, <2>2 DEF Positive
<1> HIDE DEF m
<1>5. AtMost(Q(0, 1), Q(m, b))
  BY <1>3, <1>4, AtMostQ
<1>6. AtMost(Q(m, b), Q(top, 1))
  BY <1>3, <1>4, AtMostQ
<1>7. Q(m, b) \in Reduced
  BY <1>4, QIsReduced
<1> QED BY <1>2, <1>3, <1>5, <1>6, <1>7 DEF Within, m

\* From the origin to the greatest level, without a turn.
StretchRight(c, top) ==
  /\ Curve(c) /\ c[1] = <<Zero, Zero>> /\ c[Len(c)][1] = Int2Q(top)

\* The stretch curve rises from the origin to the greatest level, for every histogram and
\* every configuration (__compute_stretch_curve).
THEOREM StretchIsRight ==
  ASSUME NEW h, Histogram(h), NEW cfg, Contrast(cfg)
  PROVE  StretchRight(ComputeStretchCurve(h, cfg), cfg.top)
<1> DEFINE n == Len(h)
           t == cfg.top
           top == Int2Q(t)
           AtQ(q) == Mul(CumulativeQuantile(HistogramCumulative(h), q), Q(t, n))
           levelLo == Mul(cfg.loLevel, top)
           levelHi == Mul(cfg.hiLevel, top)
           lo == MaxQ(levelLo, MinQ(AtQ(cfg.loHist), Add(levelLo, cfg.loMax)))
           mid == AtQ(<<1, 2>>)
           hi == MinQ(levelHi, MaxQ(AtQ(cfg.hiHist), Sub(levelHi, cfg.hiMax)))
           c0 == << <<Zero, Zero>> >>
           c1 == Extended(c0, lo, levelLo)
           c2 == Extended(c1, mid, mid)
           c3 == Extended(c2, hi, levelHi)
           c4 == Extended(c3, top, top)
<1>1. n \in Nat \ {0} /\ t \in Nat \ {0} /\ t \in Int /\ top \in Reduced /\ n \in Int
  BY IntReduced DEF Histogram, Contrast
<1>2. ComputeStretchCurve(h, cfg) = c4
  BY DEF ComputeStretchCurve, Zero
<1>3. ASSUME NEW q, Part(q) PROVE Within(AtQ(q), t)
  <2> DEFINE v == CumulativeQuantile(HistogramCumulative(h), q)
             bin == QuantileBin(h, Floor(Mul(q, Int2Q(Cardinality(Pixels(h, 0 .. Len(h) - 1))))))
  <2>1. bin \in 0 .. n - 1 /\ v \in Reduced /\ AtMost(Int2Q(bin), v) /\ AtMost(v, Int2Q(bin + 1))
    BY <1>3, QuantileIsIn DEF QuantileIn
  <2> HIDE DEF v, bin
  <2>2. bin \in Int /\ bin + 1 \in Int /\ 0 <= bin /\ bin + 1 <= n
    BY <1>1, <2>1
  <2>3. IntsOrdered(0, bin) /\ IntsOrdered(bin + 1, n)
    BY <1>1, <2>2, IntOrder
  <2>4. AtMost(Zero, Int2Q(bin)) /\ AtMost(Int2Q(bin + 1), Int2Q(n))
    BY <2>2, <2>3 DEF IntsOrdered, Zero
  <2>5. Zero \in Reduced /\ Int2Q(bin) \in Reduced /\ Int2Q(bin + 1) \in Reduced /\ Int2Q(n) \in Reduced
    BY <1>1, <2>2, IntReduced, ZeroReduced
  <2>6. Within(v, n)
    BY <2>1, <2>4, <2>5, OrderLaws DEF Within
  <2> HIDE DEF n, t
  <2>7. Within(Mul(v, Q(t, n)), t)
    BY <1>1, <2>6, ScaledWithin
  <2> QED BY <2>7 DEF v
<1>4. Part(<<1, 2>>)
  BY DEF Part, Rat, Positive
<1>5. /\ Within(AtQ(cfg.loHist), t) /\ Within(AtQ(cfg.hiHist), t) /\ Within(mid, t)
      /\ Within(levelLo, t) /\ Within(levelHi, t)
  <2>1. Part(cfg.loHist) /\ Part(cfg.hiHist) /\ Part(cfg.loLevel) /\ Part(cfg.hiLevel)
    BY DEF Contrast
  <2>2. Within(levelLo, t) /\ Within(levelHi, t)
    BY <1>1, <2>1, LevelWithin
  <2>3. Within(AtQ(cfg.loHist), t) /\ Within(AtQ(cfg.hiHist), t)
    BY <1>3, <2>1
  <2>4. Within(mid, t)
    BY <1>3, <1>4
  <2> QED BY <2>2, <2>3, <2>4
<1>6. cfg.loMax \in Reduced /\ cfg.hiMax \in Reduced
  BY DEF Contrast
<1> DEFINE a == AtQ(cfg.loHist)
           b == AtQ(cfg.hiHist)
           s == Add(levelLo, cfg.loMax)
           u == Sub(levelHi, cfg.hiMax)
<1>7. s \in Reduced /\ u \in Reduced
  <2>1. levelLo \in Reduced /\ levelHi \in Reduced
    BY <1>5 DEF Within
  <2> HIDE DEF levelLo, levelHi
  <2>2. AtMost(levelLo, levelLo) /\ AtMost(levelHi, levelHi)
    BY <2>1, OrderLaws
  <2>3. Ordered2(Add(levelLo, cfg.loMax), Add(levelLo, cfg.loMax))
    BY <1>6, <2>1, <2>2, OperatorsRise
  <2>4. Ordered2(Sub(levelHi, cfg.hiMax), Sub(levelHi, cfg.hiMax))
    BY <1>6, <2>1, <2>2, OperatorsRise
  <2> QED BY <2>3, <2>4 DEF Ordered2
<1>8. Within(a, t) /\ Within(b, t) /\ lo = MaxQ(levelLo, MinQ(a, s)) /\ hi = MinQ(levelHi, MaxQ(b, u))
  BY <1>5
<1> HIDE DEF AtQ, a, b, s, u, levelLo, levelHi, lo, mid, hi, top
<1>9. /\ lo \in Reduced /\ AtMost(levelLo, lo) /\ AtMost(lo, top)
      /\ hi \in Reduced /\ AtMost(hi, levelHi)
  BY <1>1, <1>5, <1>7, <1>8, OrderLaws DEF Within, MinQ, MaxQ, top
<1>10. /\ levelLo \in Reduced /\ levelHi \in Reduced /\ mid \in Reduced /\ Zero \in Reduced
      /\ AtMost(Zero, levelLo) /\ AtMost(Zero, levelHi) /\ AtMost(Zero, mid)
      /\ AtMost(levelLo, top) /\ AtMost(levelHi, top) /\ AtMost(mid, top) /\ AtMost(Zero, Zero)
      /\ AtMost(Zero, top)
  BY <1>1, <1>5, ZeroReduced, OrderLaws DEF Within, top
<1>11. Begun(c0) /\ End(c0) = <<Zero, Zero>>
  <2>1. <<Zero, Zero>> \in Points
    BY <1>10 DEF Points
  <2>2. c0 \in Seq(Points) /\ Len(c0) = 1 /\ c0[1] = <<Zero, Zero>>
    BY <2>1
  <2> QED BY <2>2 DEF Begun, End, Increasing
<1> HIDE DEF c0
<1>12. ExtendedTo(c0, c1, lo, levelLo)
  BY <1>9, <1>10, <1>11, ExtendedIs
<1> HIDE DEF c1
<1>13. /\ Begun(c1) /\ End(c1)[1] \in Reduced /\ End(c1)[2] \in Reduced
       /\ AtMost(End(c1)[2], End(c1)[1]) /\ AtMost(End(c1)[1], top)
  BY <1>9, <1>10, <1>11, <1>12 DEF ExtendedTo
<1>14. ExtendedTo(c1, c2, mid, mid)
  <2>1. Less(End(c1)[1], mid) => AtMost(End(c1)[2], mid)
    BY <1>10, <1>13, OrderLaws
  <2> QED BY <1>10, <1>13, <2>1, ExtendedIs
<1> HIDE DEF c2
<1>15. /\ Begun(c2) /\ End(c2)[1] \in Reduced /\ End(c2)[2] \in Reduced
       /\ AtMost(End(c2)[2], End(c2)[1]) /\ AtMost(End(c2)[1], top)
  BY <1>10, <1>13, <1>14, OrderLaws DEF ExtendedTo
<1>16. ExtendedTo(c2, c3, hi, levelHi)
  <2>1. Less(End(c2)[1], hi) => AtMost(End(c2)[2], levelHi)
    BY <1>9, <1>10, <1>15, OrderLaws
  <2> QED BY <1>9, <1>10, <1>15, <2>1, ExtendedIs
<1> HIDE DEF c3
<1>17. /\ Begun(c3) /\ End(c3)[1] \in Reduced /\ End(c3)[2] \in Reduced
       /\ AtMost(End(c3)[2], top) /\ AtMost(End(c3)[1], top)
  <2>1. AtMost(End(c2)[2], top)
    BY <1>1, <1>15, OrderLaws DEF top
  <2>2. AtMost(hi, top)
    BY <1>1, <1>9, <1>10, OrderLaws DEF top
  <2> QED BY <1>9, <1>10, <1>15, <1>16, <2>1, <2>2 DEF ExtendedTo
<1>18. ExtendedTo(c3, c4, top, top)
  <2>1. top \in Reduced
    BY <1>1 DEF top
  <2> QED BY <1>17, <2>1, ExtendedIs
<1> HIDE DEF c4
<1>19. Begun(c4) /\ End(c4)[1] = top
  <2>1. top \in Reduced
    BY <1>1 DEF top
  <2> QED BY <1>17, <1>18, <2>1, OrderLaws DEF ExtendedTo
<1>20. Len(c4) >= 2
  <2>1. top # Zero
    <3>1. ~ (t <= 0) /\ IntsOrdered(t, 0)
      BY <1>1, IntOrder
    <3>2. ~ AtMost(top, Zero)
      BY <3>1 DEF IntsOrdered, top, Zero
    <3> QED BY <1>10, <3>2
  <2>2. Len(c4) # 1
    <3> SUFFICES ASSUME Len(c4) = 1 PROVE FALSE
      OBVIOUS
    <3>1. End(c4)[1] = Zero
      BY <1>19 DEF Begun, End
    <3> QED BY <1>19, <2>1, <3>1
  <2> DEFINE m == Len(c4)
  <2>3. m \in Nat /\ m >= 1 /\ m # 1
    BY <1>19, <2>2 DEF Begun
  <2> HIDE DEF m
  <2>4. m >= 2
    BY <2>3
  <2> QED BY <2>4 DEF m
<1>21. Curve(c4) /\ c4[1] = <<Zero, Zero>> /\ c4[Len(c4)][1] = top
  BY <1>19, <1>20 DEF Begun, Curve, End
<1> QED BY <1>2, <1>21 DEF StretchRight, top

-----------------------------------------------------------------------------
(* Loops *)

\* A loop over some states: it ends in those of Ends, next leads from the others on.
ClosedUnder(A, Ends, next) == \A u \in A : u \notin Ends => next[u] \in A

Reach(States, Ends, next, s) ==
  {t \in States : \A A \in SUBSET States : s \in A /\ ClosedUnder(A, Ends, next) => t \in A}

LEMMA ReachIs ==
  ASSUME NEW States, NEW Ends, NEW next \in [States -> States], NEW s \in States
  PROVE  LET R(t) == Reach(States, Ends, next, t) IN
           /\ s \in Ends => R(s) = {s}
           /\ s \notin Ends => R(s) = {s} \cup R(next[s])
<1> DEFINE R(t) == Reach(States, Ends, next, t)
<1>1. ASSUME NEW t \in States
      PROVE  t \in R(t) /\ ClosedUnder(R(t), Ends, next) /\ R(t) \in SUBSET States
  <2>1. t \in R(t)
    BY DEF Reach
  <2>2. ASSUME NEW u \in R(t), u \notin Ends PROVE next[u] \in R(t)
    <3>1. u \in States /\ next[u] \in States
      BY DEF Reach
    <3>2. ASSUME NEW A \in SUBSET States, t \in A, ClosedUnder(A, Ends, next) PROVE next[u] \in A
      <4>1. u \in A
        BY <3>2 DEF Reach
      <4> QED BY <2>2, <3>2, <4>1 DEF ClosedUnder
    <3> QED BY <3>1, <3>2 DEF Reach
  <2>3. R(t) \in SUBSET States
    BY DEF Reach
  <2> QED BY <2>1, <2>2, <2>3 DEF ClosedUnder
<1>2. ASSUME NEW t \in States, NEW A \in SUBSET States, t \in A, ClosedUnder(A, Ends, next)
      PROVE  R(t) \subseteq A
  BY <1>2 DEF Reach
<1> HIDE DEF R
<1>3. ASSUME s \in Ends PROVE R(s) = {s}
  <2>1. ClosedUnder({s}, Ends, next)
    BY <1>3 DEF ClosedUnder
  <2>2. {s} \in SUBSET States
    OBVIOUS
  <2>3. R(s) \subseteq {s}
    BY <1>2, <2>1, <2>2
  <2> QED BY <1>1, <2>3
<1>4. ASSUME s \notin Ends PROVE R(s) = {s} \cup R(next[s])
  <2> DEFINE A == {s} \cup R(next[s])
  <2>1. next[s] \in States
    OBVIOUS
  <2>2. next[s] \in R(next[s]) /\ ClosedUnder(R(next[s]), Ends, next) /\ R(next[s]) \in SUBSET States
    BY <1>1, <2>1
  <2>3. ClosedUnder(A, Ends, next) /\ A \in SUBSET States /\ s \in A
    BY <2>2 DEF ClosedUnder
  <2> HIDE DEF A
  <2>4. R(s) \subseteq A
    BY <1>2, <2>3
  <2>5. s \in R(s) /\ ClosedUnder(R(s), Ends, next) /\ R(s) \in SUBSET States
    BY <1>1
  <2>6. next[s] \in R(s)
    BY <1>4, <2>5 DEF ClosedUnder
  <2>7. R(next[s]) \subseteq R(s)
    BY <1>2, <2>1, <2>5, <2>6
  <2> QED BY <2>4, <2>5, <2>7 DEF A
<1> QED BY <1>3, <1>4 DEF R

\* There is a function that follows a loop to its result.
HasResult(States, Ends, next, result) ==
  \E f : f = [s \in States |-> IF s \in Ends THEN result[s] ELSE f[next[s]]]

\* Every loop has one, whether it ends or not.
LEMMA LoopHasResult ==
  ASSUME NEW States, NEW Ends, NEW next \in [States -> States], NEW result
  PROVE  HasResult(States, Ends, next, result)
<1> DEFINE R(t) == Reach(States, Ends, next, t)
           Found(t) == R(t) \cap Ends
           f == [s \in States |-> result[CHOOSE t : t \in Found(s)]]
<1>1. ASSUME NEW s \in States
      PROVE  f[s] = IF s \in Ends THEN result[s] ELSE f[next[s]]
  <2>1. /\ s \in Ends => R(s) = {s}
        /\ s \notin Ends => R(s) = {s} \cup R(next[s])
    BY ReachIs
  <2> HIDE DEF R
  <2>2. CASE s \in Ends
    <3>1. Found(s) = {s}
      BY <2>1, <2>2
    <3>2. (CHOOSE t : t \in {s}) = s
      OBVIOUS
    <3>3. f[s] = result[CHOOSE t : t \in {s}]
      <4> HIDE DEF Found
      <4> QED BY <3>1
    <3> QED BY <2>2, <3>2, <3>3
  <2>3. CASE s \notin Ends
    <3>1. Found(s) = Found(next[s])
      BY <2>1, <2>3
    <3>2. next[s] \in States
      OBVIOUS
    <3> HIDE DEF Found
    <3>3. f[s] = result[CHOOSE t : t \in Found(s)]
      OBVIOUS
    <3>4. f[next[s]] = result[CHOOSE t : t \in Found(next[s])]
      BY <3>2
    <3> QED BY <2>3, <3>1, <3>3, <3>4
  <2> QED BY <2>2, <2>3
<1> HIDE DEF R, Found
<1>2. f = [s \in States |-> f[s]]
  OBVIOUS
<1> HIDE DEF f
<1>3. f = [s \in States |-> IF s \in Ends THEN result[s] ELSE f[next[s]]]
  BY <1>1, <1>2
<1> QED BY <1>3 DEF HasResult

-----------------------------------------------------------------------------
(* The loop of the composition *)

LEMMA FindSpanIn ==
  ASSUME NEW c, Curve(c), NEW x \in Reduced
  PROVE  FindSpan(c, x) \in 1 .. Len(c) - 1
<1> DEFINE last == Len(c) - 1
           in == {j \in 1 .. last : AtMost(c[j][1], x) /\ Less(x, c[j + 1][1])}
<1>1. last \in Nat /\ last >= 1 /\ last \in 1 .. last
  BY DEF Curve
<1>2. FindSpan(c, x) = IF in = {} THEN last ELSE CHOOSE k \in in : \A j \in in : k <= j
  BY DEF FindSpan
<1>3. in \subseteq 1 .. last /\ in \subseteq Nat
  BY <1>1
<1> HIDE DEF in, last
<1>4. CASE in = {}
  BY <1>1, <1>2, <1>4 DEF last
<1>5. CASE in # {}
  <2>1. \E k \in in : \A j \in in : k <= j
    BY <1>3, <1>5, LeastOf
  <2>2. FindSpan(c, x) \in in
    BY <1>2, <1>5, <2>1
  <2> QED BY <1>3, <2>2 DEF last
<1> QED BY <1>4, <1>5

LEMMA EvalReduced ==
  ASSUME NEW c, Curve(c), NEW x \in Reduced
  PROVE  EvalGammaCurve(c, x) \in Reduced
BY FindSpanIn, EvalAtSpan

\* Reached is where the line is at that height.
ReachedIs(one, other, span, at) ==
  /\ Reached(one, other, span, at) \in Reduced
  /\ OnLine(<<one[span][2], one[span][1]>>, <<one[span + 1][2], one[span + 1][1]>>,
            <<other[at][1], Reached(one, other, span, at)>>)
  /\ OnLine(one[span], one[span + 1], <<Reached(one, other, span, at), other[at][1]>>)

LEMMA LineReached ==
  ASSUME NEW one, Curve(one), NEW other, Curve(other), NEW span \in 1 .. Len(one) - 1,
         NEW at \in 1 .. Len(other), one[span][2] # one[span + 1][2]
  PROVE  ReachedIs(one, other, span, at)
<1> DEFINE p == one[span]
           q == one[span + 1]
           y == other[at][1]
           v == Reached(one, other, span, at)
           pp == <<p[2], p[1]>>
           qq == <<q[2], q[1]>>
<1>1. p \in Points /\ q \in Points /\ AtMost(p[2], q[2]) /\ p[2] # q[2]
  BY SpanLess
<1>2. p[1] \in Reduced /\ p[2] \in Reduced /\ q[1] \in Reduced /\ q[2] \in Reduced
  BY <1>1, PointParts
<1>3. y \in Reduced
  BY CurvePoint
<1>4. v = Add(p[1], Over(Mul(Sub(y, p[2]), Sub(q[1], p[1])), Sub(q[2], p[2])))
  BY DEF Reached
<1> HIDE DEF p, q, y, v
<1>5. /\ pp \in Points /\ qq \in Points /\ pp[1] = p[2] /\ pp[2] = p[1] /\ qq[1] = q[2] /\ qq[2] = q[1]
  BY <1>2 DEF Points
<1>6. Less(pp[1], qq[1])
  BY <1>1, <1>2, <1>5, OrderLaws
<1> HIDE DEF pp, qq
<1>7. LET w == Add(pp[2], Over(Mul(Sub(y, pp[1]), Sub(qq[2], pp[2])), Sub(qq[1], pp[1]))) IN
        w \in Reduced /\ OnLine(pp, qq, <<y, w>>)
  BY <1>3, <1>5, <1>6, FormulaOnLine
<1>8. v \in Reduced /\ OnLine(pp, qq, <<y, v>>)
  BY <1>4, <1>5, <1>7
<1>9. OnLine(p, q, <<v, y>>)
  <2>1. Mul(Sub(v, p[1]), Sub(q[2], p[2])) = Mul(Sub(y, p[2]), Sub(q[1], p[1]))
    BY <1>5, <1>8 DEF OnLine
  <2> QED BY <2>1 DEF OnLine
<1> QED BY <1>8, <1>9 DEF ReachedIs, p, q, y, v, pp, qq

LEMMA ReducedInPoint ==
  /\ Reduced \subseteq Int \X Nat
  /\ \A x, y \in Reduced : <<x, y>> \in Point /\ <<x, y>> \in Points
<1>1. Reduced \subseteq Int \X Nat
  BY DEF Reduced, Rat, Positive
<1> QED BY <1>1 DEF Point, Points

LEMMA LongerIn ==
  ASSUME NEW r \in Seq(Point), NEW other, Curve(other), NEW x \in Reduced, NEW y \in Reduced
  PROVE  Longer(r, other, x, y) \in Seq(Point)
<1>1. <<x, EvalGammaCurve(other, y)>> \in Point
  BY EvalReduced, ReducedInPoint
<1>2. Append(r, <<x, EvalGammaCurve(other, y)>>) \in Seq(Point)
  BY <1>1
<1> QED BY <1>2 DEF Longer

\* The loop has run off the curve.
Failed(one, other, s) == Down(one, other, s.span, s.at) /\ s.at = Len(other)

Turned(one, other, s, t) ==
  \/ /\ Up(one, other, s.span, s.at)
     /\ t = [span |-> s.span, at |-> s.at + 1,
             result |-> Longer(s.result, other, Reached(one, other, s.span, s.at + 1),
                               other[s.at + 1][1])]
  \/ /\ Down(one, other, s.span, s.at)
     /\ t = [span |-> s.span, at |-> s.at - 1,
             result |-> Longer(s.result, other, Reached(one, other, s.span, s.at + 1),
                               other[s.at - 1][1])]
  \/ /\ ~ Up(one, other, s.span, s.at) /\ ~ Down(one, other, s.span, s.at)
     /\ t = [span |-> s.span + 1, at |-> s.at,
             result |-> Longer(s.result, other, one[s.span + 1][1], one[s.span + 1][2])]

LEMMA StepIs == \A one, other, s : Turned(one, other, s, ComposeStep(one, other, s))
<1> TAKE one, other, s
<1>1. CASE Up(one, other, s.span, s.at)
  BY <1>1 DEF Turned, ComposeStep, Down
<1>2. CASE Down(one, other, s.span, s.at)
  <2>1. ~ Up(one, other, s.span, s.at)
    BY <1>2 DEF Down
  <2> QED BY <1>2, <2>1 DEF Turned, ComposeStep
<1>3. CASE ~ Up(one, other, s.span, s.at) /\ ~ Down(one, other, s.span, s.at)
  BY <1>3 DEF Turned, ComposeStep
<1> QED BY <1>1, <1>2, <1>3

LEMMA StateIs ==
  ASSUME NEW one, NEW other, NEW a \in 1 .. Len(one), NEW b \in 1 .. Len(other), NEW r \in Seq(Point)
  PROVE  [span |-> a, at |-> b, result |-> r] \in ComposeStates(one, other)
<1> DEFINE A == 1 .. Len(one)
           B == 1 .. Len(other)
           R == Seq(Point)
<1>1. a \in A /\ b \in B /\ r \in R
  OBVIOUS
<1> HIDE DEF A, B, R
<1>2. [span |-> a, at |-> b, result |-> r] \in [span : A, at : B, result : R]
  BY <1>1
<1> QED BY <1>2 DEF ComposeStates, A, B, R

LEMMA StepIn ==
  ASSUME NEW one, Curve(one), NEW other, Curve(other), NEW s \in ComposeStates(one, other),
         s.span # Len(one), ~ Failed(one, other, s)
  PROVE  ComposeStep(one, other, s) \in ComposeStates(one, other)
<1> DEFINE t == ComposeStep(one, other, s)
           a == s.span
           b == s.at
           n == Len(one)
           m == Len(other)
<1>1. n \in Nat /\ m \in Nat
  BY DEF Curve
<1>2. s = [span |-> a, at |-> b, result |-> s.result] /\ a \in 1 .. n /\ b \in 1 .. m /\ s.result \in Seq(Point)
  BY DEF ComposeStates
<1>3. a \in 1 .. n - 1 /\ a + 1 \in 1 .. n
  BY <1>1, <1>2
<1>4. Turned(one, other, s, t)
  BY StepIs
<1> HIDE DEF t, a, b, n, m
<1>5. CASE Up(one, other, a, b) /\ t = [span |-> a, at |-> b + 1,
                result |-> Longer(s.result, other, Reached(one, other, a, b + 1), other[b + 1][1])]
  <2>1. b + 1 \in 1 .. m /\ one[a][2] # one[a + 1][2]
    BY <1>1, <1>2, <1>5 DEF Up, m
  <2>2. Reached(one, other, a, b + 1) \in Reduced
    BY <1>3, <2>1, LineReached DEF ReachedIs, n, m
  <2>3. other[b + 1][1] \in Reduced
    BY <2>1, CurvePoint DEF m
  <2>4. Longer(s.result, other, Reached(one, other, a, b + 1), other[b + 1][1]) \in Seq(Point)
    BY <1>2, <2>2, <2>3, LongerIn
  <2> DEFINE r == t.result
  <2>5. /\ t = [span |-> t.span, at |-> t.at, result |-> r]
        /\ t.span \in 1 .. Len(one) /\ t.at \in 1 .. Len(other) /\ r \in Seq(Point)
    BY <1>2, <1>5, <2>1, <2>4 DEF n, m
  <2> HIDE DEF r
  <2>6. [span |-> t.span, at |-> t.at, result |-> r] \in ComposeStates(one, other)
    BY <2>5, StateIs
  <2>7. t \in ComposeStates(one, other)
    BY <2>5, <2>6
  <2> QED BY <2>7 DEF t
<1>6. CASE Down(one, other, a, b) /\ t = [span |-> a, at |-> b - 1,
                result |-> Longer(s.result, other, Reached(one, other, a, b + 1), other[b - 1][1])]
  <2>1. b + 1 \in 1 .. m /\ b - 1 \in 1 .. m /\ one[a][2] # one[a + 1][2]
    BY <1>1, <1>2, <1>6 DEF Down, Failed, m, a, b
  <2>2. Reached(one, other, a, b + 1) \in Reduced
    BY <1>3, <2>1, LineReached DEF ReachedIs, n, m
  <2>3. other[b - 1][1] \in Reduced
    BY <2>1, CurvePoint DEF m
  <2>4. Longer(s.result, other, Reached(one, other, a, b + 1), other[b - 1][1]) \in Seq(Point)
    BY <1>2, <2>2, <2>3, LongerIn
  <2> DEFINE r == t.result
  <2>5. /\ t = [span |-> t.span, at |-> t.at, result |-> r]
        /\ t.span \in 1 .. Len(one) /\ t.at \in 1 .. Len(other) /\ r \in Seq(Point)
    BY <1>2, <1>6, <2>1, <2>4 DEF n, m
  <2> HIDE DEF r
  <2>6. [span |-> t.span, at |-> t.at, result |-> r] \in ComposeStates(one, other)
    BY <2>5, StateIs
  <2>7. t \in ComposeStates(one, other)
    BY <2>5, <2>6
  <2> QED BY <2>7 DEF t
<1>7. CASE t = [span |-> a + 1, at |-> b,
                result |-> Longer(s.result, other, one[a + 1][1], one[a + 1][2])]
  <2>1. one[a + 1][1] \in Reduced /\ one[a + 1][2] \in Reduced
    BY <1>3, CurvePoint DEF n
  <2>2. Longer(s.result, other, one[a + 1][1], one[a + 1][2]) \in Seq(Point)
    BY <1>2, <2>1, LongerIn
  <2> DEFINE r == t.result
  <2>3. /\ t = [span |-> t.span, at |-> t.at, result |-> r]
        /\ t.span \in 1 .. Len(one) /\ t.at \in 1 .. Len(other) /\ r \in Seq(Point)
    BY <1>2, <1>3, <1>7, <2>2 DEF n, m
  <2> HIDE DEF r
  <2>4. [span |-> t.span, at |-> t.at, result |-> r] \in ComposeStates(one, other)
    BY <2>3, StateIs
  <2>5. t \in ComposeStates(one, other)
    BY <2>3, <2>4
  <2> QED BY <2>5 DEF t
<1> QED BY <1>4, <1>5, <1>6, <1>7 DEF Turned, a, b, t

\* ComposeFrom follows the loop.
LEMMA ComposeFromIs ==
  ASSUME NEW one, Curve(one), NEW other, Curve(other)
  PROVE  \A s \in ComposeStates(one, other) :
           ComposeFrom(one, other)[s] =
             IF s.span = Len(one) THEN s.result
             ELSE IF Down(one, other, s.span, s.at) /\ s.at = Len(other) THEN << >>
             ELSE ComposeFrom(one, other)[ComposeStep(one, other, s)]
<1> DEFINE All == ComposeStates(one, other)
           Ends == {s \in All : s.span = Len(one) \/ Failed(one, other, s)}
           next == [s \in All |-> IF s \in Ends THEN s ELSE ComposeStep(one, other, s)]
           result == [s \in All |-> IF s.span = Len(one) THEN s.result ELSE << >>]
           Turn(f, s) == IF s.span = Len(one) THEN s.result
                         ELSE IF Down(one, other, s.span, s.at) /\ s.at = Len(other) THEN << >>
                         ELSE f[ComposeStep(one, other, s)]
           F == ComposeFrom(one, other)
<1>1. next \in [All -> All]
  BY StepIn
<1> HIDE DEF next, Ends, result, All
<1>2. HasResult(All, Ends, next, result)
  BY <1>1, LoopHasResult
<1>3. PICK f : f = [s \in All |-> IF s \in Ends THEN result[s] ELSE f[next[s]]]
  BY <1>2 DEF HasResult
<1> USE DEF next, Ends, result, All
<1>4. ASSUME NEW s \in All PROVE f[s] = Turn(f, s)
  <2>1. f[s] = IF s \in Ends THEN result[s] ELSE f[next[s]]
    <3> HIDE DEF next, Ends, result, All
    <3> QED BY <1>3
  <2> HIDE DEF All
  <2>2. CASE s \in Ends
    BY <2>1, <2>2 DEF Failed
  <2>3. CASE s \notin Ends
    BY <2>1, <2>3 DEF Failed
  <2> QED BY <2>2, <2>3
<1>5. F = CHOOSE g : g = [s \in All |-> Turn(g, s)]
  BY DEF ComposeFrom
<1> HIDE DEF F, Turn, All, Ends, next, result
<1>6. f = [s \in All |-> Turn(f, s)]
  BY <1>3, <1>4
<1>7. F = [s \in All |-> Turn(F, s)]
  BY <1>5, <1>6
<1>8. \A s \in All : F[s] = Turn(F, s)
  BY <1>7
<1> QED BY <1>8 DEF F, Turn, All

-----------------------------------------------------------------------------
(* What the loop keeps *)

\* A curve follows the composition from its first to its last point.
Follows(r, one, other) ==
  \A i \in 1 .. Len(r) - 1 : \A x \in Reduced :
    AtMost(r[i][1], x) /\ AtMost(x, r[i + 1][1]) =>
      OnLine(r[i], r[i + 1], <<x, EvalGammaCurve(other, EvalGammaCurve(one, x))>>)

\* The curve so far, up to x.
Composed(r, one, other, x) ==
  /\ r \in Seq(Points) /\ Len(r) >= 1 /\ Increasing(r) /\ r[1][1] = one[1][1]
  /\ End(r) = <<x, EvalGammaCurve(other, EvalGammaCurve(one, x))>>
  /\ Follows(r, one, other)

\* The point x is in a span of the one curve, its y at a point of the other or in the span
\* behind it.
Between(c, i, x) == i \in 1 .. Len(c) /\ AtMost(c[i][1], x) /\ (i < Len(c) => AtMost(x, c[i + 1][1]))

Going(one, other, s) ==
  \E x \in Reduced :
    /\ Composed(s.result, one, other, x)
    /\ AtMost(one[1][1], x) /\ AtMost(x, one[Len(one)][1])
    /\ Between(one, s.span, x) /\ Between(other, s.at, EvalGammaCurve(one, x))

LEMMA BetweenIsInside ==
  ASSUME NEW c, Curve(c), NEW x \in Reduced, NEW i, Between(c, i, x)
  PROVE  Inside(c, IF i = Len(c) THEN i - 1 ELSE i, x)
<1>1. Len(c) \in Nat /\ Len(c) >= 2 /\ i \in 1 .. Len(c) /\ AtMost(c[i][1], x)
  BY DEF Curve, Between
<1>2. CASE i = Len(c)
  <2>1. i - 1 \in 1 .. Len(c) - 1 /\ (i - 1) + 1 = i /\ i - 1 = Len(c) - 1 /\ i - 1 \in 1 .. Len(c)
    BY <1>1, <1>2
  <2>2. c[i - 1][1] \in Reduced /\ c[i][1] \in Reduced
    BY <1>1, <2>1, CurvePoint
  <2> DEFINE k == i - 1
  <2>3. k \in 1 .. Len(c) /\ i \in 1 .. Len(c) /\ k < i
    BY <1>1, <2>1
  <2>4. Less(c[k][1], c[i][1])
    <3> HIDE DEF k
    <3> QED BY <2>3, CurveOrder
  <2>5. c[i - 1][1] \in Reduced /\ c[i][1] \in Reduced /\ Less(c[i - 1][1], c[i][1])
    BY <2>2, <2>4
  <2>6. AtMost(c[i - 1][1], x)
    BY <1>1, <2>5, OrderLaws
  <2> QED BY <1>2, <2>1, <2>6 DEF Inside
<1>3. CASE i # Len(c)
  BY <1>1, <1>3 DEF Inside, Between
<1> QED BY <1>2, <1>3

\* One step of the curve: both ends in one span of each.
LEMMA LongerFollows ==
  ASSUME NEW one, Curve(one), NEW other, Curve(other), NEW r,
         NEW x \in Reduced, NEW y \in Reduced, Composed(r, one, other, x), AtMost(x, y),
         NEW i, Inside(one, i, x), Inside(one, i, y),
         NEW j, Inside(other, j, EvalGammaCurve(one, x)), Inside(other, j, EvalGammaCurve(one, y))
  PROVE  Composed(Longer(r, other, y, EvalGammaCurve(one, y)), one, other, y)
<1> DEFINE E(v) == EvalGammaCurve(one, v)
           F(v) == EvalGammaCurve(other, v)
           d == Longer(r, other, y, E(y))
<1>1. /\ r \in Seq(Points) /\ Len(r) >= 1 /\ Increasing(r) /\ r[1][1] = one[1][1]
      /\ End(r) = <<x, F(E(x))>> /\ Follows(r, one, other) /\ Len(r) \in Nat
  BY DEF Composed
<1>2. \A v \in Reduced : E(v) \in Reduced /\ F(v) \in Reduced
  BY EvalReduced
<1>3. /\ Len(one) \in Nat /\ Len(other) \in Nat /\ i \in 1 .. Len(one) - 1 /\ j \in 1 .. Len(other) - 1
      /\ AtMost(one[i][1], x) /\ AtMost(other[j][1], E(x))
  BY DEF Inside, Curve
<1>4. /\ 1 \in 1 .. Len(one) /\ i \in 1 .. Len(one) /\ (i = 1 \/ 1 < i)
      /\ 1 \in 1 .. Len(other) /\ j \in 1 .. Len(other) /\ (j = 1 \/ 1 < j)
  BY <1>3
<1>5. /\ one[1][1] \in Reduced /\ one[i][1] \in Reduced /\ AtMost(one[1][1], one[i][1])
      /\ other[1][1] \in Reduced /\ other[j][1] \in Reduced /\ AtMost(other[1][1], other[j][1])
  <2>1. /\ one[1][1] \in Reduced /\ one[i][1] \in Reduced
        /\ other[1][1] \in Reduced /\ other[j][1] \in Reduced
    BY <1>4, CurvePoint
  <2>2. i = 1 \/ Less(one[1][1], one[i][1])
    BY <1>4, CurveOrder
  <2>3. j = 1 \/ Less(other[1][1], other[j][1])
    BY <1>4, CurveOrder
  <2> QED BY <2>1, <2>2, <2>3, OrderLaws
<1>6. AtMost(one[1][1], x) /\ AtMost(other[1][1], E(x))
  BY <1>2, <1>3, <1>5, OrderLaws
<1>7. ASSUME NEW v \in Reduced, NEW w \in Reduced, AtMost(x, v), AtMost(v, w) PROVE AtMost(E(v), E(w))
  <2>1. AtMost(one[1][1], v)
    BY <1>5, <1>6, <1>7, OrderLaws
  <2> QED BY <1>7, <2>1, EvalRises DEF EvalOrdered
<1>8. d = IF Less(x, y) THEN Append(r, <<y, F(E(y))>>) ELSE r
  <2>1. r[Len(r)][1] = x
    BY <1>1 DEF End
  <2> QED BY <2>1 DEF Longer
<1> HIDE DEF d
<1>9. CASE ~ Less(x, y)
  <2>1. x = y
    BY <1>9, OrderLaws
  <2> QED BY <1>8, <1>9, <2>1 DEF d
<1>10. CASE Less(x, y)
  <2> DEFINE z == F(E(y))
  <2>1. z \in Reduced /\ End(r)[1] = x /\ End(r)[2] = F(E(x))
    BY <1>1, <1>2
  <2>2. AtMost(End(r)[2], z)
    <3>1. AtMost(E(x), E(y))
      BY <1>7, OrderLaws
    <3> QED BY <1>2, <1>6, <2>1, <3>1, EvalRises DEF EvalOrdered
  <2>3. d = Append(r, <<y, z>>)
    BY <1>8, <1>10
  <2> HIDE DEF z
  <2>4. /\ d \in Seq(Points) /\ Len(d) = Len(r) + 1 /\ Increasing(d) /\ End(d) = <<y, z>>
        /\ \A k \in 1 .. Len(r) : d[k] = r[k]
    BY <1>1, <1>10, <2>1, <2>2, <2>3, AppendIncreases
  <2>5. ASSUME NEW k \in 1 .. Len(d) - 1, NEW v \in Reduced, AtMost(d[k][1], v), AtMost(v, d[k + 1][1])
        PROVE  OnLine(d[k], d[k + 1], <<v, F(E(v))>>)
    <3>1. CASE k = Len(r)
      <4>1. d[k] = <<x, F(E(x))>> /\ d[k + 1] = <<y, z>>
        BY <1>1, <2>4, <3>1 DEF End
      <4>2. AtMost(x, v) /\ AtMost(v, y)
        BY <2>5, <4>1
      <4>3. Inside(one, i, v)
        <5>1. i = Len(one) - 1 \/ AtMost(y, one[i + 1][1])
          BY DEF Inside
        <5>2. i + 1 \in 1 .. Len(one)
          BY <1>3
        <5>3. one[i + 1][1] \in Reduced
          BY <5>2, CurvePoint
        <5> QED BY <1>3, <1>5, <4>2, <5>1, <5>3, OrderLaws DEF Inside
      <4>4. AtMost(E(x), E(v)) /\ AtMost(E(v), E(y))
        <5>1. AtMost(x, x)
          BY OrderLaws
        <5> QED BY <1>7, <4>2, <5>1
      <4>5. Inside(other, j, E(v))
        <5>1. j = Len(other) - 1 \/ AtMost(E(y), other[j + 1][1])
          BY DEF Inside
        <5>2. j + 1 \in 1 .. Len(other)
          BY <1>3
        <5>3. other[j + 1][1] \in Reduced
          BY <5>2, CurvePoint
        <5> QED BY <1>2, <1>3, <1>5, <4>4, <5>1, <5>3, OrderLaws DEF Inside
      <4>6. EvalOn(one, i, x) /\ EvalOn(one, i, y) /\ EvalOn(one, i, v)
        BY <4>3, EvalIsOn
      <4>7. EvalOn(other, j, E(x)) /\ EvalOn(other, j, E(y)) /\ EvalOn(other, j, E(v))
        BY <1>2, <4>5, EvalIsOn
      <4>8. /\ one[i] \in Points /\ one[i + 1] \in Points /\ Less(one[i][1], one[i + 1][1])
            /\ other[j] \in Points /\ other[j + 1] \in Points /\ Less(other[j][1], other[j + 1][1])
        BY <1>3, SpanLess
      <4> DEFINE p == one[i]
                 q == one[i + 1]
                 g == other[j]
                 h == other[j + 1]
                 b == E(x)
                 c == E(y)
                 u == E(v)
                 e == F(E(x))
                 l == F(E(v))
      <4>9. /\ OnLine(p, q, <<x, b>>) /\ OnLine(p, q, <<y, c>>) /\ OnLine(p, q, <<v, u>>)
            /\ OnLine(g, h, <<b, e>>) /\ OnLine(g, h, <<c, z>>) /\ OnLine(g, h, <<u, l>>)
        BY <4>6, <4>7 DEF EvalOn, z
      <4>10. b \in Reduced /\ c \in Reduced /\ u \in Reduced /\ e \in Reduced /\ l \in Reduced
        BY <1>2
      <4>11. p \in Points /\ q \in Points /\ g \in Points /\ h \in Points /\ Less(p[1], q[1]) /\ Less(g[1], h[1])
        BY <4>8
      <4> HIDE DEF p, q, g, h, b, c, u, e, l
      <4>12. OnLine(<<x, e>>, <<y, z>>, <<v, l>>)
        BY <1>10, <2>1, <4>9, <4>10, <4>11, LinesCompose, SMTT(30)
      <4> QED BY <4>1, <4>12 DEF e, l
    <3>2. CASE k # Len(r)
      <4>1. k \in 1 .. Len(r) - 1 /\ k \in 1 .. Len(r) /\ k + 1 \in 1 .. Len(r)
        BY <1>1, <2>4, <3>2
      <4>2. d[k] = r[k] /\ d[k + 1] = r[k + 1]
        BY <2>4, <4>1
      <4> QED BY <1>1, <2>5, <4>1, <4>2 DEF Follows
    <3> QED BY <3>1, <3>2
  <2>6. Follows(d, one, other)
    BY <2>5 DEF Follows
  <2>7. Len(d) >= 1 /\ d[1][1] = one[1][1]
    BY <1>1, <2>4
  <2>8. Composed(d, one, other, y)
    BY <2>4, <2>6, <2>7 DEF Composed, z
  <2> QED BY <2>8 DEF d
<1> QED BY <1>9, <1>10

LEMMA SwappedLine ==
  ASSUME NEW p \in Points, NEW q \in Points, NEW z \in Points, OnLine(p, q, z)
  PROVE  OnLine(<<p[2], p[1]>>, <<q[2], q[1]>>, <<z[2], z[1]>>)
BY DEF OnLine

\* What holds of the point x at which the loop stands.
LEMMA GoingIs ==
  ASSUME NEW one, Curve(one), NEW other, Curve(other), NEW s \in ComposeStates(one, other),
         s.span # Len(one), NEW x \in Reduced, AtMost(one[1][1], x), Between(one, s.span, x)
  PROVE  LET a == s.span
             y == EvalGammaCurve(one, x) IN
           /\ a \in 1 .. Len(one) - 1 /\ y \in Reduced
           /\ Inside(one, a, x) /\ AtMost(x, one[a + 1][1])
           /\ AtMost(one[a][2], y) /\ AtMost(y, one[a + 1][2])
<1> DEFINE a == s.span
           y == EvalGammaCurve(one, x)
<1>1. Len(one) \in Nat /\ Len(one) >= 2
  BY DEF Curve
<1>2. a \in 1 .. Len(one) /\ a # Len(one)
  BY DEF ComposeStates
<1>3. AtMost(one[a][1], x) /\ (a < Len(one) => AtMost(x, one[a + 1][1]))
  BY DEF Between
<1> HIDE DEF a, y
<1>4. a \in 1 .. Len(one) - 1 /\ a \in 1 .. Len(one) /\ a + 1 \in 1 .. Len(one) /\ 1 \in 1 .. Len(one) /\ (a = 1 \/ 1 < a)
      /\ a < Len(one)
  BY <1>1, <1>2
<1>5. y \in Reduced
  BY EvalReduced DEF y
<1>6. /\ one[1][1] \in Reduced
      /\ one[a][1] \in Reduced /\ one[a][2] \in Reduced /\ one[a + 1][1] \in Reduced
  BY <1>4, CurvePoint
<1>7. AtMost(one[1][1], one[a][1])
  BY <1>4, <1>6, CurveOrder, OrderLaws
<1>8. EvalOrdered(one, one[a][1], x)
  BY <1>3, <1>6, <1>7, EvalRises
<1>9. EvalOrdered(one, x, one[a + 1][1])
  BY <1>3, <1>4, <1>6, EvalRises
<1>10. EvalGammaCurve(one, one[a][1]) = one[a][2]
  BY <1>4, EvalAtPoint
<1>11. EvalGammaCurve(one, one[a + 1][1]) = one[a + 1][2]
  BY <1>4, EvalAtPoint
<1>12. AtMost(one[a][2], y)
  BY <1>8, <1>10 DEF EvalOrdered, y
<1>13. AtMost(y, one[a + 1][2])
  BY <1>9, <1>11 DEF EvalOrdered, y
<1>14. Inside(one, a, x)
  BY <1>3, <1>4 DEF Inside
<1> QED BY <1>3, <1>4, <1>5, <1>12, <1>13, <1>14 DEF a, y

\* The loop does not come down, as the one curve rises.
LEMMA NeverDown ==
  ASSUME NEW one, Curve(one), NEW other, Curve(other), NEW s \in ComposeStates(one, other),
         s.span # Len(one), NEW x \in Reduced, AtMost(one[1][1], x), Between(one, s.span, x),
         Between(other, s.at, EvalGammaCurve(one, x))
  PROVE  ~ Down(one, other, s.span, s.at)
<1> DEFINE a == s.span
           b == s.at
           y == EvalGammaCurve(one, x)
<1>1. a \in 1 .. Len(one) - 1 /\ y \in Reduced /\ AtMost(y, one[a + 1][2])
  BY GoingIs
<1>2. Len(one) \in Nat /\ Len(other) \in Nat /\ b \in 1 .. Len(other) /\ AtMost(other[b][1], y)
  BY DEF ComposeStates, Between, Curve
<1> HIDE DEF a, b, y
<1>3. ASSUME b > 1, AtMost(one[a + 1][2], other[b - 1][1]) PROVE FALSE
  <2> DEFINE k == b - 1
  <2>1. k \in 1 .. Len(other) /\ b \in 1 .. Len(other) /\ k < b /\ a + 1 \in 1 .. Len(one)
    BY <1>1, <1>2, <1>3
  <2>2. AtMost(one[a + 1][2], other[k][1])
    BY <1>3
  <2> HIDE DEF k
  <2>3. Less(other[k][1], other[b][1])
    BY <2>1, CurveOrder
  <2>4. other[k][1] \in Reduced /\ other[b][1] \in Reduced /\ one[a + 1][2] \in Reduced
    BY <2>1, CurvePoint
  <2>5. AtMost(y, other[k][1])
    BY <1>1, <2>2, <2>4, OrderLaws
  <2>6. AtMost(other[b][1], other[k][1])
    BY <1>1, <1>2, <2>4, <2>5, OrderLaws
  <2> QED BY <2>3, <2>4, <2>6, OrderLaws
<1>4. ~ Down(one, other, a, b)
  BY <1>3 DEF Down
<1> QED BY <1>4 DEF a, b

\* A turn goes to a point z of the span of the one curve, and stays in that of the other.
GoesTo(one, other, s, t, z) ==
  /\ z \in Reduced /\ Inside(one, s.span, z) /\ AtMost(one[1][1], z) /\ AtMost(z, one[Len(one)][1])
  /\ t.result = Longer(s.result, other, z, EvalGammaCurve(one, z))
  /\ Between(one, t.span, z) /\ Between(other, t.at, EvalGammaCurve(one, z))

LEMMA GoingUp ==
  ASSUME NEW one, Curve(one), NEW other, Curve(other), NEW s \in ComposeStates(one, other),
         s.span # Len(one), NEW x \in Reduced, AtMost(one[1][1], x), Between(one, s.span, x),
         Between(other, s.at, EvalGammaCurve(one, x)), Up(one, other, s.span, s.at)
  PROVE  LET t == ComposeStep(one, other, s)
             z == Reached(one, other, s.span, s.at + 1) IN
           /\ GoesTo(one, other, s, t, z) /\ AtMost(x, z)
           /\ t.span = s.span /\ t.at = s.at + 1
           /\ \E j : Inside(other, j, EvalGammaCurve(one, x)) /\ Inside(other, j, EvalGammaCurve(one, z))
<1> DEFINE t == ComposeStep(one, other, s)
           a == s.span
           b == s.at
           n == Len(one)
           m == Len(other)
           y == EvalGammaCurve(one, x)
           z == Reached(one, other, a, b + 1)
           w == other[b + 1][1]
<1>1. a \in 1 .. n - 1 /\ y \in Reduced /\ Inside(one, a, x) /\ AtMost(x, one[a + 1][1])
      /\ AtMost(one[a][2], y) /\ AtMost(y, one[a + 1][2])
  BY GoingIs
<1>2. n \in Nat /\ m \in Nat /\ b \in 1 .. m /\ b + 1 <= m
      /\ one[a][2] # one[a + 1][2] /\ AtMost(w, one[a + 1][2])
  BY DEF ComposeStates, Up, Curve
<1>3. AtMost(other[b][1], y) /\ (b < m => AtMost(y, w))
  BY DEF Between
<1>4. t = [span |-> a, at |-> b + 1, result |-> Longer(s.result, other, z, w)]
  <2>1. Turned(one, other, s, t)
    BY StepIs
  <2> HIDE DEF t
  <2> QED BY <2>1 DEF Turned, Down
<1>5. /\ a + 1 \in 1 .. n /\ a \in 1 .. n /\ b + 1 \in 1 .. m /\ b < m /\ n \in 1 .. n
      /\ (a + 1 = n \/ a + 1 < n)
  <2>1. a \in 1 .. n - 1 /\ n \in Nat /\ m \in Nat /\ b \in 1 .. m /\ b + 1 <= m
    BY <1>1, <1>2
  <2> HIDE DEF a, b, n, m
  <2> QED BY <2>1
<1>6. one[a] \in Points /\ one[a + 1] \in Points /\ AtMost(one[a][2], one[a + 1][2])
  BY <1>1, SpanLess
<1>7. ReachedIs(one, other, a, b + 1)
  BY <1>1, <1>2, <1>5, LineReached
<1> DEFINE p == one[a]
           q == one[a + 1]
           pp == <<p[2], p[1]>>
           qq == <<q[2], q[1]>>
<1>8. /\ p[1] \in Reduced /\ p[2] \in Reduced /\ q[1] \in Reduced /\ q[2] \in Reduced
  BY <1>6, PointParts
<1>9. w \in Reduced
  BY <1>5, CurvePoint
<1>10. z \in Reduced /\ OnLine(pp, qq, <<w, z>>) /\ OnLine(p, q, <<z, w>>)
  BY <1>7 DEF ReachedIs
<1>11. OnLine(p, q, <<x, y>>)
  BY <1>1, EvalIsOn DEF EvalOn
<1>12. p[2] # q[2] /\ AtMost(p[2], q[2]) /\ Less(p[1], q[1])
  BY <1>1, <1>2, SpanLess
<1>13. AtMost(x, q[1]) /\ AtMost(w, q[2]) /\ AtMost(y, w)
  BY <1>1, <1>2, <1>3, <1>5
<1>14. p \in Points /\ q \in Points
  BY <1>6
<1>15. AtMost(p[1], x) /\ a \in 1 .. n - 1 /\ AtMost(one[1][1], x)
  BY <1>1 DEF Inside
<1> HIDE DEF a, b, n, m, t, y, z, w, p, q
<1>16. AtMost(x, z) /\ AtMost(z, q[1])
  <2> DEFINE r == <<y, x>>
             u == <<w, z>>
  <2>1. /\ pp \in Points /\ qq \in Points /\ r \in Points /\ u \in Points
        /\ pp[1] = p[2] /\ qq[1] = q[2] /\ pp[2] = p[1] /\ qq[2] = q[1]
        /\ r[1] = y /\ r[2] = x /\ u[1] = w /\ u[2] = z /\ <<x, y>> \in Points
    BY <1>1, <1>8, <1>9, <1>10 DEF Points
  <2>2. OnLine(pp, qq, r) /\ OnLine(pp, qq, u)
    BY <1>10, <1>11, <1>14, <2>1, SwappedLine
  <2>3. OnLine(pp, qq, qq)
    BY <2>1, LineEnds
  <2>4. Less(pp[1], qq[1]) /\ AtMost(pp[2], qq[2])
    BY <1>8, <1>12, <2>1, OrderLaws
  <2>5. AtMost(r[1], u[1]) /\ AtMost(u[1], qq[1])
    BY <1>13, <2>1
  <2> HIDE DEF r, u, pp, qq
  <2>6. AtMost(r[2], u[2])
    BY <2>1, <2>2, <2>4, <2>5, LineRises
  <2>7. AtMost(u[2], qq[2])
    BY <2>1, <2>2, <2>3, <2>4, <2>5, LineRises
  <2> QED BY <2>1, <2>6, <2>7
<1>17. AtMost(p[1], z)
  BY <1>16, <1>8, <1>10, <1>15, OrderLaws
<1>18. Inside(one, a, z)
  BY <1>16, <1>17, <1>15 DEF Inside, n, p, q
<1>19. EvalGammaCurve(one, z) = w
  BY <1>18, <1>9, <1>10, EvalUnique DEF p, q
<1>20. one[1][1] \in Reduced /\ one[n][1] \in Reduced /\ AtMost(q[1], one[n][1])
  <2>1. 1 \in 1 .. n
    BY <1>5
  <2>2. one[1][1] \in Reduced /\ one[n][1] \in Reduced
    BY <1>5, <2>1, CurvePoint DEF n
  <2>3. a + 1 = n \/ Less(one[a + 1][1], one[n][1])
    BY <1>5, CurveOrder DEF n
  <2> QED BY <1>8, <2>2, <2>3, OrderLaws DEF q
<1>21. AtMost(one[1][1], z) /\ AtMost(z, one[n][1])
  BY <1>16, <1>20, <1>8, <1>10, <1>15, OrderLaws
<1>22. Between(one, a, z)
  BY <1>16, <1>17, <1>5 DEF Between, n, p, q
<1>23. Between(other, b + 1, w)
  <2>1. AtMost(w, w)
    BY <1>9, OrderLaws
  <2> DEFINE c == b + 1
             e == c + 1
  <2>2. ASSUME c < m PROVE AtMost(w, other[e][1])
    <3>1. c \in 1 .. m /\ e \in 1 .. m /\ c < e
      BY <1>2, <1>5, <2>2
    <3>2. w = other[c][1]
      BY DEF w
    <3> HIDE DEF c, e
    <3>3. Less(other[c][1], other[e][1]) /\ other[e][1] \in Reduced
      BY <3>1, CurveOrder, CurvePoint DEF m
    <3> QED BY <1>9, <3>2, <3>3, OrderLaws
  <2> QED BY <1>5, <2>1, <2>2 DEF Between, m, w
<1>24. t.result = Longer(s.result, other, z, EvalGammaCurve(one, z)) /\ t.span = a /\ t.at = b + 1
  BY <1>4, <1>19
<1>25. GoesTo(one, other, s, t, z)
  BY <1>18, <1>19, <1>21, <1>22, <1>23, <1>24, <1>10 DEF GoesTo, a, n
<1>26. Inside(other, b, y)
  BY <1>2, <1>3, <1>5 DEF Inside, m, w
<1>27. Inside(other, b, w)
  <2>1. other[b][1] \in Reduced
    BY <1>2, CurvePoint DEF m
  <2>2. AtMost(other[b][1], w) /\ AtMost(w, w)
    BY <1>1, <1>3, <1>9, <1>13, <2>1, OrderLaws
  <2> QED BY <1>2, <1>5, <2>2 DEF Inside, m, w
<1> QED BY <1>16, <1>19, <1>24, <1>25, <1>26, <1>27 DEF a, b, t, y, z

LEMMA GoingOn ==
  ASSUME NEW one, Curve(one), NEW other, Curve(other), NEW s \in ComposeStates(one, other),
         s.span # Len(one), NEW x \in Reduced, AtMost(one[1][1], x), Between(one, s.span, x),
         Between(other, s.at, EvalGammaCurve(one, x)), ~ Up(one, other, s.span, s.at)
  PROVE  LET t == ComposeStep(one, other, s)
             z == one[s.span + 1][1] IN
           /\ GoesTo(one, other, s, t, z) /\ AtMost(x, z)
           /\ t.span = s.span + 1 /\ t.at = s.at
           /\ \E j : Inside(other, j, EvalGammaCurve(one, x)) /\ Inside(other, j, EvalGammaCurve(one, z))
<1> DEFINE t == ComposeStep(one, other, s)
           a == s.span
           b == s.at
           n == Len(one)
           m == Len(other)
           y == EvalGammaCurve(one, x)
           c == a + 1
           z == one[c][1]
           w == one[c][2]
<1>1. a \in 1 .. n - 1 /\ y \in Reduced /\ Inside(one, a, x) /\ AtMost(x, z)
      /\ AtMost(one[a][2], y) /\ AtMost(y, w)
  BY GoingIs
<1>2. n \in Nat /\ m \in Nat /\ b \in 1 .. m
  BY DEF ComposeStates, Curve
<1>3. Between(other, b, y)
  OBVIOUS
<1>4. t = [span |-> c, at |-> b, result |-> Longer(s.result, other, z, w)]
  <2>1. Turned(one, other, s, t)
    BY StepIs
  <2>2. ~ Down(one, other, a, b)
    BY NeverDown
  <2> HIDE DEF t
  <2> QED BY <2>1, <2>2 DEF Turned
<1>5. one[a][2] = w \/ b + 1 > m \/ ~ AtMost(other[b + 1][1], w)
  BY <1>2 DEF Up
<1>6. /\ 1 \in 1 .. n /\ a \in 1 .. n /\ c \in 1 .. n /\ n \in 1 .. n /\ 1 < c /\ a < c /\ (c = n \/ c < n)
      /\ (c < n => c + 1 \in 1 .. n) /\ c < c + 1
  <2>1. a \in 1 .. n - 1 /\ n \in Nat
    BY <1>1, <1>2
  <2> HIDE DEF a, n
  <2> QED BY <2>1
<1> HIDE DEF a, b, n, m, t, y, c
<1>7. z \in Reduced /\ w \in Reduced /\ one[1][1] \in Reduced /\ one[n][1] \in Reduced
  BY <1>6, CurvePoint DEF n
<1>8. EvalGammaCurve(one, z) = w
  BY <1>6, EvalAtPoint DEF n
<1>9. AtMost(one[1][1], z)
  BY <1>6, <1>7, CurveOrder, OrderLaws DEF n
<1>10. AtMost(z, one[n][1])
  BY <1>6, <1>7, CurveOrder, OrderLaws DEF n
<1>11. Less(one[a][1], z) /\ one[a][1] \in Reduced
  BY <1>6, CurveOrder, CurvePoint DEF n
<1>12. AtMost(one[a][1], z) /\ AtMost(z, z) /\ AtMost(w, w)
  BY <1>7, <1>11, OrderLaws
<1>13. Inside(one, a, z)
  BY <1>1, <1>12 DEF Inside, n, c
<1>14. Between(one, c, z)
  <2>1. ASSUME c < n PROVE AtMost(z, one[c + 1][1])
    <3> DEFINE e == c + 1
    <3>1. e \in 1 .. n /\ c < e
      BY <1>6, <2>1
    <3> HIDE DEF e
    <3>2. Less(one[c][1], one[e][1]) /\ one[e][1] \in Reduced
      BY <1>6, <3>1, CurveOrder, CurvePoint DEF n
    <3> QED BY <1>7, <3>2, OrderLaws DEF e
  <2> QED BY <1>6, <1>12, <2>1 DEF Between, n
<1> HIDE DEF z, w
<1>15. Between(other, b, w)
  <2>1. other[b][1] \in Reduced /\ AtMost(other[b][1], y)
    BY <1>2, <1>3, CurvePoint DEF m, Between
  <2>2. AtMost(other[b][1], w)
    BY <1>1, <1>7, <2>1, OrderLaws
  <2>3. ASSUME b < m PROVE AtMost(w, other[b + 1][1])
    <3>1. b + 1 \in 1 .. m /\ AtMost(y, other[b + 1][1])
      BY <1>2, <1>3, <2>3 DEF Between, m
    <3>2. other[b + 1][1] \in Reduced
      BY <3>1, CurvePoint DEF m
    <3>3. CASE one[a][2] = w
      <4>1. w = y
        BY <1>1, <1>7, <3>3, OrderLaws
      <4> QED BY <3>1, <4>1
    <3>4. CASE ~ AtMost(other[b + 1][1], w)
      BY <1>7, <3>2, <3>4, OrderLaws
    <3>5. ~ (b + 1 > m)
      BY <1>2, <2>3
    <3> QED BY <1>5, <3>3, <3>4, <3>5
  <2> QED BY <1>2, <2>2, <2>3 DEF Between, m
<1> DEFINE j == IF b = Len(other) THEN b - 1 ELSE b
<1>16. Inside(other, j, y)
  BY <1>1, <1>3, BetweenIsInside
<1>17. Inside(other, j, w)
  BY <1>7, <1>15, BetweenIsInside
<1>18. t.result = Longer(s.result, other, z, EvalGammaCurve(one, z)) /\ t.span = c /\ t.at = b
  BY <1>4, <1>8
<1>19. GoesTo(one, other, s, t, z)
  BY <1>7, <1>8, <1>9, <1>10, <1>13, <1>14, <1>15, <1>18 DEF GoesTo, a, n
<1>20. Inside(other, j, EvalGammaCurve(one, x)) /\ Inside(other, j, EvalGammaCurve(one, z))
  BY <1>8, <1>16, <1>17 DEF y
<1> HIDE DEF j
<1> QED BY <1>1, <1>18, <1>19, <1>20 DEF a, b, c, t, z

\* How far the loop has to go.
Left(one, other, s) == (Len(one) - s.span) + (Len(other) - s.at)

LEMMA GoingKeeps ==
  ASSUME NEW one, Curve(one), NEW other, Curve(other), NEW s \in ComposeStates(one, other),
         Going(one, other, s), s.span # Len(one)
  PROVE  LET t == ComposeStep(one, other, s) IN
           /\ ~ Down(one, other, s.span, s.at) /\ t \in ComposeStates(one, other)
           /\ Going(one, other, t) /\ Left(one, other, t) < Left(one, other, s)
<1> DEFINE t == ComposeStep(one, other, s)
<1>1. PICK x \in Reduced :
        /\ Composed(s.result, one, other, x)
        /\ AtMost(one[1][1], x) /\ AtMost(x, one[Len(one)][1])
        /\ Between(one, s.span, x) /\ Between(other, s.at, EvalGammaCurve(one, x))
  BY DEF Going
<1>2. ~ Down(one, other, s.span, s.at)
  BY <1>1, NeverDown
<1>3. t \in ComposeStates(one, other)
  BY <1>2, StepIn DEF Failed
<1>4. Inside(one, s.span, x)
  BY <1>1, GoingIs
<1>5. \E z : /\ GoesTo(one, other, s, t, z) /\ AtMost(x, z)
            /\ \/ t.span = s.span /\ t.at = s.at + 1
               \/ t.span = s.span + 1 /\ t.at = s.at
            /\ \E j : Inside(other, j, EvalGammaCurve(one, x)) /\ Inside(other, j, EvalGammaCurve(one, z))
  <2>1. CASE Up(one, other, s.span, s.at)
    BY <1>1, <2>1, GoingUp
  <2>2. CASE ~ Up(one, other, s.span, s.at)
    BY <1>1, <2>2, GoingOn
  <2> QED BY <2>1, <2>2
<1> HIDE DEF t
<1>6. PICK z : /\ GoesTo(one, other, s, t, z) /\ AtMost(x, z)
            /\ \/ t.span = s.span /\ t.at = s.at + 1
               \/ t.span = s.span + 1 /\ t.at = s.at
            /\ \E j : Inside(other, j, EvalGammaCurve(one, x)) /\ Inside(other, j, EvalGammaCurve(one, z))
  BY <1>5
<1>7. PICK j : Inside(other, j, EvalGammaCurve(one, x)) /\ Inside(other, j, EvalGammaCurve(one, z))
  BY <1>6
<1>8. /\ z \in Reduced /\ Inside(one, s.span, z) /\ AtMost(one[1][1], z) /\ AtMost(z, one[Len(one)][1])
      /\ t.result = Longer(s.result, other, z, EvalGammaCurve(one, z))
      /\ Between(one, t.span, z) /\ Between(other, t.at, EvalGammaCurve(one, z))
  BY <1>6 DEF GoesTo
<1>9. Composed(Longer(s.result, other, z, EvalGammaCurve(one, z)), one, other, z)
  BY <1>1, <1>4, <1>6, <1>7, <1>8, LongerFollows
<1>10. Going(one, other, t)
  BY <1>8, <1>9 DEF Going
<1>11. Left(one, other, t) < Left(one, other, s)
  <2>1. Len(one) \in Nat /\ Len(other) \in Nat /\ s.span \in Nat /\ s.at \in Nat
    BY DEF Curve, ComposeStates
  <2>2. \/ t.span = s.span /\ t.at = s.at + 1
        \/ t.span = s.span + 1 /\ t.at = s.at
    BY <1>6
  <2> DEFINE n == Len(one)
             m == Len(other)
             i == s.span
             k == s.at
  <2>3. Left(one, other, s) = (n - i) + (m - k)
    BY DEF Left
  <2>4. Left(one, other, t) = (n - t.span) + (m - t.at)
    BY DEF Left
  <2>5. n \in Nat /\ m \in Nat /\ i \in Nat /\ k \in Nat
    BY <2>1
  <2>6. (t.span = i /\ t.at = k + 1) \/ (t.span = i + 1 /\ t.at = k)
    BY <2>2
  <2> HIDE DEF n, m, i, k
  <2> QED BY <2>3, <2>4, <2>5, <2>6
<1> QED BY <1>2, <1>3, <1>10, <1>11 DEF t

LEMMA ComposeFromGoing ==
  ASSUME NEW one, Curve(one), NEW other, Curve(other)
  PROVE  \A s \in ComposeStates(one, other) :
           Going(one, other, s) =>
             Composed(ComposeFrom(one, other)[s], one, other, one[Len(one)][1])
<1> DEFINE All == ComposeStates(one, other)
           n == Len(one)
           F == ComposeFrom(one, other)
           Ok(s) == Composed(F[s], one, other, one[n][1])
           D(s) == Left(one, other, s)
           Bad == {s \in All : Going(one, other, s) /\ ~ Ok(s)}
           Far == {D(s) : s \in Bad}
<1>1. n \in Nat /\ n >= 2 /\ Len(other) \in Nat
  BY DEF Curve
<1>2. \A s \in All : D(s) \in Nat
  BY <1>1 DEF ComposeStates, Left
<1>3. ASSUME NEW s \in All, Going(one, other, s)
      PROVE  \/ Ok(s)
             \/ \E t \in All : Going(one, other, t) /\ D(t) < D(s) /\ (Ok(t) => Ok(s))
  <2>1. CASE s.span = n
    <3>1. PICK x \in Reduced :
            /\ Composed(s.result, one, other, x)
            /\ AtMost(x, one[n][1]) /\ Between(one, s.span, x)
      BY <1>3 DEF Going
    <3>2. n \in 1 .. n
      BY <1>1
    <3>3. one[n][1] \in Reduced
      BY <3>2, CurvePoint
    <3>4. AtMost(one[n][1], x)
      BY <2>1, <3>1 DEF Between
    <3>5. x = one[n][1]
      BY <3>1, <3>3, <3>4, OrderLaws
    <3>6. F[s] = s.result
      BY <2>1, ComposeFromIs
    <3> QED BY <3>1, <3>5, <3>6
  <2>2. CASE s.span # n
    <3> DEFINE t == ComposeStep(one, other, s)
    <3>1. /\ ~ Down(one, other, s.span, s.at) /\ t \in All
          /\ Going(one, other, t) /\ D(t) < D(s)
      BY <1>3, <2>2, GoingKeeps
    <3>2. F[s] = F[t]
      BY <2>2, <3>1, ComposeFromIs
    <3> QED BY <3>1, <3>2
  <2> QED BY <2>1, <2>2
<1> HIDE DEF All, F, D, Ok
<1>4. Bad = {}
  <2> SUFFICES ASSUME Bad # {} PROVE FALSE
    OBVIOUS
  <2>1. Far # {} /\ Far \subseteq Nat
    BY <1>2
  <2>2. PICK k \in Far : \A l \in Far : k <= l
    BY <2>1, LeastOf
  <2>3. PICK s \in Bad : D(s) = k
    BY <2>2
  <2>4. PICK t \in All : Going(one, other, t) /\ D(t) < D(s) /\ (Ok(t) => Ok(s))
    BY <1>3, <2>3
  <2>5. t \in Bad
    BY <2>3, <2>4
  <2>6. k <= D(t) /\ D(t) \in Nat /\ D(s) \in Nat
    BY <1>2, <2>2, <2>3, <2>5
  <2> QED BY <2>3, <2>4, <2>6
<1>5. \A s \in All : Going(one, other, s) => Ok(s)
  BY <1>4
<1> QED BY <1>5 DEF All, F, Ok, n

\* The one curve begins on the diagonal, where the other has begun.
Joins(one, other) ==
  /\ Curve(one) /\ Curve(other) /\ one[1][1] = one[1][2]
  /\ AtMost(other[1][1], one[1][2]) /\ AtMost(one[1][2], other[Len(other)][1])

LEMMA GoingAtFirst ==
  ASSUME NEW one, NEW other, Joins(one, other)
  PROVE  LET y == one[1][2]
             s == [span |-> 1, at |-> FindSpan(other, y), result |-> << <<y, EvalGammaCurve(other, y)>> >>] IN
           s \in ComposeStates(one, other) /\ Going(one, other, s)
<1> DEFINE y == one[1][2]
           i == FindSpan(other, y)
           r == << <<y, EvalGammaCurve(other, y)>> >>
           s == [span |-> 1, at |-> i, result |-> r]
           n == Len(one)
           m == Len(other)
<1>1. Curve(one) /\ Curve(other) /\ one[1][1] = y /\ AtMost(other[1][1], y) /\ AtMost(y, other[m][1])
  BY DEF Joins
<1>2. n \in Nat /\ n >= 2 /\ m \in Nat /\ m >= 2
  BY <1>1 DEF Curve
<1>3. 1 \in 1 .. n /\ n \in 1 .. n /\ 1 < n /\ 1 < 2 /\ 2 \in 1 .. n /\ 1 \in 1 .. m /\ m \in 1 .. m
  BY <1>2
<1>4. y \in Reduced
  BY <1>1, <1>3, CurvePoint
<1>5. EvalGammaCurve(other, y) \in Reduced
  BY <1>1, <1>4, EvalReduced
<1>6. EvalGammaCurve(one, y) = y
  BY <1>1, <1>3, EvalAtPoint
<1>7. PICK j \in 1 .. m - 1 : AtMost(other[j][1], y) /\ (j = m - 1 \/ Less(y, other[j + 1][1]))
  BY <1>1, <1>4, SpanOf
<1>8. i = j
  BY <1>1, <1>4, <1>7, FindSpanIs
<1>9. i \in 1 .. m /\ i + 1 \in 1 .. m /\ (i = m - 1 => i + 1 = m)
  BY <1>2, <1>7, <1>8
<1>10. r \in Seq(Point) /\ r \in Seq(Points)
  <2>1. <<y, EvalGammaCurve(other, y)>> \in Point /\ <<y, EvalGammaCurve(other, y)>> \in Points
    BY <1>4, <1>5, ReducedInPoint
  <2> QED BY <2>1
<1>11. s \in ComposeStates(one, other)
  BY <1>3, <1>9, <1>10, StateIs
<1>12. AtMost(y, y)
  BY <1>4, OrderLaws
<1>13. Composed(r, one, other, y)
  <2>1. Len(r) = 1 /\ r[1] = <<y, EvalGammaCurve(other, y)>> /\ r[1][1] = y
    OBVIOUS
  <2> HIDE DEF r
  <2>2. Increasing(r) /\ Follows(r, one, other)
    <3>1. 1 .. Len(r) - 1 = {}
      BY <2>1
    <3> QED BY <3>1 DEF Increasing, Follows
  <2> HIDE DEF y
  <2> QED BY <1>1, <1>6, <1>10, <2>1, <2>2 DEF Composed, End
<1>14. Between(one, 1, y)
  <2>1. Less(one[1][1], one[2][1]) /\ one[2][1] \in Reduced
    BY <1>1, <1>3, CurveOrder, CurvePoint
  <2>2. AtMost(y, one[2][1])
    BY <1>1, <1>4, <2>1, OrderLaws
  <2> HIDE DEF y
  <2> QED BY <1>1, <1>3, <1>12, <2>2 DEF Between
<1>15. Between(other, i, y)
  <2>1. other[i + 1][1] \in Reduced
    BY <1>1, <1>9, CurvePoint
  <2>2. AtMost(y, other[i + 1][1])
    <3>1. CASE i = m - 1
      BY <1>1, <1>9, <3>1
    <3>2. CASE i # m - 1
      BY <1>4, <1>7, <1>8, <2>1, <3>2, OrderLaws
    <3> QED BY <3>1, <3>2
  <2> HIDE DEF i, y
  <2> QED BY <1>7, <1>8, <1>9, <2>2 DEF Between
<1>16. AtMost(one[1][1], y) /\ AtMost(y, one[n][1])
  <2>1. Less(one[1][1], one[n][1]) /\ one[n][1] \in Reduced
    BY <1>1, <1>3, CurveOrder, CurvePoint
  <2> HIDE DEF y
  <2> QED BY <1>1, <1>4, <1>12, <2>1, OrderLaws
<1>17. s.span = 1 /\ s.at = i /\ s.result = r
  OBVIOUS
<1> HIDE DEF s, y, i, r, n
<1>18. Going(one, other, s)
  BY <1>4, <1>6, <1>13, <1>14, <1>15, <1>16, <1>17 DEF Going, n
<1> QED BY <1>11, <1>18 DEF s, i, r, y

\* A curve is at every level what the other curve makes of what the one makes of it.
ComposedRight(one, other, c) ==
  /\ Curve(c) /\ c[1][1] = one[1][1] /\ c[Len(c)][1] = one[Len(one)][1]
  /\ \A x \in Reduced :
       AtMost(one[1][1], x) /\ AtMost(x, one[Len(one)][1]) =>
         EvalGammaCurve(c, x) = EvalGammaCurve(other, EvalGammaCurve(one, x))

\* __compose_gamma_curve ends, without an IndexError, with a curve that is the composition
\* of the two, from the first to the last level of the one.
THEOREM CompositionIsRight ==
  ASSUME NEW one, NEW other, Joins(one, other)
  PROVE  ComposedRight(one, other, ComposeGammaCurve(one, other))
<1> DEFINE c == ComposeGammaCurve(one, other)
           n == Len(one)
           G(x) == EvalGammaCurve(other, EvalGammaCurve(one, x))
<1>1. Curve(one) /\ Curve(other)
  BY DEF Joins
<1>2. Composed(c, one, other, one[n][1])
  <2> DEFINE y == one[1][2]
             s == [span |-> 1, at |-> FindSpan(other, y),
                   result |-> << <<y, EvalGammaCurve(other, y)>> >>]
  <2>1. s \in ComposeStates(one, other) /\ Going(one, other, s)
    BY GoingAtFirst
  <2>2. c = ComposeFrom(one, other)[s]
    BY DEF ComposeGammaCurve
  <2> HIDE DEF s, c
  <2> QED BY <1>1, <2>1, <2>2, ComposeFromGoing
<1> HIDE DEF c
<1>3. /\ c \in Seq(Points) /\ Len(c) >= 1 /\ Increasing(c) /\ c[1][1] = one[1][1]
      /\ c[Len(c)][1] = one[n][1] /\ Follows(c, one, other)
  BY <1>2 DEF Composed, End
<1>4. n \in Nat /\ n >= 2 /\ 1 \in 1 .. n /\ n \in 1 .. n /\ 1 < n
  BY <1>1 DEF Curve
<1>5. one[1][1] \in Reduced /\ one[n][1] \in Reduced /\ Less(one[1][1], one[n][1])
  BY <1>1, <1>4, CurvePoint, CurveOrder
<1>6. Len(c) # 1
  BY <1>3, <1>5, OrderLaws
<1>7. Curve(c)
  <2> DEFINE m == Len(c)
  <2>1. m \in Nat /\ m >= 1 /\ m # 1
    BY <1>3, <1>6
  <2> HIDE DEF m
  <2>2. m >= 2
    BY <2>1
  <2> QED BY <1>3, <2>2 DEF Curve, m
<1>8. ASSUME NEW x \in Reduced, AtMost(one[1][1], x), AtMost(x, one[n][1])
      PROVE  EvalGammaCurve(c, x) = G(x)
  <2>1. PICK i : Inside(c, i, x)
    BY <1>3, <1>7, <1>8, InsideOne
  <2>2. Len(c) \in Nat /\ i \in 1 .. Len(c) - 1 /\ AtMost(c[i][1], x)
    BY <1>3, <2>1 DEF Inside
  <2>3. AtMost(x, c[i + 1][1])
    <3>1. CASE i = Len(c) - 1
      <4>1. i + 1 = Len(c)
        BY <2>2, <3>1
      <4> QED BY <1>3, <1>8, <4>1
    <3>2. CASE i # Len(c) - 1
      BY <2>1, <3>2 DEF Inside
    <3> QED BY <3>1, <3>2
  <2>4. OnLine(c[i], c[i + 1], <<x, G(x)>>)
    BY <1>3, <2>2, <2>3 DEF Follows
  <2>5. G(x) \in Reduced
    BY <1>1, EvalReduced
  <2> QED BY <1>7, <2>1, <2>4, <2>5, EvalUnique
<1> QED BY <1>3, <1>7, <1>8 DEF ComposedRight, c

\* The contrast of a sensor: its gamma curve goes from the origin or before to a level
\* beyond it.
Sensor(g) == Curve(g) /\ AtMost(g[1][1], Zero) /\ AtMost(Zero, g[Len(g)][1])

\* The contrast (unicam_isp_capture.py, __contrast_control): for every histogram, every
\* sensor, configuration, contrast and brightness, and any levels to ask for, the
\* quantiles are in their bins, the curves rise and compose, and so do the levels the
\* ISP is given.
THEOREM CurvesAreRight ==
  ASSUME NEW h, Histogram(h), NEW g, Sensor(g), NEW cfg, Contrast(cfg),
         NEW contrast \in Reduced, AtMost(Zero, contrast), NEW brightness \in Reduced,
         NEW xs, Growing(xs)
  PROVE  CurvesRight(h, g, cfg, ContrastControl(h, g, cfg, contrast, brightness, xs))
<1> DEFINE stretch == ComputeStretchCurve(h, cfg)
           composed == ComposeGammaCurve(stretch, g)
           used == IF cfg.ce /\ (cfg.loMax # Int2Q(0) \/ cfg.hiMax # Int2Q(0)) THEN composed ELSE g
           moved == Adjusted(used, contrast, brightness, cfg.top)
           levels == ContrastControl(h, g, cfg, contrast, brightness, xs)
           top == cfg.top
           total == Cardinality(Pixels(h, 0 .. Len(h) - 1))
<1>1. top \in Nat /\ Curve(g) /\ AtMost(g[1][1], Zero) /\ AtMost(Zero, g[Len(g)][1])
  BY DEF Contrast, Sensor
<1>2. Curve(stretch) /\ stretch[1] = <<Zero, Zero>> /\ stretch[Len(stretch)][1] = Int2Q(top)
  BY StretchIsRight DEF StretchRight
<1>3. ASSUME NEW q \in {cfg.loHist, <<1, 2>>, cfg.hiHist}
      PROVE  LET bin == QuantileBin(h, Floor(Mul(q, Int2Q(total))))
                 at == CumulativeQuantile(HistogramCumulative(h), q) IN
               AtMost(Int2Q(bin), at) /\ AtMost(at, Int2Q(bin + 1))
  <2>1. Part(<<1, 2>>)
    BY DEF Part, Rat, Positive
  <2>2. Part(q)
    BY <2>1 DEF Contrast
  <2> QED BY <2>2, QuantileIsIn DEF QuantileIn
<1> HIDE DEF stretch, top
<1>4. Joins(stretch, g)
  BY <1>1, <1>2 DEF Joins
<1>5. ComposedRight(stretch, g, composed)
  BY <1>4, CompositionIsRight
<1> HIDE DEF composed
<1>6. /\ Curve(composed) /\ composed[1][1] = Zero
      /\ \A x \in Reduced :
           AtMost(Zero, x) /\ AtMost(x, Int2Q(top)) =>
             EvalGammaCurve(composed, x) = EvalGammaCurve(g, EvalGammaCurve(stretch, x))
  BY <1>2, <1>5 DEF ComposedRight
<1>7. ASSUME NEW x \in 0 .. top
      PROVE  EvalGammaCurve(composed, Int2Q(x)) = EvalGammaCurve(g, EvalGammaCurve(stretch, Int2Q(x)))
  <2>1. x \in Int /\ 0 \in Int /\ top \in Int /\ 0 <= x /\ x <= top
    BY <1>1
  <2>2. Int2Q(x) \in Reduced
    BY <2>1, IntReduced
  <2>3. AtMost(Zero, Int2Q(x)) /\ AtMost(Int2Q(x), Int2Q(top))
    BY <2>1, IntOrder DEF IntsOrdered, Zero
  <2> QED BY <1>6, <2>2, <2>3
<1>8. Curve(used) /\ AtMost(used[1][1], Zero)
  <2>1. AtMost(Zero, Zero)
    BY ZeroReduced, OrderLaws
  <2> QED BY <1>1, <1>6, <2>1
<1>9. levels = FillInContrastStatus(moved, xs, top)
  BY DEF ContrastControl, composed, stretch, top
<1> HIDE DEF used, levels
<1>10. Curve(moved) /\ moved[1][1] = used[1][1]
  BY <1>1, <1>8, AdjustedIsCurve DEF Zero, top
<1> HIDE DEF moved
<1>11. LevelsRise(levels, top)
  BY <1>1, <1>8, <1>9, <1>10, FilledRises DEF Zero
<1>12. Increasing(stretch) /\ Increasing(composed)
  BY <1>2, <1>6 DEF Curve
<1>13. levels[Len(levels)] = top /\ \A i \in 1 .. Len(levels) - 1 : levels[i] <= levels[i + 1]
  BY <1>11 DEF LevelsRise
<1>14. CurvesRight(h, g, cfg, levels)
  <2>1. \A q \in {cfg.loHist, <<1, 2>>, cfg.hiHist} :
          LET bin == QuantileBin(h, Floor(Mul(q, Int2Q(total))))
              at == CumulativeQuantile(HistogramCumulative(h), q) IN
            AtMost(Int2Q(bin), at) /\ AtMost(at, Int2Q(bin + 1))
    BY <1>3
  <2>2. \A x \in 0 .. top :
          EvalGammaCurve(composed, Int2Q(x)) = EvalGammaCurve(g, EvalGammaCurve(stretch, Int2Q(x)))
    BY <1>7
  <2> USE DEF stretch, composed, top
  <2> HIDE DEF total
  <2> QED BY <1>2, <1>12, <1>13, <2>1, <2>2 DEF CurvesRight, total
<1> QED BY <1>14 DEF levels
=============================================================================
