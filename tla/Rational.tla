------------------------------ MODULE Rational ------------------------------
(***************************************************************************)
(* Rational numbers as reduced pairs <<n, d>> with d > 0, for the parts of *)
(* actfw_core that compute with floats.                                    *)
(***************************************************************************)
EXTENDS Integers

Gcd[p \in Nat \X Nat] == IF p[2] = 0 THEN p[1] ELSE Gcd[<<p[2], p[1] % p[2]>>]

Abs(n) == IF n < 0 THEN -n ELSE n

\* n / d, for d # 0.
Q(n, d) ==
  LET g == Gcd[<<Abs(n), Abs(d)>>]
      s == IF d < 0 THEN -1 ELSE 1 IN <<(s * n) \div g, (s * d) \div g>>

Int2Q(n) == <<n, 1>>

Add(p, q) == Q(p[1] * q[2] + q[1] * p[2], p[2] * q[2])
Sub(p, q) == Q(p[1] * q[2] - q[1] * p[2], p[2] * q[2])
Mul(p, q) == Q(p[1] * q[1], p[2] * q[2])
Over(p, q) == Q(p[1] * q[2], p[2] * q[1])

Less(p, q) == p[1] * q[2] < q[1] * p[2]
AtMost(p, q) == p[1] * q[2] <= q[1] * p[2]

MinQ(p, q) == IF Less(q, p) THEN q ELSE p
MaxQ(p, q) == IF Less(p, q) THEN q ELSE p

Floor(p) == p[1] \div p[2]
=============================================================================
