------------------------------- MODULE Curve -------------------------------
(***************************************************************************)
(* The arithmetic with which a node checks an ECDSA signature with nothing *)
(* but integers: the key of the operator (services/llave_local.py), the    *)
(* quote of its own TPM (services/tpm_attest.py) and the quote of a peer   *)
(* (services/fleet_attest.py) each have their copy of it.                  *)
(*                                                                         *)
(* The code computes on P-256; here the curve y^2 = x^3 - 3x + CoefB over  *)
(* the integers modulo Prime is a parameter.                               *)
(***************************************************************************)
EXTENDS Integers, Sequences

CONSTANTS Prime, CoefB, Order, GenX, GenY

ASSUME CurveAssumption ==
    /\ {Prime, CoefB, Order, GenX, GenY} \subseteq Nat
    /\ Prime > 3 /\ Order > 2

Gen == <<GenX, GenY>>
Infinity == <<>>   \* None in the code

\* pow(v, m - 2, m), and pow(v, -1, m) in llave_local.
Inv(v, m) == ((v % m)^(m - 2)) % m

OnCurve(q) == (q[2] * q[2] - (q[1] * q[1] * q[1] - 3 * q[1] + CoefB)) % Prime = 0

Slope(a, b) ==
    IF a = b THEN ((3 * a[1] * a[1] - 3) * Inv(2 * a[2], Prime)) % Prime
    ELSE ((b[2] - a[2]) * Inv(b[1] - a[1], Prime)) % Prime

Suma(a, b) ==
    CASE a = Infinity -> b
      [] a # Infinity /\ b = Infinity -> a
      [] OTHER ->
           IF a[1] = b[1] /\ (a[2] + b[2]) % Prime = 0 THEN Infinity
           ELSE LET l == Slope(a, b)
                    x == (l * l - a[1] - b[1]) % Prime
                IN  <<x, (l * (a[1] - x) - a[2]) % Prime>>

\* Mutant of Turn: the point is doubled before it is added.
TurnLate(s) ==
    IF s.k = 0 THEN s
    ELSE LET double == Suma(s.p, s.p)
         IN  [k |-> s.k \div 2, r |-> IF s.k % 2 = 1 THEN Suma(s.r, double) ELSE s.r,
              p |-> double]

\* One turn of the loop of _ec_mul, from the lowest bit up: what is left of
\* the factor, the result so far, and the point doubled so far.
Turn(s) ==
    IF s.k = 0 THEN s
    ELSE [k |-> s.k \div 2, r |-> IF s.k % 2 = 1 THEN Suma(s.r, s.p) ELSE s.r,
          p |-> Suma(s.p, s.p)]

\* The loop ends before its k-th turn.
Mul(k, q) ==
    LET After[n \in 0..k] == IF n = 0 THEN [k |-> k, r |-> Infinity, p |-> q]
                             ELSE Turn(After[n - 1])
    IN  After[k].r

InRange(r, s) == 0 < r /\ r < Order /\ 0 < s /\ s < Order

\* Is (r, s) a signature of the hash e under the public key q?
EcdsaOk(q, e, r, s) ==
    /\ InRange(r, s)
    /\ OnCurve(q)
    /\ LET w == Inv(s, Order)
           R == Suma(Mul((e * w) % Order, Gen), Mul((r * w) % Order, q))
       IN  R # Infinity /\ R[1] % Order = r
-----------------------------------------------------------------------------
\* The sum of the generator with itself, k times.
Times(k) == LET T[i \in 0..k] == IF i = 0 THEN Infinity ELSE Suma(T[i - 1], Gen)
            IN  T[k]

\* What the parameters are chosen for: the multiples of the generator are
\* points of the curve and, with the sum (its slopes, the doubling and the
\* point at infinity included), a group of prime order, so that every number
\* below the order has its inverse.
ASSUME GroupAssumption ==
    /\ Times(Order) = Infinity
    /\ \A i \in 1..Order - 1 : Times(i) # Infinity /\ OnCurve(Times(i))
    /\ \A i, j, l \in 0..Order - 1 :
          Suma(Suma(Times(i), Times(j)), Times(l)) = Suma(Times(i), Suma(Times(j), Times(l)))
    /\ \A v \in 1..Order - 1 :
          Inv(v, Order) \in 1..Order - 1 /\ (v * Inv(v, Order)) % Order = 1
=============================================================================
