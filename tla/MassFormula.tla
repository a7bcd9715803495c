---------------------------- MODULE MassFormula ----------------------------
(***************************************************************************)
(* The closed form of sigma(N, k), the number of labelled doubly even      *)
(* [N, k] codes, which every driver receives as its quota.  The source     *)
(* multiplies fractions; here numerators and denominators are multiplied   *)
(* apart and divided once.                                                 *)
(***************************************************************************)
EXTENDS Integers

(* f[0] * ... * f[t - 1]                                                    *)
Product(f, t) ==
  LET upTo[i \in 0 .. t] == IF i = 0 THEN 1 ELSE upTo[i - 1] * f[i - 1]
  IN upTo[t]

Denominator(t) == Product([i \in 0 .. t - 1 |-> 2^(i + 1) - 1], t)

(* The number of totally singular t-spaces of a quadratic space of          *)
(* dimension 2m and type eps.                                               *)
OmegaNumerator(m, t, eps) ==
  Product([i \in 0 .. t - 1 |-> 2^(2 * m - 2 * i - 1) + eps * 2^(m - i - 1) - 1], t)

Omega(m, t, eps) ==
  IF t < 0 \/ t > m THEN 0 ELSE OmegaNumerator(m, t, eps) \div Denominator(t)

SymplecticNumerator(N, k) == Product([i \in 0 .. k - 1 |-> 2^(N - 2 * i - 2) - 1], k)

GaboritSigma(N, k) ==
  LET r == N % 8
      m == (N - 2) \div 2
      even(eps) == Omega(m, k - 1, eps) + 2^k * Omega(m, k, eps)
  IN CASE k = 0 -> 1
       [] k > 0 /\ 2 * k > N -> 0
       [] k > 0 /\ 2 * k <= N /\ r \in {1, 7} -> Omega((N - 1) \div 2, k, 1)
       [] k > 0 /\ 2 * k <= N /\ r \in {3, 5} -> Omega((N - 1) \div 2, k, -1)
       [] k > 0 /\ 2 * k <= N /\ r \in {2, 6} -> SymplecticNumerator(N, k) \div Denominator(k)
       [] k > 0 /\ 2 * k <= N /\ r = 0 -> even(1)
       [] k > 0 /\ 2 * k <= N /\ r = 4 -> even(-1)

=============================================================================
