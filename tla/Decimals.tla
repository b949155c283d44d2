------------------------------ MODULE Decimals ------------------------------
(***************************************************************************)
(* The integer quotients behind the decimals of the workflow's nodes: how  *)
(* Map divides and converts, and how Aggregate averages.  The code         *)
(* computes them with BigInt, which has no width.                          *)
(*                                                                         *)
(* A definition marked "Slip" is no part of the model: it is the one after *)
(* it with a plausible mistake, for testing the properties.                *)
(***************************************************************************)
EXTENDS Integers

Magnitude(n) == IF n < 0 THEN -n ELSE n

\* Ten to the n.
PowerOfTen(n) ==
  LET Power[k \in 0 .. n] == IF k = 0 THEN 1 ELSE 10 * Power[k - 1] IN Power[n]

\* BigInt division truncates.
Truncated(n, d) == IF n < 0 THEN -((-n) \div d) ELSE n \div d

\* Slip: ties are rounded up.
RoundedQuotientUp(n, d) ==
  LET q == Magnitude(n) \div Magnitude(d)
      rest == 2 * (Magnitude(n) % Magnitude(d)) - Magnitude(d)
      up == IF rest >= 0 THEN 1 ELSE 0
  IN  IF (n < 0) # (d < 0) THEN -(q + up) ELSE q + up

\* Ties are rounded to the even quotient.
RoundedQuotient(n, d) ==
  LET q == Magnitude(n) \div Magnitude(d)
      rest == 2 * (Magnitude(n) % Magnitude(d)) - Magnitude(d)
      up == IF rest > 0 \/ (rest = 0 /\ q % 2 # 0) THEN 1 ELSE 0
  IN  IF (n < 0) # (d < 0) THEN -(q + up) ELSE q + up

\* The modes of a conversion; "exact" is for the exact quotients.
FloorQuotient(n, d) ==
  LET q == Truncated(n, d) IN IF q * d # n /\ n < 0 THEN q - 1 ELSE q
CeilQuotient(n, d) ==
  LET q == Truncated(n, d) IN IF q * d # n /\ n > 0 THEN q + 1 ELSE q

\* Ties are rounded away from zero.
AverageQuotient(n, d) ==
  LET q == Truncated(n, d)
      away == IF 2 * Magnitude(n - q * d) < d THEN 0 ELSE IF n < 0 THEN -1 ELSE 1
  IN  q + away
=============================================================================
