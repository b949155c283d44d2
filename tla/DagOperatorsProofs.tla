------------------------- MODULE DagOperatorsProofs -------------------------
(***************************************************************************)
(* What the operators of a plan do, for all expressions, rows and shapes:  *)
(* an expression the compiler accepts has a value of the type inferred for *)
(* it, the rows of every node fit the shape derived for it, and the        *)
(* bounded heap of a sort keeps what a complete sort would.  The recursive *)
(* functions of the model are reasoned about through the least number at   *)
(* which a claim would fail.                                               *)
(***************************************************************************)
EXTENDS DagExecution, FiniteSetTheorems, FunctionTheorems, SequenceTheorems,
        WellFoundedInduction, TLAPS

-----------------------------------------------------------------------------
(* Induction over numbers, and powers of ten *)

\* A set of natural numbers that is not empty has a least element.
LEMMA LeastNumber ==
  ASSUME NEW T \in SUBSET Nat, T # {}
  PROVE  \E n \in T : \A m \in T : n <= m
<1> DEFINE R == OpToRel(<, Nat)
<1>1. PICK n \in T : \A m \in T : <<m, n>> \notin R
  BY NatLessThanWellFounded, WFMin
<1>2. \A m \in T : ~(m < n)
  BY <1>1 DEF OpToRel
<1> QED BY <1>2

\* Induction over the natural numbers, with a set for the property.
LEMMA FromNumberToNumber ==
  ASSUME NEW S, 0 \in S, \A n \in Nat : n \in S => n + 1 \in S
  PROVE  \A n \in Nat : n \in S
<1> DEFINE Rest == {n \in Nat : n \notin S}
<1> SUFFICES ASSUME Rest # {} PROVE FALSE
  OBVIOUS
<1>1. PICK n \in Rest : \A m \in Rest : n <= m
  <2> HIDE DEF Rest
  <2>1. Rest \in SUBSET Nat
    BY DEF Rest
  <2> QED BY <2>1, LeastNumber
<1>2. n # 0 /\ n - 1 \in Nat /\ ~(n <= n - 1)
  BY <1>1
<1>3. n - 1 \in S
  BY <1>1, <1>2
<1>4. (n - 1) + 1 \in S
  BY <1>2, <1>3
<1> QED BY <1>1, <1>4

\* F[n] is what the steps up to n make of first.
Iterates(F, D, N, first, step) ==
  /\ F \in [0 .. N -> D]
  /\ F[0] = first
  /\ \A n \in 1 .. N : F[n] = step[n][F[n - 1]]

\* A function may be defined by iterating steps: the recursive functions of the
\* model are of this kind.
LEMMA IterationExists ==
  ASSUME NEW D, NEW N \in Nat, NEW first \in D, NEW step \in [1 .. N -> [D -> D]]
  PROVE  \E F : Iterates(F, D, N, first, step)
<1> DEFINE Is(g, m) == \A n \in 0 .. m : g[n] = IF n = 0 THEN first ELSE step[n][g[n - 1]]
           Good == {m \in Nat : m <= N => \E g \in [0 .. m -> D] : Is(g, m)}
<1>1. 0 \in Good
  <2>1. [n \in 0 .. 0 |-> first] \in [0 .. 0 -> D]
    OBVIOUS
  <2>2. Is([n \in 0 .. 0 |-> first], 0)
    OBVIOUS
  <2> QED BY <2>1, <2>2
<1>2. ASSUME NEW m \in Nat, m \in Good PROVE m + 1 \in Good
  <2> SUFFICES ASSUME m + 1 <= N PROVE \E g \in [0 .. m + 1 -> D] : Is(g, m + 1)
    OBVIOUS
  <2>1. PICK g \in [0 .. m -> D] : Is(g, m)
    BY <1>2
  <2> DEFINE new == step[m + 1][g[m]]
             h == [n \in 0 .. m + 1 |-> IF n = m + 1 THEN new ELSE g[n]]
  <2>2. new \in D
    BY <2>1
  <2>3. h \in [0 .. m + 1 -> D]
    <3> HIDE DEF new
    <3> QED BY <2>1, <2>2
  <2>4. h[m + 1] = new /\ \A n \in 0 .. m : h[n] = g[n]
    OBVIOUS
  <2> HIDE DEF h
  <2>5. \A n \in 0 .. m + 1 : h[n] = IF n = 0 THEN first ELSE step[n][h[n - 1]]
    <3> TAKE n \in 0 .. m + 1
    <3>1. CASE n = m + 1
      BY <3>1, <2>4
    <3>2. CASE n # m + 1
      <4>1. n \in 0 .. m /\ (n # 0 => n - 1 \in 0 .. m)
        BY <3>2
      <4> QED BY <4>1, <2>1, <2>4
    <3> QED BY <3>1, <3>2
  <2> QED BY <2>3, <2>5
<1>3. N \in Good
  <2> HIDE DEF Good
  <2> QED BY <1>1, <1>2, FromNumberToNumber
<1>4. PICK g \in [0 .. N -> D] : Is(g, N)
  BY <1>3
<1>5. g[0] = first
  <2>1. 0 \in 0 .. N
    OBVIOUS
  <2> QED BY <1>4, <2>1
<1>6. ASSUME NEW n \in 1 .. N PROVE g[n] = step[n][g[n - 1]]
  <2>1. n \in 0 .. N /\ n # 0
    OBVIOUS
  <2> QED BY <1>4, <2>1
<1> QED BY <1>4, <1>5, <1>6 DEF Iterates

-----------------------------------------------------------------------------
\* P has the powers of ten up to that of N.
ArePowers(P, N) ==
  /\ P \in [0 .. N -> Nat]
  /\ P[0] = 1
  /\ \A k \in Nat : k < N => P[k + 1] = 10 * P[k]
  /\ PowerOfTen(N) = P[N]

\* The recursive function in PowerOfTen is what it says.
LEMMA PowersOfTen == ASSUME NEW N \in Nat PROVE \E P : ArePowers(P, N)
<1> DEFINE step == [n \in 1 .. N |-> [p \in Nat |-> 10 * p]]
           Is(F) == F = [k \in 0 .. N |-> IF k = 0 THEN 1 ELSE 10 * F[k - 1]]
           C == CHOOSE F : Is(F)
<1>1. step \in [1 .. N -> [Nat -> Nat]]
  OBVIOUS
<1>2. PICK F : Iterates(F, Nat, N, 1, step)
  <2> HIDE DEF step
  <2> QED BY <1>1, IterationExists
<1>3. Is(F)
  <2>1. ASSUME NEW n \in 0 .. N PROVE F[n] = IF n = 0 THEN 1 ELSE 10 * F[n - 1]
    <3>1. CASE n = 0
      BY <1>2, <3>1 DEF Iterates
    <3>2. CASE n # 0
      <4>1. n \in 1 .. N /\ n - 1 \in 0 .. N
        BY <3>2
      <4>2. F[n - 1] \in Nat /\ F[n] = step[n][F[n - 1]]
        BY <1>2, <4>1 DEF Iterates
      <4> QED BY <3>2, <4>1, <4>2
    <3> QED BY <3>1, <3>2
  <2> QED BY <1>2, <2>1 DEF Iterates
<1>4. Is(C)
  BY <1>3
<1>5. PowerOfTen(N) = C[N]
  BY DEF PowerOfTen
<1> HIDE DEF C
<1>6. C[0] = 1 /\ \A k \in Nat : k < N => C[k + 1] = 10 * C[k]
  BY <1>4
<1> DEFINE Good == {n \in Nat : n <= N => C[n] \in Nat}
<1>7. 0 \in Good
  BY <1>6
<1>8. ASSUME NEW n \in Nat, n \in Good PROVE n + 1 \in Good
  BY <1>6, <1>8
<1>9. \A n \in Nat : n \in Good
  <2> HIDE DEF Good
  <2> QED BY <1>7, <1>8, FromNumberToNumber
<1>10. C \in [0 .. N -> Nat]
  <2>1. \A n \in 0 .. N : C[n] \in Nat
    BY <1>9
  <2>2. DOMAIN C = 0 .. N /\ C = [n \in 0 .. N |-> C[n]]
    BY <1>4
  <2> QED BY <2>1, <2>2
<1> QED BY <1>5, <1>6, <1>10 DEF ArePowers

\* Powers of ten are positive, and each is ten times the one before.
LEMMA PowerOfTenFacts ==
  /\ PowerOfTen(0) = 1
  /\ \A n \in Nat : PowerOfTen(n) \in Nat /\ PowerOfTen(n) > 0
  /\ \A n \in Nat : PowerOfTen(n + 1) = 10 * PowerOfTen(n)
<1>1. PowerOfTen(0) = 1
  <2>1. PICK N \in Nat : N = 0
    OBVIOUS
  <2>2. PICK P : ArePowers(P, N)
    BY PowersOfTen
  <2> QED BY <2>1, <2>2 DEF ArePowers
<1>2. ASSUME NEW n \in Nat PROVE PowerOfTen(n) \in Nat
  <2>1. PICK P : ArePowers(P, n)
    BY PowersOfTen
  <2> QED BY <2>1 DEF ArePowers
<1>3. ASSUME NEW n \in Nat PROVE PowerOfTen(n + 1) = 10 * PowerOfTen(n)
  <2>1. PICK P : ArePowers(P, n)
    BY PowersOfTen
  <2>2. PICK Q : ArePowers(Q, n + 1)
    <3>1. n + 1 \in Nat
      OBVIOUS
    <3> QED BY <3>1, PowersOfTen
  <2> DEFINE Good == {k \in Nat : k <= n => P[k] = Q[k]}
  <2>3. 0 \in Good
    BY <2>1, <2>2 DEF ArePowers
  <2>4. ASSUME NEW k \in Nat, k \in Good PROVE k + 1 \in Good
    <3> SUFFICES ASSUME k + 1 <= n PROVE P[k + 1] = Q[k + 1]
      OBVIOUS
    <3>1. P[k + 1] = 10 * P[k]
      BY <2>1 DEF ArePowers
    <3>2. Q[k + 1] = 10 * Q[k]
      BY <2>2 DEF ArePowers
    <3> QED BY <3>1, <3>2, <2>4
  <2>5. n \in Good
    <3> HIDE DEF Good
    <3> QED BY <2>3, <2>4, FromNumberToNumber
  <2>6. Q[n + 1] = 10 * Q[n]
    BY <2>2 DEF ArePowers
  <2> QED BY <2>1, <2>2, <2>5, <2>6 DEF ArePowers
<1>4. ASSUME NEW n \in Nat PROVE PowerOfTen(n) > 0
  <2> DEFINE Good == {k \in Nat : PowerOfTen(k) > 0}
  <2>1. 0 \in Good
    BY <1>1
  <2>2. ASSUME NEW k \in Nat, k \in Good PROVE k + 1 \in Good
    BY <1>2, <1>3, <2>2
  <2>3. n \in Good
    <3> HIDE DEF Good
    <3> QED BY <2>1, <2>2, FromNumberToNumber
  <2> QED BY <2>3
<1> QED BY <1>1, <1>2, <1>3, <1>4

\* The power of a sum is the product of the powers.
LEMMA PowerOfTenAdds ==
  ASSUME NEW m \in Nat, NEW n \in Nat
  PROVE  PowerOfTen(m + n) = PowerOfTen(m) * PowerOfTen(n)
<1> DEFINE Good == {k \in Nat : PowerOfTen(m + k) = PowerOfTen(m) * PowerOfTen(k)}
<1>1. 0 \in Good
  BY PowerOfTenFacts
<1>2. ASSUME NEW k \in Nat, k \in Good PROVE k + 1 \in Good
  <2> DEFINE p == PowerOfTen(m)  q == PowerOfTen(k)
  <2>1. p \in Nat /\ q \in Nat /\ PowerOfTen(m + k) = p * q
    BY <1>2, PowerOfTenFacts
  <2>2. PowerOfTen((m + k) + 1) = 10 * PowerOfTen(m + k) /\ PowerOfTen(k + 1) = 10 * q
    BY PowerOfTenFacts
  <2>3. m + (k + 1) = (m + k) + 1
    OBVIOUS
  <2> HIDE DEF p, q
  <2>4. 10 * (p * q) = p * (10 * q)
    BY <2>1
  <2>5. PowerOfTen(m + (k + 1)) = p * PowerOfTen(k + 1)
    BY <2>1, <2>2, <2>3, <2>4
  <2> QED BY <2>5 DEF p
<1>3. n \in Good
  <2> HIDE DEF Good
  <2> QED BY <1>1, <1>2, FromNumberToNumber
<1> QED BY <1>3

-----------------------------------------------------------------------------
(* Expressions: their levels and their parts *)

\* L[n] are the expressions n levels below e.
AreLevels(L, e, depth) ==
  L = [n \in 0 .. depth |-> IF n = 0 THEN {e} ELSE UNION {Operands(x) : x \in L[n - 1]}]

\* The recursive function in Levels is what it says.
LEMMA LevelsExist ==
  ASSUME NEW e, NEW depth \in Nat
  PROVE  AreLevels(Levels(e, depth), e, depth)
<1> DEFINE Good == {m \in Nat : \E L : AreLevels(L, e, m)}
<1>1. 0 \in Good
  <2> DEFINE L == [n \in 0 .. 0 |-> {e}]
  <2>1. AreLevels(L, e, 0)
    BY DEF AreLevels
  <2> HIDE DEF L
  <2> QED BY <2>1
<1>2. ASSUME NEW m \in Nat, m \in Good PROVE m + 1 \in Good
  <2>1. PICK K : AreLevels(K, e, m)
    BY <1>2
  <2> DEFINE new == UNION {Operands(x) : x \in K[m]}
             L == [n \in 0 .. m + 1 |-> IF n = m + 1 THEN new ELSE K[n]]
  <2>2. L[m + 1] = new /\ \A n \in 0 .. m : L[n] = K[n]
    OBVIOUS
  <2>3. L = [n \in 0 .. m + 1 |-> L[n]]
    OBVIOUS
  <2>4. \A n \in 0 .. m + 1 : L[n] = IF n = 0 THEN {e} ELSE UNION {Operands(x) : x \in L[n - 1]}
    <3> HIDE DEF L
    <3> TAKE n \in 0 .. m + 1
    <3>1. CASE n = m + 1
      <4>1. n # 0 /\ n - 1 = m /\ m \in 0 .. m
        BY <3>1
      <4>2. L[n] = new /\ L[n - 1] = K[m]
        BY <2>2, <3>1, <4>1
      <4> QED BY <4>1, <4>2
    <3>2. CASE n # m + 1
      <4>1. n \in 0 .. m /\ (n # 0 => n - 1 \in 0 .. m)
        BY <3>2
      <4>2. K[n] = IF n = 0 THEN {e} ELSE UNION {Operands(x) : x \in K[n - 1]}
        BY <2>1, <4>1 DEF AreLevels
      <4> QED BY <2>2, <4>1, <4>2
    <3> QED BY <3>1, <3>2
  <2>5. AreLevels(L, e, m + 1)
    <3> HIDE DEF L
    <3> QED BY <2>3, <2>4 DEF AreLevels
  <2> HIDE DEF L
  <2> QED BY <2>5
<1>3. depth \in Good
  <2> HIDE DEF Good
  <2> QED BY <1>1, <1>2, FromNumberToNumber
<1> QED BY <1>3 DEF Levels, AreLevels

\* The expressions n levels below e.
LevelOf(e, n) == Levels(e, n)[n]

\* A level is the same however deep one goes on from there.
LEMMA LevelsAgree ==
  ASSUME NEW e, NEW c \in Nat, NEW d \in Nat
  PROVE  \A n \in Nat : n <= c /\ n <= d => Levels(e, c)[n] = Levels(e, d)[n]
<1> DEFINE Good == {n \in Nat : n <= c /\ n <= d => Levels(e, c)[n] = Levels(e, d)[n]}
<1>1. AreLevels(Levels(e, c), e, c) /\ AreLevels(Levels(e, d), e, d)
  BY LevelsExist
<1>2. 0 \in Good
  BY <1>1 DEF AreLevels
<1>3. ASSUME NEW n \in Nat, n \in Good PROVE n + 1 \in Good
  <2> SUFFICES ASSUME n + 1 <= c, n + 1 <= d PROVE Levels(e, c)[n + 1] = Levels(e, d)[n + 1]
    OBVIOUS
  <2>1. Levels(e, c)[n + 1] = UNION {Operands(x) : x \in Levels(e, c)[n]}
    BY <1>1 DEF AreLevels
  <2>2. Levels(e, d)[n + 1] = UNION {Operands(x) : x \in Levels(e, d)[n]}
    BY <1>1 DEF AreLevels
  <2> QED BY <1>3, <2>1, <2>2
<1> QED
  <2> HIDE DEF Good
  <2>1. \A n \in Nat : n \in Good
    BY <1>2, <1>3, FromNumberToNumber
  <2> QED BY <2>1 DEF Good

\* A level is made of the operands of the one above.
LEMMA LevelFacts ==
  ASSUME NEW e
  PROVE  /\ LevelOf(e, 0) = {e}
         /\ \A n \in Nat : LevelOf(e, n + 1) = UNION {Operands(x) : x \in LevelOf(e, n)}
         /\ \A d, n \in Nat : n <= d => Levels(e, d)[n] = LevelOf(e, n)
<1>1. LevelOf(e, 0) = {e}
  <2>1. AreLevels(Levels(e, 0), e, 0)
    BY LevelsExist
  <2> QED BY <2>1 DEF AreLevels, LevelOf
<1>2. ASSUME NEW d \in Nat, NEW n \in Nat, n <= d
      PROVE  Levels(e, d)[n] = LevelOf(e, n)
  BY <1>2, LevelsAgree DEF LevelOf
<1>3. ASSUME NEW n \in Nat
      PROVE  LevelOf(e, n + 1) = UNION {Operands(x) : x \in LevelOf(e, n)}
  <2>1. AreLevels(Levels(e, n + 1), e, n + 1)
    BY LevelsExist
  <2>2. Levels(e, n + 1)[n + 1] = UNION {Operands(x) : x \in Levels(e, n + 1)[n]}
    BY <2>1 DEF AreLevels
  <2>3. Levels(e, n + 1)[n] = LevelOf(e, n)
    BY <1>2
  <2> QED BY <2>2, <2>3 DEF LevelOf
<1> QED BY <1>1, <1>2, <1>3

\* What is n + 1 levels below an expression is n below one of its operands.
LEMMA LevelBelow ==
  ASSUME NEW e
  PROVE  \A n \in Nat : LevelOf(e, n + 1) = UNION {LevelOf(x, n) : x \in Operands(e)}
<1> DEFINE Good == {n \in Nat : LevelOf(e, n + 1) = UNION {LevelOf(x, n) : x \in Operands(e)}}
<1>1. 0 \in Good
  <2>1. LevelOf(e, 0 + 1) = Operands(e)
    <3>1. LevelOf(e, 0 + 1) = UNION {Operands(x) : x \in LevelOf(e, 0)}
      BY LevelFacts
    <3>2. LevelOf(e, 0) = {e}
      BY LevelFacts
    <3>3. UNION {Operands(x) : x \in {e}} = Operands(e)
      OBVIOUS
    <3> QED BY <3>1, <3>2, <3>3
  <2>2. \A x : LevelOf(x, 0) = {x}
    BY LevelFacts
  <2>3. UNION {LevelOf(x, 0) : x \in Operands(e)} = Operands(e)
    BY <2>2
  <2>4. LevelOf(e, 0 + 1) = UNION {LevelOf(x, 0) : x \in Operands(e)}
    BY <2>1, <2>3
  <2> QED BY <2>4
<1>2. ASSUME NEW n \in Nat, n \in Good PROVE n + 1 \in Good
  <2>1. LevelOf(e, (n + 1) + 1) = UNION {Operands(y) : y \in LevelOf(e, n + 1)}
    BY LevelFacts
  <2>2. \A x : LevelOf(x, n + 1) = UNION {Operands(y) : y \in LevelOf(x, n)}
    BY LevelFacts
  <2>3. LevelOf(e, n + 1) = UNION {LevelOf(x, n) : x \in Operands(e)}
    BY <1>2
  <2>4. ASSUME NEW z
        PROVE  z \in LevelOf(e, (n + 1) + 1) <=> \E x \in Operands(e) : z \in LevelOf(x, n + 1)
    <3>1. z \in LevelOf(e, (n + 1) + 1) <=> \E y \in LevelOf(e, n + 1) : z \in Operands(y)
      BY <2>1
    <3>2. \A y : y \in LevelOf(e, n + 1) <=> \E x \in Operands(e) : y \in LevelOf(x, n)
      BY <2>3
    <3>3. \A x : z \in LevelOf(x, n + 1) <=> \E y \in LevelOf(x, n) : z \in Operands(y)
      BY <2>2
    <3> QED BY <3>1, <3>2, <3>3
  <2> QED BY <2>4
<1> QED
  <2> HIDE DEF Good
  <2>1. \A n \in Nat : n \in Good
    BY <1>1, <1>2, FromNumberToNumber
  <2> QED BY <2>1 DEF Good

\* An expression nests one level deeper than its operands.
LEMMA NestingFacts ==
  ASSUME NEW e
  PROVE  /\ NestsWithin(e, 0) <=> Operands(e) = {}
         /\ \A n \in Nat : NestsWithin(e, n + 1) <=> \A x \in Operands(e) : NestsWithin(x, n)
<1>1. \A x : \A n \in Nat :
        NestsWithin(x, n) <=> \A y \in LevelOf(x, n) : Operands(y) = {}
  BY DEF NestsWithin, LevelOf
<1>2. NestsWithin(e, 0) <=> Operands(e) = {}
  BY <1>1, LevelFacts
<1>3. ASSUME NEW n \in Nat
      PROVE  NestsWithin(e, n + 1) <=> \A x \in Operands(e) : NestsWithin(x, n)
  <2>1. \A y : y \in LevelOf(e, n + 1) <=> \E x \in Operands(e) : y \in LevelOf(x, n)
    BY LevelBelow
  <2>2. NestsWithin(e, n + 1) <=> \A y \in LevelOf(e, n + 1) : Operands(y) = {}
    BY <1>1
  <2> QED BY <1>1, <2>1, <2>2
<1> QED BY <1>2, <1>3

\* What nests within some levels nests within one more.
LEMMA DeeperNesting ==
  \A n \in Nat : \A e : NestsWithin(e, n) => NestsWithin(e, n + 1)
<1> DEFINE Good == {n \in Nat : \A e : NestsWithin(e, n) => NestsWithin(e, n + 1)}
<1>1. 0 \in Good
  <2>1. \A e : NestsWithin(e, 0) => NestsWithin(e, 0 + 1)
    <3> TAKE e
    <3>1. NestsWithin(e, 0) => Operands(e) = {}
      BY NestingFacts
    <3>2. NestsWithin(e, 0 + 1) <=> \A x \in Operands(e) : NestsWithin(x, 0)
      BY NestingFacts
    <3> QED BY <3>1, <3>2
  <2> QED BY <2>1
<1>2. ASSUME NEW n \in Nat, n \in Good PROVE n + 1 \in Good
  <2> SUFFICES ASSUME NEW e, NestsWithin(e, n + 1) PROVE NestsWithin(e, (n + 1) + 1)
    OBVIOUS
  <2>1. \A x \in Operands(e) : NestsWithin(x, n)
    BY NestingFacts
  <2>2. \A x \in Operands(e) : NestsWithin(x, n + 1)
    BY <1>2, <2>1
  <2> QED BY <2>2, NestingFacts
<1> QED
  <2> HIDE DEF Good
  <2>1. \A n \in Nat : n \in Good
    BY <1>1, <1>2, FromNumberToNumber
  <2> QED BY <2>1 DEF Good

\* The compiler's limit on the depth of an expression.
WellNested(e) == NestsWithin(e, MaxDepth)

\* The operands of an expression within the limit are within it.
LEMMA OperandsNest ==
  ASSUME NEW e, WellNested(e), NEW x \in Operands(e)
  PROVE  NestsWithin(x, MaxDepth - 1) /\ WellNested(x)
<1>1. MaxDepth - 1 \in Nat /\ (MaxDepth - 1) + 1 = MaxDepth
  BY DEF MaxDepth
<1>2. NestsWithin(x, MaxDepth - 1)
  BY <1>1, NestingFacts DEF WellNested
<1> QED BY <1>1, <1>2, DeeperNesting DEF WellNested

\* The parts of an expression are what its levels have, itself included.
LEMMA PartFacts ==
  ASSUME NEW e
  PROVE  /\ \A y : y \in Parts(e) <=> \E n \in 0 .. MaxDepth : y \in LevelOf(e, n)
         /\ e \in Parts(e)
<1>1. \A n \in 0 .. MaxDepth : Levels(e, MaxDepth)[n] = LevelOf(e, n)
  <2>1. MaxDepth \in Nat
    BY DEF MaxDepth
  <2> QED BY <2>1, LevelFacts
<1>2. \A y : y \in Parts(e) <=> \E n \in 0 .. MaxDepth : y \in LevelOf(e, n)
  BY <1>1 DEF Parts
<1>3. e \in LevelOf(e, 0) /\ 0 \in 0 .. MaxDepth
  BY LevelFacts DEF MaxDepth
<1> QED BY <1>2, <1>3

\* The parts of an operand are parts of the expression.
LEMMA PartsOfOperands ==
  ASSUME NEW e, WellNested(e), NEW x \in Operands(e)
  PROVE  Parts(x) \subseteq Parts(e)
<1> SUFFICES ASSUME NEW y \in Parts(x) PROVE y \in Parts(e)
  OBVIOUS
<1>1. PICK n \in 0 .. MaxDepth : y \in LevelOf(x, n)
  BY PartFacts
<1>2. n \in Nat /\ MaxDepth \in Nat
  BY DEF MaxDepth
<1>3. n # MaxDepth
  <2> SUFFICES ASSUME n = MaxDepth PROVE FALSE
    OBVIOUS
  <2>1. MaxDepth - 1 \in Nat /\ (MaxDepth - 1) + 1 = MaxDepth
    BY DEF MaxDepth
  <2>2. \A z \in LevelOf(x, MaxDepth - 1) : Operands(z) = {}
    BY OperandsNest DEF NestsWithin, LevelOf
  <2>3. LevelOf(x, (MaxDepth - 1) + 1) = UNION {Operands(z) : z \in LevelOf(x, MaxDepth - 1)}
    BY <2>1, LevelFacts
  <2> QED BY <1>1, <2>1, <2>2, <2>3
<1>4. y \in LevelOf(e, n + 1)
  BY <1>1, <1>2, LevelBelow
<1>5. n + 1 \in 0 .. MaxDepth
  BY <1>2, <1>3
<1> QED BY <1>4, <1>5, PartFacts

\* A set of expressions that are nested no deeper than the compiler allows,
\* with all that they are made of.
Closed(S) == \A x \in S : WellNested(x) /\ Operands(x) \subseteq S

\* What an expression has if its operands have it, all expressions have: a least
\* depth at which it fails would be that of an expression whose operands have it.
LEMMA ExpressionInduction ==
  ASSUME NEW S, Closed(S), NEW G,
         \A x \in S : Operands(x) \subseteq G => x \in G
  PROVE  S \subseteq G
<1> DEFINE Good == {n \in Nat : \A x \in S : NestsWithin(x, n) => x \in G}
<1>1. 0 \in Good
  <2>1. \A x \in S : NestsWithin(x, 0) => x \in G
    BY NestingFacts
  <2> QED BY <2>1
<1>2. ASSUME NEW n \in Nat, n \in Good PROVE n + 1 \in Good
  <2> SUFFICES ASSUME NEW x \in S, NestsWithin(x, n + 1) PROVE x \in G
    OBVIOUS
  <2>1. \A y \in Operands(x) : NestsWithin(y, n) /\ y \in S
    BY NestingFacts DEF Closed
  <2> QED BY <1>2, <2>1
<1>3. MaxDepth \in Good
  <2> HIDE DEF Good
  <2>1. MaxDepth \in Nat
    BY DEF MaxDepth
  <2> QED BY <1>1, <1>2, <2>1, FromNumberToNumber
<1> QED BY <1>3 DEF Closed, WellNested

\* With an expression come its operands, to the last.
LEMMA PartsAreClosed ==
  ASSUME NEW e, WellNested(e)
  PROVE  Closed(Parts(e))
<1> DEFINE Good == {n \in Nat : \A x \in LevelOf(e, n) : WellNested(x)}
<1>1. 0 \in Good
  <2>1. \A x \in LevelOf(e, 0) : WellNested(x)
    BY LevelFacts
  <2> QED BY <2>1
<1>2. ASSUME NEW n \in Nat, n \in Good PROVE n + 1 \in Good
  <2> SUFFICES ASSUME NEW x \in LevelOf(e, n + 1) PROVE WellNested(x)
    OBVIOUS
  <2>1. LevelOf(e, n + 1) = UNION {Operands(y) : y \in LevelOf(e, n)}
    BY LevelFacts
  <2>2. PICK y \in LevelOf(e, n) : x \in Operands(y)
    BY <2>1
  <2>3. WellNested(y)
    BY <1>2, <2>2
  <2> QED BY <2>2, <2>3, OperandsNest
<1>3. \A n \in Nat : \A x \in LevelOf(e, n) : WellNested(x)
  <2> HIDE DEF Good
  <2>1. \A n \in Nat : n \in Good
    BY <1>1, <1>2, FromNumberToNumber
  <2> QED BY <2>1 DEF Good
<1>4. ASSUME NEW x \in Parts(e) PROVE WellNested(x) /\ Operands(x) \subseteq Parts(e)
  <2>1. PICK n \in 0 .. MaxDepth : x \in LevelOf(e, n)
    BY PartFacts
  <2>2. n \in Nat /\ MaxDepth \in Nat
    BY DEF MaxDepth
  <2>3. WellNested(x)
    BY <1>3, <2>1, <2>2
  <2>4. CASE n = MaxDepth
    <3>1. Operands(x) = {}
      BY <2>1, <2>4 DEF WellNested, NestsWithin, LevelOf
    <3> QED BY <2>3, <3>1
  <2>5. CASE n # MaxDepth
    <3>1. Operands(x) \subseteq LevelOf(e, n + 1)
      BY <2>1, <2>2, LevelFacts
    <3>2. n + 1 \in 0 .. MaxDepth
      BY <2>2, <2>5
    <3> QED BY <2>3, <3>1, <3>2, PartFacts
  <2> QED BY <2>4, <2>5
<1> QED BY <1>4 DEF Closed

-----------------------------------------------------------------------------
\* One expression, when F gives the types of its inputs.
Infers(x, F, shape) ==
  CASE x.op = "field" -> IF x.field \in DOMAIN shape THEN shape[x.field] ELSE Invalid
    [] x.op = "literal" -> Field(x.valueType, x.value = None)
    [] OTHER ->
         LET inputs == [i \in DOMAIN x.inputs |-> F[x.inputs[i]]]
         IN  IF \E i \in DOMAIN inputs : inputs[i] = Invalid THEN Invalid
             ELSE InferOperation(x.op, inputs)

\* The type of an expression depends on those of its operands only.
LEMMA InfersStepIsLocal ==
  ASSUME NEW x, NEW F, NEW G, NEW shape, \A y \in Operands(x) : F[y] = G[y]
  PROVE  Infers(x, F, shape) = Infers(x, G, shape)
<1>1. CASE x.op \in {"field", "literal"}
  BY <1>1 DEF Infers
<1>2. CASE x.op \notin {"field", "literal"}
  <2>1. \A i \in DOMAIN x.inputs : F[x.inputs[i]] = G[x.inputs[i]]
    BY <1>2 DEF Operands
  <2>2. [i \in DOMAIN x.inputs |-> F[x.inputs[i]]] = [i \in DOMAIN x.inputs |-> G[x.inputs[i]]]
    BY <2>1
  <2> QED BY <1>2, <2>2 DEF Infers
<1> QED BY <1>1, <1>2

\* A function that obeys the recursion on the expressions of a set.
InfersTable(F, S, shape) == F = [x \in S |-> Infers(x, F, shape)]

\* There is a function that obeys the recursion of InferExpression.
LEMMA InfersTableExists ==
  ASSUME NEW S, Closed(S), NEW shape
  PROVE  \E F : InfersTable(F, S, shape)
<1> DEFINE D(n) == {x \in S : NestsWithin(x, n)}
           Good == {n \in Nat : \E F : InfersTable(F, D(n), shape)}
<1>1. ASSUME NEW n \in Nat, NEW g, NEW E,
             E = {x \in S : Operands(x) = {}} \/ (n \in Nat /\ InfersTable(g, D(n), shape) /\ E = D(n + 1)),
             \A x \in E : \A y \in Operands(x) : y \in E /\ g[y] = Infers(y, g, shape)
      PROVE  \E F : InfersTable(F, E, shape)
  <2> DEFINE h == [x \in E |-> Infers(x, g, shape)]
  <2>1. h = [x \in E |-> h[x]] /\ \A x \in E : h[x] = Infers(x, g, shape)
    OBVIOUS
  <2> HIDE DEF h
  <2>2. ASSUME NEW x \in E PROVE h[x] = Infers(x, h, shape)
    <3>1. \A y \in Operands(x) : h[y] = g[y]
      BY <1>1, <2>1
    <3>2. Infers(x, h, shape) = Infers(x, g, shape)
      BY <3>1, InfersStepIsLocal
    <3> QED BY <2>1, <3>2
  <2>3. h = [x \in E |-> Infers(x, h, shape)]
    BY <2>1, <2>2
  <2> QED BY <2>3 DEF InfersTable
<1>2. 0 \in Good
  <2>1. D(0) = {x \in S : Operands(x) = {}}
    BY NestingFacts
  <2>2. PICK g : g = 0
    OBVIOUS
  <2>3. \A x \in D(0) : \A y \in Operands(x) : y \in D(0) /\ g[y] = Infers(y, g, shape)
    BY <2>1
  <2>4. \E F : InfersTable(F, D(0), shape)
    <3> HIDE DEF D
    <3> QED BY <1>1, <2>1, <2>3
  <2> QED BY <2>4
<1>3. ASSUME NEW n \in Nat, n \in Good PROVE n + 1 \in Good
  <2>1. PICK g : InfersTable(g, D(n), shape)
    BY <1>3
  <2>2. \A x \in D(n + 1) : \A y \in Operands(x) : y \in D(n) /\ y \in D(n + 1)
    BY NestingFacts, DeeperNesting DEF Closed
  <2> HIDE DEF D
  <2>3. \A y \in D(n) : g[y] = Infers(y, g, shape)
    BY <2>1 DEF InfersTable
  <2>4. \E F : InfersTable(F, D(n + 1), shape)
    BY <1>1, <2>1, <2>2, <2>3
  <2> QED BY <2>4
<1>4. MaxDepth \in Good
  <2> HIDE DEF Good
  <2>1. MaxDepth \in Nat
    BY DEF MaxDepth
  <2> QED BY <1>2, <1>3, <2>1, FromNumberToNumber
<1>5. D(MaxDepth) = S
  BY DEF Closed, WellNested
<1> QED BY <1>4, <1>5

\* There is no other.
LEMMA InfersTablesAgree ==
  ASSUME NEW S, NEW T, Closed(S), S \subseteq T, NEW shape, NEW F, NEW G,
         InfersTable(F, S, shape), InfersTable(G, T, shape)
  PROVE  \A x \in S : F[x] = G[x]
<1> DEFINE Same == {x \in S : F[x] = G[x]}
<1>1. ASSUME NEW x \in S, Operands(x) \subseteq Same PROVE x \in Same
  <2>1. Infers(x, F, shape) = Infers(x, G, shape)
    BY <1>1, InfersStepIsLocal
  <2>2. F[x] = Infers(x, F, shape) /\ G[x] = Infers(x, G, shape)
    BY DEF InfersTable
  <2> QED BY <2>1, <2>2
<1>2. S \subseteq Same
  <2> HIDE DEF Same
  <2> QED BY <1>1, ExpressionInduction
<1> QED BY <1>2

\* InferExpression follows the recursion of the code: the type of an operation is
\* that of its operands' types.
LEMMA InferenceIsRecursive ==
  ASSUME NEW e, WellNested(e), NEW shape
  PROVE  InferExpression(e, shape) =
    CASE e.op = "field" -> IF e.field \in DOMAIN shape THEN shape[e.field] ELSE Invalid
      [] e.op = "literal" -> Field(e.valueType, e.value = None)
      [] OTHER ->
           LET inputs == [i \in DOMAIN e.inputs |-> InferExpression(e.inputs[i], shape)]
           IN  IF \E i \in DOMAIN inputs : inputs[i] = Invalid THEN Invalid
               ELSE InferOperation(e.op, inputs)
<1> DEFINE T(x) == CHOOSE F : InfersTable(F, Parts(x), shape)
<1>1. ASSUME NEW x, WellNested(x)
      PROVE  InfersTable(T(x), Parts(x), shape) /\ InferExpression(x, shape) = T(x)[x]
  <2>1. \E F : InfersTable(F, Parts(x), shape)
    BY <1>1, PartsAreClosed, InfersTableExists
  <2>2. InferExpression(x, shape) = T(x)[x]
    BY DEF InferExpression, InfersTable, Infers
  <2> QED BY <2>1, <2>2
<1>2. InfersTable(T(e), Parts(e), shape) /\ InferExpression(e, shape) = T(e)[e]
  BY <1>1
<1>3. ASSUME NEW x \in Operands(e) PROVE T(e)[x] = InferExpression(x, shape)
  <2>1. WellNested(x)
    BY OperandsNest
  <2>2. InfersTable(T(x), Parts(x), shape) /\ InferExpression(x, shape) = T(x)[x]
    BY <1>1, <2>1
  <2>3. x \in Parts(x) /\ Parts(x) \subseteq Parts(e) /\ Closed(Parts(x))
    BY <2>1, PartFacts, PartsOfOperands, PartsAreClosed
  <2> HIDE DEF T
  <2>4. \A y \in Parts(x) : T(x)[y] = T(e)[y]
    BY <1>2, <2>2, <2>3, InfersTablesAgree
  <2> QED BY <2>2, <2>3, <2>4
<1> HIDE DEF T
<1>4. T(e)[e] = Infers(e, T(e), shape)
  <2>1. e \in Parts(e)
    BY PartFacts
  <2> QED BY <1>2, <2>1 DEF InfersTable
<1>5. CASE e.op \in {"field", "literal"}
  BY <1>2, <1>4, <1>5 DEF Infers
<1>6. CASE e.op \notin {"field", "literal"}
  <2>1. \A i \in DOMAIN e.inputs : T(e)[e.inputs[i]] = InferExpression(e.inputs[i], shape)
    BY <1>3, <1>6 DEF Operands
  <2>2. [i \in DOMAIN e.inputs |-> T(e)[e.inputs[i]]]
          = [i \in DOMAIN e.inputs |-> InferExpression(e.inputs[i], shape)]
    BY <2>1
  <2> QED BY <1>2, <1>4, <1>6, <2>2 DEF Infers
<1> QED BY <1>5, <1>6

-----------------------------------------------------------------------------
\* One expression, when F gives the values of its inputs.
Yields(x, F, row, shape) ==
  CASE x.op = "field" -> IF x.field \in DOMAIN row THEN row[x.field] ELSE Throws
    [] x.op = "literal" -> x.value
    [] OTHER -> Operate(x.op, [i \in DOMAIN x.inputs |-> F[x.inputs[i]]],
                        [i \in DOMAIN x.inputs |-> InferExpression(x.inputs[i], shape)])

\* The value of an expression depends on those of its operands only.
LEMMA YieldsStepIsLocal ==
  ASSUME NEW x, NEW F, NEW G, NEW row, NEW shape, \A y \in Operands(x) : F[y] = G[y]
  PROVE  Yields(x, F, row, shape) = Yields(x, G, row, shape)
<1>1. CASE x.op \in {"field", "literal"}
  BY <1>1 DEF Yields
<1>2. CASE x.op \notin {"field", "literal"}
  <2>1. \A i \in DOMAIN x.inputs : F[x.inputs[i]] = G[x.inputs[i]]
    BY <1>2 DEF Operands
  <2>2. [i \in DOMAIN x.inputs |-> F[x.inputs[i]]] = [i \in DOMAIN x.inputs |-> G[x.inputs[i]]]
    BY <2>1
  <2> QED BY <1>2, <2>2 DEF Yields
<1> QED BY <1>1, <1>2

\* A function that obeys the recursion on the expressions of a set.
YieldsTable(F, S, row, shape) == F = [x \in S |-> Yields(x, F, row, shape)]

\* There is a function that obeys the recursion of Evaluate.
LEMMA YieldsTableExists ==
  ASSUME NEW S, Closed(S), NEW row, NEW shape
  PROVE  \E F : YieldsTable(F, S, row, shape)
<1> DEFINE D(n) == {x \in S : NestsWithin(x, n)}
           Good == {n \in Nat : \E F : YieldsTable(F, D(n), row, shape)}
<1>1. ASSUME NEW n \in Nat, NEW g, NEW E,
             E = {x \in S : Operands(x) = {}} \/ (n \in Nat /\ YieldsTable(g, D(n), row, shape) /\ E = D(n + 1)),
             \A x \in E : \A y \in Operands(x) : y \in E /\ g[y] = Yields(y, g, row, shape)
      PROVE  \E F : YieldsTable(F, E, row, shape)
  <2> DEFINE h == [x \in E |-> Yields(x, g, row, shape)]
  <2>1. h = [x \in E |-> h[x]] /\ \A x \in E : h[x] = Yields(x, g, row, shape)
    OBVIOUS
  <2> HIDE DEF h
  <2>2. ASSUME NEW x \in E PROVE h[x] = Yields(x, h, row, shape)
    <3>1. \A y \in Operands(x) : h[y] = g[y]
      BY <1>1, <2>1
    <3>2. Yields(x, h, row, shape) = Yields(x, g, row, shape)
      BY <3>1, YieldsStepIsLocal
    <3> QED BY <2>1, <3>2
  <2>3. h = [x \in E |-> Yields(x, h, row, shape)]
    BY <2>1, <2>2
  <2> QED BY <2>3 DEF YieldsTable
<1>2. 0 \in Good
  <2>1. D(0) = {x \in S : Operands(x) = {}}
    BY NestingFacts
  <2>2. PICK g : g = 0
    OBVIOUS
  <2>3. \A x \in D(0) : \A y \in Operands(x) : y \in D(0) /\ g[y] = Yields(y, g, row, shape)
    BY <2>1
  <2>4. \E F : YieldsTable(F, D(0), row, shape)
    <3> HIDE DEF D
    <3> QED BY <1>1, <2>1, <2>3
  <2> QED BY <2>4
<1>3. ASSUME NEW n \in Nat, n \in Good PROVE n + 1 \in Good
  <2>1. PICK g : YieldsTable(g, D(n), row, shape)
    BY <1>3
  <2>2. \A x \in D(n + 1) : \A y \in Operands(x) : y \in D(n) /\ y \in D(n + 1)
    BY NestingFacts, DeeperNesting DEF Closed
  <2> HIDE DEF D
  <2>3. \A y \in D(n) : g[y] = Yields(y, g, row, shape)
    BY <2>1 DEF YieldsTable
  <2>4. \E F : YieldsTable(F, D(n + 1), row, shape)
    BY <1>1, <2>1, <2>2, <2>3
  <2> QED BY <2>4
<1>4. MaxDepth \in Good
  <2> HIDE DEF Good
  <2>1. MaxDepth \in Nat
    BY DEF MaxDepth
  <2> QED BY <1>2, <1>3, <2>1, FromNumberToNumber
<1>5. D(MaxDepth) = S
  BY DEF Closed, WellNested
<1> QED BY <1>4, <1>5

\* There is no other.
LEMMA YieldsTablesAgree ==
  ASSUME NEW S, NEW T, Closed(S), S \subseteq T, NEW row, NEW shape, NEW F, NEW G,
         YieldsTable(F, S, row, shape), YieldsTable(G, T, row, shape)
  PROVE  \A x \in S : F[x] = G[x]
<1> DEFINE Same == {x \in S : F[x] = G[x]}
<1>1. ASSUME NEW x \in S, Operands(x) \subseteq Same PROVE x \in Same
  <2>1. Yields(x, F, row, shape) = Yields(x, G, row, shape)
    BY <1>1, YieldsStepIsLocal
  <2>2. F[x] = Yields(x, F, row, shape) /\ G[x] = Yields(x, G, row, shape)
    BY DEF YieldsTable
  <2> QED BY <2>1, <2>2
<1>2. S \subseteq Same
  <2> HIDE DEF Same
  <2> QED BY <1>1, ExpressionInduction
<1> QED BY <1>2

\* Evaluate follows the recursion of the code: the value of an operation is what
\* the operator makes of the values and the types of its operands.
LEMMA EvaluationIsRecursive ==
  ASSUME NEW e, WellNested(e), NEW row, NEW shape
  PROVE  Evaluate(e, row, shape) =
    CASE e.op = "field" -> IF e.field \in DOMAIN row THEN row[e.field] ELSE Throws
      [] e.op = "literal" -> e.value
      [] OTHER -> Operate(e.op, [i \in DOMAIN e.inputs |-> Evaluate(e.inputs[i], row, shape)],
                          [i \in DOMAIN e.inputs |-> InferExpression(e.inputs[i], shape)])
<1> DEFINE T(x) == CHOOSE F : YieldsTable(F, Parts(x), row, shape)
<1>1. ASSUME NEW x, WellNested(x)
      PROVE  YieldsTable(T(x), Parts(x), row, shape) /\ Evaluate(x, row, shape) = T(x)[x]
  <2>1. \E F : YieldsTable(F, Parts(x), row, shape)
    BY <1>1, PartsAreClosed, YieldsTableExists
  <2>2. Evaluate(x, row, shape) = T(x)[x]
    BY DEF Evaluate, YieldsTable, Yields
  <2> QED BY <2>1, <2>2
<1>2. YieldsTable(T(e), Parts(e), row, shape) /\ Evaluate(e, row, shape) = T(e)[e]
  BY <1>1
<1>3. ASSUME NEW x \in Operands(e) PROVE T(e)[x] = Evaluate(x, row, shape)
  <2>1. WellNested(x)
    BY OperandsNest
  <2>2. YieldsTable(T(x), Parts(x), row, shape) /\ Evaluate(x, row, shape) = T(x)[x]
    BY <1>1, <2>1
  <2>3. x \in Parts(x) /\ Parts(x) \subseteq Parts(e) /\ Closed(Parts(x))
    BY <2>1, PartFacts, PartsOfOperands, PartsAreClosed
  <2> HIDE DEF T
  <2>4. \A y \in Parts(x) : T(x)[y] = T(e)[y]
    BY <1>2, <2>2, <2>3, YieldsTablesAgree
  <2> QED BY <2>2, <2>3, <2>4
<1> HIDE DEF T
<1>4. T(e)[e] = Yields(e, T(e), row, shape)
  <2>1. e \in Parts(e)
    BY PartFacts
  <2> QED BY <1>2, <2>1 DEF YieldsTable
<1>5. CASE e.op \in {"field", "literal"}
  BY <1>2, <1>4, <1>5 DEF Yields
<1>6. CASE e.op \notin {"field", "literal"}
  <2>1. \A i \in DOMAIN e.inputs : T(e)[e.inputs[i]] = Evaluate(e.inputs[i], row, shape)
    BY <1>3, <1>6 DEF Operands
  <2>2. [i \in DOMAIN e.inputs |-> T(e)[e.inputs[i]]]
          = [i \in DOMAIN e.inputs |-> Evaluate(e.inputs[i], row, shape)]
    BY <2>1
  <2> QED BY <1>2, <1>4, <1>6, <2>2 DEF Yields
<1> QED BY <1>5, <1>6

-----------------------------------------------------------------------------
(* Finite sets in an order, and lists picked from lists *)

\* B gives every element of a finite set those before it in a strict order.
OrdersBefore(B, S) ==
  /\ B \in [S -> SUBSET S]
  /\ \A x \in S : x \notin B[x]
  /\ \A x \in S : \A y \in B[x] : B[y] \subseteq B[x]
  /\ \A x, y \in S : x # y => x \in B[y] \/ y \in B[x]

\* In a strict order of a finite set each rank is that of exactly one element.
LEMMA RanksAreTaken ==
  ASSUME NEW S, IsFiniteSet(S), NEW B, OrdersBefore(B, S)
  PROVE  /\ Cardinality(S) \in Nat
         /\ \A n \in 1 .. Cardinality(S) : \E x \in S : Cardinality(B[x]) = n - 1
         /\ \A x, y \in S : Cardinality(B[x]) = Cardinality(B[y]) => x = y
         /\ \A x \in S : Cardinality(B[x]) \in 0 .. Cardinality(S) - 1
<1>1. Cardinality(S) \in Nat
  BY FS_CardinalityType
<1>2. ASSUME NEW x \in S PROVE IsFiniteSet(B[x]) /\ Cardinality(B[x]) \in 0 .. Cardinality(S) - 1
  <2>1. IsFiniteSet(S \ {x}) /\ Cardinality(S \ {x}) = Cardinality(S) - 1
    BY FS_RemoveElement
  <2>2. B[x] \in SUBSET (S \ {x})
    BY DEF OrdersBefore
  <2>3. IsFiniteSet(B[x]) /\ Cardinality(B[x]) <= Cardinality(S \ {x})
    BY <2>1, <2>2, FS_Subset
  <2>4. Cardinality(B[x]) \in Nat
    BY <2>3, FS_CardinalityType
  <2> QED BY <1>1, <2>1, <2>3, <2>4
<1>3. ASSUME NEW x \in S, NEW y \in S, y \in B[x] PROVE Cardinality(B[y]) < Cardinality(B[x])
  <2>1. B[y] \in SUBSET B[x] /\ B[y] # B[x]
    BY <1>3 DEF OrdersBefore
  <2>2. Cardinality(B[y]) <= Cardinality(B[x]) /\ Cardinality(B[y]) # Cardinality(B[x])
    BY <1>2, <2>1, FS_Subset
  <2> QED BY <1>1, <1>2, <2>2
<1>4. ASSUME NEW x \in S, NEW y \in S, Cardinality(B[x]) = Cardinality(B[y]) PROVE x = y
  <2> SUFFICES ASSUME x # y PROVE FALSE
    OBVIOUS
  <2>1. x \in B[y] \/ y \in B[x]
    BY DEF OrdersBefore
  <2>2. Cardinality(B[x]) < Cardinality(B[y]) \/ Cardinality(B[y]) < Cardinality(B[x])
    BY <1>3, <2>1
  <2> QED BY <1>1, <1>2, <1>4, <2>2
<1> DEFINE rank == [x \in S |-> Cardinality(B[x]) + 1]
           places == 1 .. Cardinality(S)
<1>5. rank \in Injection(S, places)
  <2>1. rank \in [S -> places]
    BY <1>1, <1>2
  <2>2. \A x, y \in S : rank[x] = rank[y] => x = y
    BY <1>1, <1>2, <1>4
  <2> HIDE DEF rank, places
  <2> QED BY <2>1, <2>2, Fun_IsInj
<1>6. IsFiniteSet(places) /\ Cardinality(places) = Cardinality(S)
  BY <1>1, FS_Interval
<1>7. rank \in Surjection(S, places)
  <2> HIDE DEF rank
  <2> QED BY <1>5, <1>6, FS_Injection
<1>8. ASSUME NEW n \in 1 .. Cardinality(S) PROVE \E x \in S : Cardinality(B[x]) = n - 1
  <2>1. PICK x \in S : rank[x] = n
    <3>1. \A m \in places : \E x \in S : rank[x] = m
      <4> HIDE DEF rank, places
      <4> QED BY <1>7, Fun_SurjectionProperties
    <3> QED BY <3>1
  <2> QED BY <1>1, <1>2, <2>1
<1> QED BY <1>1, <1>2, <1>4, <1>8

\* A function on 1 .. n is a sequence of length n.
LEMMA FunctionIsSequence ==
  ASSUME NEW D, NEW n \in Nat, NEW f \in [1 .. n -> D]
  PROVE  f \in Seq(D) /\ Len(f) = n /\ DOMAIN f = 1 .. n
OBVIOUS

-----------------------------------------------------------------------------
\* The place that is the nth of some places.
Nth(places, n) == CHOOSE i \in places : Cardinality({j \in places : j < i}) = n - 1

\* Each of some places is the nth of them for one n, and they ascend.
LEMMA PlacesInOrder ==
  ASSUME NEW places \in SUBSET Nat, IsFiniteSet(places)
  PROVE  /\ Cardinality(places) \in Nat
         /\ \A n \in 1 .. Cardinality(places) : Nth(places, n) \in places
         /\ \A i \in places : \E n \in 1 .. Cardinality(places) : Nth(places, n) = i
         /\ \A m, n \in 1 .. Cardinality(places) : m < n => Nth(places, m) < Nth(places, n)
<1> DEFINE B == [i \in places |-> {j \in places : j < i}]
<1>2. B \in [places -> SUBSET places] /\ \A i \in places : B[i] = {j \in places : j < i}
  OBVIOUS
<1>0. \A i \in places : \A k : k \in B[i] <=> k \in places /\ k < i
  OBVIOUS
<1> HIDE DEF B
<1>1. OrdersBefore(B, places)
  <2>1. \A i \in places : i \notin B[i]
    BY <1>0
  <2>2. ASSUME NEW i \in places, NEW j \in B[i], NEW k \in B[j] PROVE k \in B[i]
    <3>1. j \in places /\ k \in places /\ k < j /\ j < i
      BY <1>0, <1>2
    <3>2. i \in Nat /\ j \in Nat /\ k \in Nat
      BY <3>1
    <3>3. k < i
      BY <3>1, <3>2
    <3> QED BY <1>0, <3>1, <3>3
  <2>3. \A i, j \in places : i # j => i \in B[j] \/ j \in B[i]
    BY <1>0
  <2> QED BY <1>2, <2>1, <2>2, <2>3 DEF OrdersBefore
<1>3. /\ Cardinality(places) \in Nat
      /\ \A n \in 1 .. Cardinality(places) : \E i \in places : Cardinality(B[i]) = n - 1
      /\ \A i, j \in places : Cardinality(B[i]) = Cardinality(B[j]) => i = j
      /\ \A i \in places : Cardinality(B[i]) \in 0 .. Cardinality(places) - 1
  BY <1>1, RanksAreTaken
<1>4. ASSUME NEW n \in 1 .. Cardinality(places)
      PROVE  Nth(places, n) \in places /\ Cardinality(B[Nth(places, n)]) = n - 1
  <2>1. \E i \in places : Cardinality({j \in places : j < i}) = n - 1
    BY <1>2, <1>3
  <2>2. Nth(places, n) \in places /\ Cardinality({j \in places : j < Nth(places, n)}) = n - 1
    BY <2>1 DEF Nth
  <2> QED BY <1>2, <2>2
<1>5. ASSUME NEW i \in places PROVE \E n \in 1 .. Cardinality(places) : Nth(places, n) = i
  <2>1. Cardinality(B[i]) + 1 \in 1 .. Cardinality(places)
        /\ Cardinality(B[i]) = (Cardinality(B[i]) + 1) - 1
    BY <1>3
  <2>2. PICK n \in 1 .. Cardinality(places) : Cardinality(B[i]) = n - 1
    BY <2>1
  <2>3. Nth(places, n) \in places /\ Cardinality(B[Nth(places, n)]) = Cardinality(B[i])
    BY <1>4, <2>2
  <2>4. Nth(places, n) = i
    BY <1>3, <2>3
  <2> QED BY <2>4
<1>6. ASSUME NEW m \in 1 .. Cardinality(places), NEW n \in 1 .. Cardinality(places), m < n
      PROVE  Nth(places, m) < Nth(places, n)
  <2> DEFINE i == Nth(places, m)  j == Nth(places, n)
  <2>1. i \in places /\ j \in places /\ Cardinality(B[i]) = m - 1 /\ Cardinality(B[j]) = n - 1
    BY <1>4
  <2> HIDE DEF i, j
  <2> SUFFICES ASSUME ~(i < j) PROVE FALSE
    BY DEF i, j
  <2>2. i \in Nat /\ j \in Nat
    BY <2>1
  <2>3. B[j] \in SUBSET B[i]
    <3> SUFFICES ASSUME NEW k \in B[j] PROVE k \in B[i]
      OBVIOUS
    <3>1. k \in places /\ k < j
      BY <1>0, <2>1
    <3>2. k \in Nat
      BY <3>1
    <3>3. k < i
      BY <2>2, <3>1, <3>2
    <3> QED BY <1>0, <2>1, <3>1, <3>3
  <2>4. IsFiniteSet(B[i])
    BY <1>2, <2>1, FS_Subset
  <2>5. Cardinality(B[j]) <= Cardinality(B[i])
    BY <2>3, <2>4, FS_Subset
  <2> QED BY <1>3, <1>6, <2>1, <2>5
<1> QED BY <1>3, <1>4, <1>5, <1>6

\* Picking some places of a list keeps what is there, in its order.
LEMMA PickedFacts ==
  ASSUME NEW D, NEW list \in Seq(D), NEW places \in SUBSET DOMAIN list
  PROVE  /\ Picked(list, places) \in Seq(D)
         /\ Len(Picked(list, places)) = Cardinality(places)
         /\ Cardinality(places) \in Nat
         /\ \A n \in 1 .. Cardinality(places) :
              Nth(places, n) \in places /\ Picked(list, places)[n] = list[Nth(places, n)]
<1>1. places \in SUBSET Nat /\ IsFiniteSet(places)
  <2>1. Len(list) \in Nat /\ DOMAIN list = 1 .. Len(list)
    OBVIOUS
  <2>2. IsFiniteSet(1 .. Len(list))
    BY <2>1, FS_Interval
  <2> QED BY <2>1, <2>2, FS_Subset
<1>2. /\ Cardinality(places) \in Nat
      /\ \A n \in 1 .. Cardinality(places) : Nth(places, n) \in places
  BY <1>1, PlacesInOrder
<1>3. Picked(list, places) = [n \in 1 .. Cardinality(places) |-> list[Nth(places, n)]]
  BY DEF Picked, Nth
<1>4. \A n \in 1 .. Cardinality(places) : list[Nth(places, n)] \in D
  BY <1>2
<1>5. Picked(list, places) \in Seq(D) /\ Len(Picked(list, places)) = Cardinality(places)
  <2>1. Picked(list, places) \in [1 .. Cardinality(places) -> D]
    BY <1>3, <1>4
  <2> QED BY <1>2, <2>1, FunctionIsSequence
<1> QED BY <1>2, <1>3, <1>5

\* Nothing else is picked.
LEMMA PickedElements ==
  ASSUME NEW D, NEW list \in Seq(D), NEW places \in SUBSET DOMAIN list
  PROVE  ToSet(Picked(list, places)) = {list[i] : i \in places}
<1>1. /\ Picked(list, places) \in Seq(D)
      /\ Len(Picked(list, places)) = Cardinality(places)
      /\ Cardinality(places) \in Nat
      /\ \A n \in 1 .. Cardinality(places) :
           Nth(places, n) \in places /\ Picked(list, places)[n] = list[Nth(places, n)]
  BY PickedFacts
<1>2. \A i \in places : \E n \in 1 .. Cardinality(places) : Nth(places, n) = i
  <2>1. Len(list) \in Nat /\ DOMAIN list = 1 .. Len(list)
    OBVIOUS
  <2>2. IsFiniteSet(1 .. Len(list))
    BY <2>1, FS_Interval
  <2>3. places \in SUBSET Nat /\ IsFiniteSet(places)
    BY <2>1, <2>2, FS_Subset
  <2> QED BY <2>3, PlacesInOrder
<1>3. ToSet(Picked(list, places)) = {Picked(list, places)[n] : n \in 1 .. Cardinality(places)}
  BY <1>1 DEF ToSet
<1>4. ASSUME NEW x PROVE x \in ToSet(Picked(list, places)) <=> x \in {list[i] : i \in places}
  <2>1. x \in ToSet(Picked(list, places)) => \E i \in places : x = list[i]
    BY <1>1, <1>3
  <2>2. ASSUME NEW i \in places, x = list[i] PROVE x \in ToSet(Picked(list, places))
    <3>1. PICK n \in 1 .. Cardinality(places) : Nth(places, n) = i
      BY <1>2
    <3> QED BY <1>1, <1>3, <2>2, <3>1
  <2> QED BY <2>1, <2>2
<1> QED BY <1>4

-----------------------------------------------------------------------------
(* Decimal arithmetic *)

\* Division of natural numbers gives natural numbers.
LEMMA DivisionFacts ==
  ASSUME NEW n \in Nat, NEW d \in Nat, d > 0
  PROVE  n \div d \in Nat /\ n % d \in Nat
OBVIOUS

\* The product of positive numbers is positive.
LEMMA ProductIsPositive ==
  ASSUME NEW a \in Nat, NEW b \in Nat, a > 0, b > 0
  PROVE  a * b \in Nat /\ a * b > 0
OBVIOUS

\* A magnitude is a natural number, and zero of zero only.
LEMMA MagnitudeFacts ==
  ASSUME NEW n \in Int
  PROVE  /\ Magnitude(n) \in Nat
         /\ Magnitude(n) = 0 <=> n = 0
BY DEF Magnitude

\* A quotient rounded to even is an integer.
LEMMA QuotientsAreIntegers ==
  ASSUME NEW n \in Int, NEW d \in Int, d # 0
  PROVE  RoundedQuotient(n, d) \in Int
<1>1. Magnitude(n) \in Nat /\ Magnitude(d) \in Nat /\ Magnitude(d) > 0
  BY MagnitudeFacts
<1> DEFINE q == Magnitude(n) \div Magnitude(d)
<1>2. q \in Nat
  BY <1>1, DivisionFacts
<1> HIDE DEF q
<1>3. \A up \in {0, 1} : -(q + up) \in Int /\ q + up \in Int
  BY <1>2
<1> QED BY <1>3 DEF RoundedQuotient, q

\* A truncated quotient is an integer.
LEMMA TruncatedIsInteger ==
  ASSUME NEW n \in Int, NEW d \in Nat, d > 0
  PROVE  Truncated(n, d) \in Int
<1>1. CASE n < 0
  <2>1. -n \in Nat
    BY <1>1
  <2>2. (-n) \div d \in Nat
    BY <2>1, DivisionFacts
  <2> QED BY <1>1, <2>2 DEF Truncated
<1>2. CASE ~(n < 0)
  <2>1. n \in Nat
    BY <1>2
  <2>2. n \div d \in Nat
    BY <2>1, DivisionFacts
  <2> QED BY <1>2, <2>2 DEF Truncated
<1> QED BY <1>1, <1>2

\* So are the quotients of a floor, of a ceiling and of an average.
LEMMA OtherQuotientsAreIntegers ==
  ASSUME NEW n \in Int, NEW d \in Nat, d > 0
  PROVE  /\ FloorQuotient(n, d) \in Int
         /\ CeilQuotient(n, d) \in Int
         /\ AverageQuotient(n, d) \in Int
<1> DEFINE q == Truncated(n, d)
<1>1. q \in Int
  BY TruncatedIsInteger
<1> HIDE DEF q
<1>2. FloorQuotient(n, d) \in {q, q - 1}
  BY DEF FloorQuotient, q
<1>3. CeilQuotient(n, d) \in {q, q + 1}
  BY DEF CeilQuotient, q
<1>4. \E away \in {0, -1, 1} : AverageQuotient(n, d) = q + away
  BY DEF AverageQuotient, q
<1> QED BY <1>1, <1>2, <1>3, <1>4

\* A conversion to an integer gives a number, or throws.
LEMMA ConversionFacts ==
  ASSUME NEW v \in Numbers, NEW mode \in {"exact", "floor", "ceil", "round"}
  PROVE  /\ IntegerFromDecimal(v, mode) \in Numbers \union {Throws}
<1> DEFINE factor == PowerOfTen(v.s)
<1>1. v.c \in Int /\ v.s \in Nat /\ factor \in Nat /\ factor > 0
  BY PowerOfTenFacts DEF Numbers
<1>2. Truncated(v.c, factor) \in Int
  BY <1>1, TruncatedIsInteger
<1>3. FloorQuotient(v.c, factor) \in Int /\ CeilQuotient(v.c, factor) \in Int
  BY <1>1, OtherQuotientsAreIntegers
<1>4. RoundedQuotient(v.c, factor) \in Int
  BY <1>1, QuotientsAreIntegers
<1>5. \A n \in Int : Integer(n) \in Numbers
  BY DEF Integer, Numbers
<1> HIDE DEF factor
<1> QED BY <1>2, <1>3, <1>4, <1>5 DEF IntegerFromDecimal, factor

\* Writing a decimal changes nothing but the zeros at its end.
LEMMA DecimalTextFacts ==
  ASSUME NEW c \in Int, NEW s \in Nat
  PROVE  \E k \in 0 .. s : /\ DecimalText(c, s).s = s - k
                           /\ DecimalText(c, s).c * PowerOfTen(k) = c
                           /\ DecimalText(c, s) \in Numbers
<1> DEFINE Ends(k) == k \in 0 .. s /\ c % PowerOfTen(k) = 0
           Greatest(k) == Ends(k) /\ \A j \in k + 1 .. s : c % PowerOfTen(j) # 0
           zeros == CHOOSE k \in 0 .. s : /\ c % PowerOfTen(k) = 0
                                          /\ \A j \in k + 1 .. s : c % PowerOfTen(j) # 0
           T == {d \in 0 .. s : c % PowerOfTen(s - d) = 0}
<1>1. T \in SUBSET Nat /\ s \in T
  <2>1. c % PowerOfTen(0) = 0
    BY PowerOfTenFacts
  <2>2. s - s = 0 /\ s \in 0 .. s
    OBVIOUS
  <2> QED BY <2>1, <2>2
<1>2. PICK d \in T : \A e \in T : d <= e
  <2> HIDE DEF T
  <2> QED BY <1>1, LeastNumber
<1>3. Greatest(s - d)
  <2>1. d \in 0 .. s /\ s - d \in 0 .. s /\ c % PowerOfTen(s - d) = 0
    BY <1>2
  <2>2. ASSUME NEW j \in (s - d) + 1 .. s PROVE c % PowerOfTen(j) # 0
    <3>1. s - j \in 0 .. s /\ s - (s - j) = j /\ ~(d <= s - j)
      BY <2>1
    <3> QED BY <1>2, <3>1
  <2> QED BY <2>1, <2>2
<1>4. zeros \in 0 .. s /\ c % PowerOfTen(zeros) = 0
  <2>1. s - d \in 0 .. s
    BY <1>3
  <2> QED BY <1>3, <2>1
<1>5. DecimalText(c, s) = [c |-> c \div PowerOfTen(zeros), s |-> s - zeros]
  BY DEF DecimalText
<1> HIDE DEF zeros
<1> DEFINE p == PowerOfTen(zeros)
<1>6. p \in Nat /\ p > 0
  BY <1>4, PowerOfTenFacts
<1>7. c % p = 0
  BY <1>4
<1> HIDE DEF p
<1>8. (c \div p) \in Int /\ (c \div p) * p = c
  BY <1>6, <1>7
<1>9. s - zeros \in Nat
  BY <1>4
<1> QED BY <1>4, <1>5, <1>8, <1>9 DEF Numbers, p

\* A number at a scale at least its own has an integer coefficient.
LEMMA AlignedFacts ==
  ASSUME NEW v \in Numbers, NEW scale \in Nat, v.s <= scale
  PROVE  AlignedCoefficient(v, scale) \in Int
<1>1. scale - v.s \in Nat /\ v.c \in Int
  BY DEF Numbers
<1>2. PowerOfTen(scale - v.s) \in Nat
  BY <1>1, PowerOfTenFacts
<1> QED BY <1>1, <1>2 DEF AlignedCoefficient

\* The wider of two scales is at least both.
LEMMA WiderFacts ==
  ASSUME NEW a \in Numbers, NEW b \in Numbers
  PROVE  Wider(a, b) \in Nat /\ a.s <= Wider(a, b) /\ b.s <= Wider(a, b) /\ Wider(a, b) = Wider(b, a)
BY DEF Wider, Numbers

\* Aligning may be done in two steps.
LEMMA AlignedFurther ==
  ASSUME NEW v \in Numbers, NEW w \in Nat, NEW m \in Nat, v.s <= w, w <= m
  PROVE  AlignedCoefficient(v, m) = AlignedCoefficient(v, w) * PowerOfTen(m - w)
<1>1. v.c \in Int /\ v.s \in Nat /\ w - v.s \in Nat /\ m - w \in Nat
  BY DEF Numbers
<1>2. m - v.s = (w - v.s) + (m - w)
  BY <1>1
<1>3. PowerOfTen(m - v.s) = PowerOfTen(w - v.s) * PowerOfTen(m - w)
  BY <1>1, <1>2, PowerOfTenAdds
<1>4. PowerOfTen(w - v.s) \in Nat /\ PowerOfTen(m - w) \in Nat
  BY <1>1, PowerOfTenFacts
<1> DEFINE p == PowerOfTen(w - v.s)  q == PowerOfTen(m - w)  c == v.c
<1>5. c * (p * q) = (c * p) * q
  <2>1. c \in Int /\ p \in Nat /\ q \in Nat
    BY <1>1, <1>4
  <2> HIDE DEF c, p, q
  <2> QED BY <2>1
<1> QED BY <1>3, <1>5 DEF AlignedCoefficient

\* The order of integers is the one of TLA+.
LEMMA OrderFacts ==
  ASSUME NEW a \in Int, NEW b \in Int
  PROVE  /\ Order(a, b) \in {-1, 0, 1}
         /\ Order(b, a) = -Order(a, b)
         /\ Order(a, b) = 0 <=> a = b
         /\ Order(a, b) < 0 <=> a < b
         /\ Order(a, b) > 0 <=> b < a
BY DEF Order

\* A common positive factor does not change the order.
LEMMA OrderScales ==
  ASSUME NEW a \in Int, NEW b \in Int, NEW p \in Nat, p > 0
  PROVE  Order(a * p, b * p) = Order(a, b)
<1>1. CASE a < b
  <2>1. a * p < b * p
    BY <1>1
  <2> QED BY <1>1, <2>1 DEF Order
<1>2. CASE b < a
  <2>1. b * p < a * p
    BY <1>2
  <2> QED BY <1>2, <2>1 DEF Order
<1>3. CASE a = b
  BY <1>3 DEF Order
<1> QED BY <1>1, <1>2, <1>3

\* Decimals may be compared at any scale that is wide enough.
LEMMA ComparedAtAnyScale ==
  ASSUME NEW a \in Numbers, NEW b \in Numbers, NEW m \in Nat, a.s <= m, b.s <= m
  PROVE  /\ CompareSemanticValues("decimal", a, b)
              = Order(AlignedCoefficient(a, m), AlignedCoefficient(b, m))
         /\ AlignedCoefficient(a, m) \in Int
         /\ AlignedCoefficient(b, m) \in Int
<1> DEFINE w == Wider(a, b)
<1>1. w \in Nat /\ a.s <= w /\ b.s <= w /\ w <= m
  <2>1. a.s \in Nat /\ b.s \in Nat /\ (w = a.s \/ w = b.s) /\ a.s <= w /\ b.s <= w
    BY DEF Wider, Numbers
  <2> QED BY <2>1
<1> HIDE DEF w
<1>2. AlignedCoefficient(a, w) \in Int /\ AlignedCoefficient(b, w) \in Int
  BY <1>1, AlignedFacts
<1>3. PowerOfTen(m - w) \in Nat /\ PowerOfTen(m - w) > 0
  <2>1. m - w \in Nat
    BY <1>1
  <2> QED BY <2>1, PowerOfTenFacts
<1>4. /\ AlignedCoefficient(a, m) = AlignedCoefficient(a, w) * PowerOfTen(m - w)
      /\ AlignedCoefficient(b, m) = AlignedCoefficient(b, w) * PowerOfTen(m - w)
  BY <1>1, AlignedFurther
<1>5. Order(AlignedCoefficient(a, m), AlignedCoefficient(b, m))
        = Order(AlignedCoefficient(a, w), AlignedCoefficient(b, w))
  <2> DEFINE x == AlignedCoefficient(a, w)  y == AlignedCoefficient(b, w)
             p == PowerOfTen(m - w)
  <2>1. x \in Int /\ y \in Int /\ p \in Nat /\ p > 0
    BY <1>2, <1>3
  <2>2. AlignedCoefficient(a, m) = x * p /\ AlignedCoefficient(b, m) = y * p
    BY <1>4
  <2> HIDE DEF x, y, p
  <2>3. Order(x * p, y * p) = Order(x, y)
    BY <2>1, OrderScales
  <2> QED BY <2>2, <2>3 DEF x, y
<1>6. CompareSemanticValues("decimal", a, b)
        = Order(AlignedCoefficient(a, w), AlignedCoefficient(b, w))
  BY DEF CompareSemanticValues, w
<1>7. AlignedCoefficient(a, m) \in Int /\ AlignedCoefficient(b, m) \in Int
  BY AlignedFacts
<1> QED BY <1>5, <1>6, <1>7

-----------------------------------------------------------------------------
(* Comparing values *)

\* BigInt takes the value of an integer field only when it has no fraction.
Comparable(type, v) == type = "integer" => v.s = 0

\* The values of a type are not null, no exception and no refusal.
LEMMA ValuesAreNoMarkers ==
  ASSUME NEW type \in Types, NEW v \in ValuesOf(type)
  PROVE  v # None /\ v # Throws /\ v # Invalid
<1>1. ValuesOf(type) \in {Numbers, BOOLEAN, Int}
  BY DEF ValuesOf, Types, Numeric
<1> QED BY <1>1, MarkersAreNoValues

\* The types and their values.
LEMMA TypesOfValues ==
  /\ Types = {"integer", "decimal", "boolean", "string"}
  /\ ValuesOf("integer") = Numbers
  /\ ValuesOf("decimal") = Numbers
  /\ ValuesOf("boolean") = BOOLEAN
  /\ ValuesOf("string") = Int
BY DEF Types, Numeric, ValuesOf

\* The values of a type are compared as numbers are.
Ranked(type, a, b, x, y) ==
  /\ x \in Int /\ y \in Int
  /\ CompareSemanticValues(type, a, b) = Order(x, y)
  /\ CompareSemanticValues(type, b, a) = Order(y, x)

\* Three values of a type that do not throw are compared as three integers.
LEMMA ComparedByRank ==
  ASSUME NEW type \in Types, NEW a \in ValuesOf(type), NEW b \in ValuesOf(type),
         NEW c \in ValuesOf(type),
         Comparable(type, a), Comparable(type, b), Comparable(type, c)
  PROVE  \E x, y, z \in Int :
           Ranked(type, a, b, x, y) /\ Ranked(type, b, c, y, z) /\ Ranked(type, a, c, x, z)
<1>1. CASE type = "integer"
  <2>1. /\ a.c \in Int /\ b.c \in Int /\ c.c \in Int
        /\ a.s = 0 /\ b.s = 0 /\ c.s = 0
    <3>1. a \in Numbers /\ b \in Numbers /\ c \in Numbers
      BY <1>1, TypesOfValues
    <3>2. a.s = 0 /\ b.s = 0 /\ c.s = 0
      BY <1>1 DEF Comparable
    <3> QED BY <3>1, <3>2 DEF Numbers
  <2>2. \A v, w : v.s = 0 /\ w.s = 0 => CompareSemanticValues("integer", v, w) = Order(v.c, w.c)
    <3> SUFFICES ASSUME NEW v, NEW w, v.s = 0, w.s = 0
                 PROVE  CompareSemanticValues("integer", v, w) = Order(v.c, w.c)
      OBVIOUS
    <3>1. CompareSemanticValues("integer", v, w) =
            IF v.s = 0 /\ w.s = 0 THEN Order(v.c, w.c) ELSE Throws
      BY DEF CompareSemanticValues
    <3> QED BY <3>1
  <2>3. Ranked(type, a, b, a.c, b.c) /\ Ranked(type, b, c, b.c, c.c) /\ Ranked(type, a, c, a.c, c.c)
    BY <1>1, <2>1, <2>2 DEF Ranked
  <2> QED BY <2>1, <2>3
<1>2. CASE type = "decimal"
  <2>1. a \in Numbers /\ b \in Numbers /\ c \in Numbers
    BY <1>2, TypesOfValues
  <2>2. PICK m \in Nat : a.s <= m /\ b.s <= m /\ c.s <= m
    <3>1. a.s \in Nat /\ b.s \in Nat /\ c.s \in Nat
      BY <2>1 DEF Numbers
    <3>2. a.s + b.s + c.s \in Nat
      BY <3>1
    <3> QED BY <3>1, <3>2
  <2> DEFINE x == AlignedCoefficient(a, m)
             y == AlignedCoefficient(b, m)
             z == AlignedCoefficient(c, m)
  <2>3. x \in Int /\ y \in Int /\ z \in Int
    BY <2>1, <2>2, AlignedFacts
  <2>4. Ranked("decimal", a, b, x, y)
    BY <2>1, <2>2, <2>3, ComparedAtAnyScale DEF Ranked
  <2>5. Ranked("decimal", b, c, y, z)
    BY <2>1, <2>2, <2>3, ComparedAtAnyScale DEF Ranked
  <2>6. Ranked("decimal", a, c, x, z)
    BY <2>1, <2>2, <2>3, ComparedAtAnyScale DEF Ranked
  <2> HIDE DEF x, y, z
  <2> QED BY <1>2, <2>3, <2>4, <2>5, <2>6
<1>3. CASE type = "boolean"
  <2>1. a \in BOOLEAN /\ b \in BOOLEAN /\ c \in BOOLEAN
    BY <1>3, TypesOfValues
  <2> DEFINE N(v) == IF v THEN 1 ELSE 0
  <2>2. ASSUME NEW v \in BOOLEAN, NEW w \in BOOLEAN
        PROVE  /\ CompareSemanticValues("boolean", v, w) = Order(N(v), N(w))
    <3>1. CompareSemanticValues("boolean", v, w) = IF v = w THEN 0 ELSE IF w THEN -1 ELSE 1
      BY DEF CompareSemanticValues
    <3>2. Order(1, 1) = 0 /\ Order(0, 0) = 0 /\ Order(1, 0) = 1 /\ Order(0, 1) = -1
      BY DEF Order
    <3>3. CASE v
      <4>1. CASE w
        BY <3>1, <3>2, <3>3, <4>1
      <4>2. CASE ~w
        BY <3>1, <3>2, <3>3, <4>2
      <4> QED BY <4>1, <4>2
    <3>4. CASE ~v
      <4>1. CASE w
        BY <3>1, <3>2, <3>4, <4>1
      <4>2. CASE ~w
        BY <3>1, <3>2, <3>4, <4>2
      <4> QED BY <4>1, <4>2
    <3> QED BY <3>3, <3>4
  <2>3. \A v \in BOOLEAN : N(v) \in Int
    OBVIOUS
  <2> HIDE DEF N
  <2> QED BY <1>3, <2>1, <2>2, <2>3 DEF Ranked
<1>4. CASE type = "string"
  <2>1. a \in Int /\ b \in Int /\ c \in Int
    BY <1>4, TypesOfValues
  <2>2. Ranked(type, a, b, a, b) /\ Ranked(type, b, c, b, c) /\ Ranked(type, a, c, a, c)
    BY <1>4, <2>1 DEF Ranked, CompareSemanticValues
  <2> QED BY <2>1, <2>2
<1> QED BY <1>1, <1>2, <1>3, <1>4, TypesOfValues

\* An exception is told from the result of a comparison.
LEMMA ThrowsIsNoNumber == \A n \in Int : n # Throws /\ n # None /\ n # Invalid
  BY MarkersAreNoValues

\* A comparison throws if and only if an integer field has a fraction; otherwise
\* it is antisymmetric and equal values compare as equal.
LEMMA ComparisonFacts ==
  ASSUME NEW type \in Types, NEW a \in ValuesOf(type), NEW b \in ValuesOf(type)
  PROVE  /\ CompareSemanticValues(type, a, b) = Throws
              <=> ~(Comparable(type, a) /\ Comparable(type, b))
         /\ CompareSemanticValues(type, a, b) # Throws =>
              /\ CompareSemanticValues(type, a, b) \in {-1, 0, 1}
              /\ CompareSemanticValues(type, b, a) = -CompareSemanticValues(type, a, b)
              /\ CompareSemanticValues(type, a, a) = 0
<1>1. CASE Comparable(type, a) /\ Comparable(type, b)
  <2>1. PICK x, y, z \in Int :
          Ranked(type, a, b, x, y) /\ Ranked(type, b, a, y, z) /\ Ranked(type, a, a, x, z)
    BY <1>1, ComparedByRank
  <2>2. /\ CompareSemanticValues(type, a, b) = Order(x, y)
        /\ CompareSemanticValues(type, b, a) = Order(y, x)
        /\ CompareSemanticValues(type, a, a) = Order(x, z)
        /\ CompareSemanticValues(type, a, a) = Order(z, x)
    BY <2>1 DEF Ranked
  <2>3. Order(x, y) \in {-1, 0, 1} /\ Order(y, x) = -Order(x, y) /\ Order(z, x) = -Order(x, z)
        /\ Order(x, z) \in {-1, 0, 1}
    BY OrderFacts
  <2>4. Order(x, z) = 0
    BY <2>2, <2>3
  <2> QED BY <1>1, <2>2, <2>3, <2>4, ThrowsIsNoNumber
<1>2. CASE ~(Comparable(type, a) /\ Comparable(type, b))
  <2>1. type = "integer" /\ ~(a.s = 0 /\ b.s = 0)
    BY <1>2 DEF Comparable
  <2>2. CompareSemanticValues(type, a, b) = Throws
    BY <2>1 DEF CompareSemanticValues
  <2> QED BY <1>2, <2>2
<1> QED BY <1>1, <1>2

\* The comparison of values is transitive, and so is their equality.
LEMMA ComparisonsChain ==
  ASSUME NEW type \in Types, NEW a \in ValuesOf(type), NEW b \in ValuesOf(type),
         NEW c \in ValuesOf(type),
         CompareSemanticValues(type, a, b) # Throws, CompareSemanticValues(type, b, c) # Throws,
         CompareSemanticValues(type, a, b) <= 0, CompareSemanticValues(type, b, c) <= 0
  PROVE  /\ CompareSemanticValues(type, a, c) # Throws
         /\ CompareSemanticValues(type, a, c) <= 0
         /\ CompareSemanticValues(type, a, c) = 0 =>
              CompareSemanticValues(type, a, b) = 0 /\ CompareSemanticValues(type, b, c) = 0
<1>1. Comparable(type, a) /\ Comparable(type, b) /\ Comparable(type, c)
  BY ComparisonFacts
<1>2. PICK x, y, z \in Int :
        Ranked(type, a, b, x, y) /\ Ranked(type, b, c, y, z) /\ Ranked(type, a, c, x, z)
  BY <1>1, ComparedByRank
<1>3. /\ CompareSemanticValues(type, a, b) = Order(x, y)
      /\ CompareSemanticValues(type, b, c) = Order(y, z)
      /\ CompareSemanticValues(type, a, c) = Order(x, z)
  BY <1>2 DEF Ranked
<1>4. Order(x, z) \in Int
  BY OrderFacts
<1>5. Order(x, y) <= 0 /\ Order(y, z) <= 0
  BY <1>3
<1>6. Order(x, z) <= 0 /\ (Order(x, z) = 0 => Order(x, y) = 0 /\ Order(y, z) = 0)
  BY <1>5 DEF Order
<1> QED BY <1>3, <1>4, <1>6, ThrowsIsNoNumber

-----------------------------------------------------------------------------
(* What the compiler infers of an operation *)

\* What a shape says of a field.
Fields == [type : Types, nullable : BOOLEAN]

\* A field has the type and the nullability it was made with.
LEMMA FieldFacts ==
  ASSUME NEW type \in Types, NEW nullable \in BOOLEAN
  PROVE  /\ Field(type, nullable) \in Fields
         /\ Field(type, nullable).type = type
         /\ Field(type, nullable).nullable = nullable
         /\ Field(type, nullable) # Invalid
BY MarkersAreNoValues DEF Field, Fields

\* A field is not a refusal.
LEMMA FieldsAreValid == \A field \in Fields : field # Invalid /\ field.type \in Types /\ field.nullable \in BOOLEAN
BY MarkersAreNoValues DEF Fields

\* A value that a field's type and nullability allow, or an exception.
Allowed(field, v) ==
  /\ v \in ValuesOf(field.type) \union {None, Throws}
  /\ v = None => field.nullable

\* The fields of some inputs, under the compiled and the runtime shape.
Inferred(A, B, n) ==
  /\ n \in Nat /\ n >= 1
  /\ DOMAIN A = 1 .. n /\ DOMAIN B = 1 .. n
  /\ \A i \in 1 .. n : A[i] \in Fields /\ B[i] \in Fields /\ A[i].type = B[i].type

\* Inputs with a common type have the same values.
LEMMA MergedTypeFacts ==
  ASSUME NEW A, NEW B, NEW n, Inferred(A, B, n), MergedType(A) # Invalid
  PROVE  /\ MergedType(A) \in Types
         /\ \A i \in 1 .. n : ValuesOf(A[i].type) = ValuesOf(MergedType(A))
<1>1. 1 \in 1 .. n /\ \A i \in 1 .. n : Compatible(A[1].type, A[i].type)
  BY DEF Inferred, MergedType
<1>2. \A i \in 1 .. n : A[i].type \in Types
  BY FieldsAreValid DEF Inferred
<1>3. CASE AllOf(A, Numeric)
  <2>1. MergedType(A) = Widest(A)
    BY <1>1, <1>3 DEF MergedType, Inferred
  <2>2. MergedType(A) \in Numeric
    BY <2>1 DEF Widest, Numeric
  <2>3. \A i \in 1 .. n : A[i].type \in Numeric
    BY <1>3 DEF AllOf, Inferred
  <2>4. \A type \in Numeric : type \in Types /\ ValuesOf(type) = Numbers
    BY TypesOfValues DEF Numeric
  <2> QED BY <2>2, <2>3, <2>4
<1>4. CASE ~AllOf(A, Numeric)
  <2>1. MergedType(A) = A[1].type
    BY <1>1, <1>4 DEF MergedType, Inferred
  <2>2. PICK i \in 1 .. n : A[i].type \notin Numeric
    BY <1>4 DEF AllOf, Inferred
  <2>3. A[1].type \notin Numeric
    BY <1>1, <2>2 DEF Compatible
  <2>4. \A j \in 1 .. n : A[j].type = A[1].type
    BY <1>1, <2>3 DEF Compatible
  <2> QED BY <1>1, <1>2, <2>1, <2>4
<1> QED BY <1>3, <1>4

\* What is asked of the types of inputs does not depend on their nullability, in
\* which the compiled shape and the runtime shape may differ.
LEMMA MergedTypesAgree ==
  ASSUME NEW A, NEW B, NEW n, Inferred(A, B, n)
  PROVE  /\ MergedType(A) = MergedType(B)
         /\ Widest(A) = Widest(B)
         /\ \A types : AllOf(A, types) <=> AllOf(B, types)
<1>1. \A i \in 1 .. n : A[i].type = B[i].type
  BY DEF Inferred
<1>2. DOMAIN A = 1 .. n /\ DOMAIN B = 1 .. n /\ 1 \in 1 .. n
  BY DEF Inferred
<1>3. Widest(A) = Widest(B)
  BY <1>1, <1>2 DEF Widest
<1>4. \A types : AllOf(A, types) <=> AllOf(B, types)
  BY <1>1, <1>2 DEF AllOf
<1>5. MergedType(A) = MergedType(B)
  <2>1. (\E i \in DOMAIN A : ~Compatible(A[1].type, A[i].type))
          <=> \E i \in DOMAIN B : ~Compatible(B[1].type, B[i].type)
    BY <1>1, <1>2
  <2> QED BY <1>1, <1>2, <1>3, <1>4, <2>1 DEF MergedType
<1> QED BY <1>3, <1>4, <1>5

\* The number of inputs of an operator.
Takes(op, n) ==
  \/ op \in Unary /\ n = 1
  \/ op \in Binary /\ n = 2
  \/ op \in Variadic /\ n \in 2 .. 8
  \/ op = "if" /\ n = 3

\* The widest of some numeric types is numeric.
LEMMA WidestFacts ==
  ASSUME NEW A
  PROVE  Widest(A) \in Types /\ ValuesOf(Widest(A)) = Numbers
BY TypesOfValues DEF Widest

\* What the compiler accepts the execution infers a field for, of the same type.
LEMMA InferenceOfOperation ==
  ASSUME NEW op, NEW A, NEW B, NEW n, Inferred(A, B, n), Takes(op, n),
         InferOperation(op, A) # Invalid
  PROVE  /\ InferOperation(op, A) \in Fields
         /\ InferOperation(op, B) \in Fields
         /\ InferOperation(op, A).type = InferOperation(op, B).type
<1>1. 1 \in 1 .. n /\ A[1] \in Fields /\ B[1] \in Fields /\ A[1].type = B[1].type
      /\ DOMAIN A = 1 .. n /\ DOMAIN B = 1 .. n
  BY DEF Inferred
<1>2. /\ MergedType(A) = MergedType(B)
      /\ Widest(A) = Widest(B)
      /\ \A types : AllOf(A, types) <=> AllOf(B, types)
  BY MergedTypesAgree
<1>3. Nullable(A) \in BOOLEAN /\ Nullable(B) \in BOOLEAN
      /\ A[1].nullable \in BOOLEAN /\ B[1].nullable \in BOOLEAN
  BY <1>1, FieldsAreValid DEF Nullable
<1>4. Widest(A) \in Types
  BY WidestFacts
<1>5. "boolean" \in Types /\ "integer" \in Types /\ "decimal" \in Types
  BY TypesOfValues
<1>6. CASE op \in {"not", "and", "or"}
  <2>1. AllOf(A, {"boolean"})
    BY <1>6 DEF InferOperation, Comparisons
  <2>2. InferOperation(op, A) = Field("boolean", Nullable(A))
        /\ InferOperation(op, B) = Field("boolean", Nullable(B))
    BY <1>2, <1>6, <2>1 DEF InferOperation, Comparisons
  <2> QED BY <1>3, <1>5, <2>2, FieldFacts
<1>7. CASE op \in Comparisons
  <2>1. n = 2 /\ A[2].type = B[2].type
    BY <1>7 DEF Takes, Unary, Binary, Variadic, Comparisons, Inferred
  <2>2. Compatible(A[1].type, A[2].type)
    BY <1>7 DEF InferOperation, Comparisons
  <2>3. InferOperation(op, A) = Field("boolean", Nullable(A))
        /\ InferOperation(op, B) = Field("boolean", Nullable(B))
    BY <1>1, <1>7, <2>1, <2>2 DEF InferOperation, Comparisons
  <2> QED BY <1>3, <1>5, <2>3, FieldFacts
<1>8. CASE op \in {"add", "subtract", "multiply"}
  <2>1. AllOf(A, Numeric)
    BY <1>8 DEF InferOperation, Comparisons
  <2>2. InferOperation(op, A) = Field(Widest(A), Nullable(A))
        /\ InferOperation(op, B) = Field(Widest(A), Nullable(B))
    BY <1>2, <1>8, <2>1 DEF InferOperation, Comparisons
  <2> QED BY <1>3, <1>4, <2>2, FieldFacts
<1>9. CASE op = "safe_divide"
  <2>1. AllOf(A, Numeric)
    BY <1>9 DEF InferOperation, Comparisons
  <2>2. InferOperation(op, A) = Field("decimal", TRUE)
        /\ InferOperation(op, B) = Field("decimal", TRUE)
    BY <1>2, <1>9, <2>1 DEF InferOperation, Comparisons
  <2> QED BY <1>5, <2>2, FieldFacts
<1>10. CASE op \in {"to_integer", "round", "floor", "ceil"}
  <2>1. AllOf(A, Numeric)
    BY <1>10 DEF InferOperation, Comparisons
  <2>2. InferOperation(op, A) = Field("integer", A[1].nullable)
        /\ InferOperation(op, B) = Field("integer", B[1].nullable)
    BY <1>2, <1>10, <2>1 DEF InferOperation, Comparisons
  <2> QED BY <1>3, <1>5, <2>2, FieldFacts
<1>11. CASE op = "to_decimal"
  <2>1. AllOf(A, Numeric)
    BY <1>11 DEF InferOperation, Comparisons
  <2>2. InferOperation(op, A) = Field("decimal", A[1].nullable)
        /\ InferOperation(op, B) = Field("decimal", B[1].nullable)
    BY <1>2, <1>11, <2>1 DEF InferOperation, Comparisons
  <2> QED BY <1>3, <1>5, <2>2, FieldFacts
<1>12. CASE op = "abs"
  <2>1. AllOf(A, Numeric)
    BY <1>12 DEF InferOperation, Comparisons
  <2>2. InferOperation(op, A) = A[1] /\ InferOperation(op, B) = B[1]
    BY <1>2, <1>12, <2>1 DEF InferOperation, Comparisons
  <2> QED BY <1>1, <2>2
<1>13. CASE op = "coalesce"
  <2>1. MergedType(A) # Invalid
    BY <1>13 DEF InferOperation, Comparisons
  <2>2. MergedType(A) \in Types
    BY <2>1, MergedTypeFacts
  <2>3. PICK a \in BOOLEAN, b \in BOOLEAN :
          a = (\A i \in DOMAIN A : A[i].nullable) /\ b = (\A i \in DOMAIN B : B[i].nullable)
    OBVIOUS
  <2>4. InferOperation(op, A) = Field(MergedType(A), a)
        /\ InferOperation(op, B) = Field(MergedType(A), b)
    BY <1>2, <1>13, <2>1, <2>3 DEF InferOperation, Comparisons
  <2> QED BY <2>2, <2>4, FieldFacts
<1>14. CASE op = "if"
  <2> DEFINE C == <<A[2], A[3]>>  D == <<B[2], B[3]>>
  <2>1. n = 3
    BY <1>14 DEF Takes, Unary, Binary, Variadic, Comparisons
  <2>2. Inferred(C, D, 2)
    BY <2>1 DEF Inferred
  <2>3. A[1].type = "boolean" /\ MergedType(C) # Invalid
    BY <1>14 DEF InferOperation, Comparisons
  <2> HIDE DEF C, D
  <2>4. MergedType(C) = MergedType(D) /\ MergedType(C) \in Types
    BY <2>2, <2>3, MergedTypeFacts, MergedTypesAgree
  <2>5. InferOperation(op, A) = Field(MergedType(C), Nullable(A))
        /\ InferOperation(op, B) = Field(MergedType(C), Nullable(B))
    BY <1>1, <1>14, <2>3, <2>4 DEF InferOperation, Comparisons, C, D
  <2> QED BY <1>3, <2>4, <2>5, FieldFacts
<1> QED BY <1>6, <1>7, <1>8, <1>9, <1>10, <1>11, <1>12, <1>13, <1>14
        DEF Takes, Unary, Binary, Variadic

-----------------------------------------------------------------------------
(* What an operation gives *)

\* The first of some positions.
LEMMA FirstOfFacts ==
  ASSUME NEW S \in SUBSET Nat, S # {}
  PROVE  FirstOf(S) \in S /\ \A j \in S : FirstOf(S) <= j
<1>1. \E i \in S : \A j \in S : i <= j
  BY LeastNumber
<1> QED BY <1>1 DEF FirstOf

\* Numbers are added and compared as integers at the wider scale.
LEMMA SumsAreNumbers ==
  ASSUME NEW a \in Numbers, NEW b \in Numbers
  PROVE  /\ AlignedCoefficient(a, Wider(a, b)) \in Int
         /\ AlignedCoefficient(b, Wider(a, b)) \in Int
         /\ Wider(a, b) \in Nat
BY WiderFacts, AlignedFacts

\* A decimal text stands for a number.
LEMMA TextsAreNumbers ==
  ASSUME NEW c \in Int, NEW s \in Nat
  PROVE  DecimalText(c, s) \in Numbers
BY DecimalTextFacts

\* A quotient, rounded to Places, is a number.
LEMMA QuotientIsNumber ==
  ASSUME NEW a \in Numbers, NEW b \in Numbers, b.c # 0
  PROVE  DecimalText(RoundedQuotient(a.c * PowerOfTen(b.s + Places), b.c * PowerOfTen(a.s)), Places)
           \in Numbers
<1>1. a.c \in Int /\ a.s \in Nat /\ b.c \in Int /\ b.s \in Nat /\ b.s + Places \in Nat
  BY PlacesAssumption DEF Numbers
<1> DEFINE p == PowerOfTen(b.s + Places)  q == PowerOfTen(a.s)  c == a.c  d == b.c
<1>2. p \in Nat /\ q \in Nat /\ q > 0 /\ c \in Int /\ d \in Int /\ d # 0
  BY <1>1, PowerOfTenFacts
<1> HIDE DEF p, q, c, d
<1>3. c * p \in Int /\ d * q \in Int /\ d * q # 0
  BY <1>2
<1>4. RoundedQuotient(c * p, d * q) \in Int
  BY <1>3, QuotientsAreIntegers
<1>5. DecimalText(RoundedQuotient(c * p, d * q), Places) \in Numbers
  BY <1>4, TextsAreNumbers, PlacesAssumption
<1> QED BY <1>5 DEF p, q, c, d

\* What a strict operator makes of numbers.
LEMMA NumericResults ==
  ASSUME NEW op, NEW v, NEW type,
         \/ op \in Unary \ {"not"} /\ v[1] \in Numbers
         \/ op \in {"add", "subtract", "multiply", "safe_divide"} /\ v[1] \in Numbers /\ v[2] \in Numbers
  PROVE  /\ Compute(op, v, type) \in Numbers \union {None, Throws}
         /\ Compute(op, v, type) = None => op = "safe_divide"
<1>1. v[1].c \in Int /\ v[1].s \in Nat
  BY DEF Numbers
<1>2. \A x : x \in Numbers \union {Throws} => x # None
  BY MarkersAreNoValues
<1>3. CASE op = "to_integer"
  <2>1. IntegerFromDecimal(v[1], "exact") \in Numbers \union {Throws}
    BY <1>3, ConversionFacts
  <2>2. Compute(op, v, type) = IntegerFromDecimal(v[1], "exact")
    BY <1>3 DEF Compute, Comparisons
  <2> QED BY <1>2, <2>1, <2>2
<1>4. CASE op \in {"round", "floor", "ceil"}
  <2>1. IntegerFromDecimal(v[1], op) \in Numbers \union {Throws}
    BY <1>4, ConversionFacts
  <2>2. Compute(op, v, type) = IntegerFromDecimal(v[1], op)
    BY <1>4 DEF Compute, Comparisons
  <2> QED BY <1>2, <2>1, <2>2
<1>5. CASE op = "to_decimal"
  <2>1. Compute(op, v, type) = DecimalText(v[1].c, v[1].s)
    BY <1>5 DEF Compute, Comparisons
  <2> QED BY <1>1, <1>2, <2>1, TextsAreNumbers
<1>6. CASE op = "abs"
  <2>1. Compute(op, v, type) = DecimalText(Magnitude(v[1].c), v[1].s)
    BY <1>6 DEF Compute, Comparisons
  <2>2. Magnitude(v[1].c) \in Int
    BY <1>1, MagnitudeFacts
  <2> QED BY <1>1, <1>2, <2>1, <2>2, TextsAreNumbers
<1>7. CASE op \in {"add", "subtract"}
  <2> DEFINE scale == Wider(v[1], v[2])
             left == AlignedCoefficient(v[1], scale)
             right == AlignedCoefficient(v[2], scale)
             sum == left + (IF op = "add" THEN right ELSE -right)
  <2>1. left \in Int /\ right \in Int /\ scale \in Nat
    BY <1>7, SumsAreNumbers DEF Unary
  <2>2. Compute(op, v, type) = DecimalText(sum, scale)
    BY <1>7 DEF Compute, Comparisons
  <2> HIDE DEF left, right, scale
  <2>3. sum \in Int
    BY <2>1
  <2> HIDE DEF sum
  <2> QED BY <1>2, <2>1, <2>2, <2>3, TextsAreNumbers
<1>8. CASE op = "multiply"
  <2>1. v[2].c \in Int /\ v[2].s \in Nat
    BY <1>8 DEF Numbers, Unary
  <2>2. Compute(op, v, type) = DecimalText(v[1].c * v[2].c, v[1].s + v[2].s)
    BY <1>8 DEF Compute, Comparisons
  <2> DEFINE a == v[1].c  b == v[2].c
  <2>3. a \in Int /\ b \in Int
    BY <1>1, <2>1
  <2>4. a * b \in Int
    <3> HIDE DEF a, b
    <3> QED BY <2>3
  <2>5. v[1].s + v[2].s \in Nat
    BY <1>1, <2>1
  <2> QED BY <1>2, <2>2, <2>4, <2>5, TextsAreNumbers
<1>9. CASE op = "safe_divide"
  <2>1. Compute(op, v, type) =
          IF v[2].c = 0 THEN None
          ELSE DecimalText(RoundedQuotient(v[1].c * PowerOfTen(v[2].s + Places),
                                           v[2].c * PowerOfTen(v[1].s)), Places)
    BY <1>9 DEF Compute, Comparisons
  <2>2. v[2] \in Numbers
    BY <1>9 DEF Unary
  <2>3. CASE v[2].c = 0
    BY <1>9, <2>1, <2>3
  <2>4. CASE v[2].c # 0
    BY <1>9, <2>1, <2>2, <2>4, QuotientIsNumber
  <2> QED BY <2>3, <2>4
<1> QED BY <1>3, <1>4, <1>5, <1>6, <1>7, <1>8, <1>9 DEF Unary

\* A comparison is true or false, or throws.
LEMMA ComparisonResults ==
  ASSUME NEW op \in Comparisons, NEW v, NEW type \in Types,
         v[1] \in ValuesOf(type), v[2] \in ValuesOf(type)
  PROVE  Compute(op, v, type) \in BOOLEAN \union {Throws}
<1> DEFINE comparison == CompareSemanticValues(type, v[1], v[2])
<1>1. Compute(op, v, type) = IF comparison = Throws THEN Throws ELSE Holds(op, comparison)
  BY DEF Compute, Comparisons
<1> HIDE DEF comparison
<1>2. Holds(op, comparison) \in BOOLEAN
  <2>1. CASE op = "eq"
    BY <2>1 DEF Holds
  <2>2. CASE op = "ne"
    BY <2>2 DEF Holds
  <2>3. CASE op = "lt"
    BY <2>3 DEF Holds
  <2>4. CASE op = "lte"
    BY <2>4 DEF Holds
  <2>5. CASE op = "gt"
    BY <2>5 DEF Holds
  <2>6. CASE op = "gte"
    BY <2>6 DEF Holds
  <2> QED BY <2>1, <2>2, <2>3, <2>4, <2>5, <2>6 DEF Comparisons
<1> QED BY <1>1, <1>2

\* The values of some inputs.
ValuesFor(v, A, n) ==
  /\ DOMAIN v = 1 .. n
  /\ \A i \in 1 .. n : Allowed(A[i], v[i])

\* What an operator makes of values of its inputs' types is a value of the type
\* inferred for it, and null only where that is nullable.
LEMMA OperationOnValues ==
  ASSUME NEW op, NEW A, NEW B, NEW n, Inferred(A, B, n), Takes(op, n),
         InferOperation(op, A) # Invalid, NEW v, ValuesFor(v, A, n)
  PROVE  Allowed(InferOperation(op, A), Operate(op, v, B))
<1>1. 1 \in 1 .. n /\ A[1] \in Fields /\ DOMAIN A = 1 .. n /\ DOMAIN B = 1 .. n
      /\ n \in Nat /\ DOMAIN v = 1 .. n
  BY DEF Inferred, ValuesFor
<1>2. /\ MergedType(A) = MergedType(B)
      /\ Widest(A) = Widest(B)
      /\ \A types : AllOf(A, types) <=> AllOf(B, types)
  BY MergedTypesAgree
<1>3. \A i \in 1 .. n : /\ v[i] \in ValuesOf(A[i].type) \union {None, Throws}
                        /\ v[i] = None => A[i].nullable
                        /\ A[i].type \in Types /\ A[i].nullable \in BOOLEAN
                        /\ A[i].type = B[i].type
  BY FieldsAreValid DEF Inferred, ValuesFor, Allowed
<1>4. \A type \in Types, nullable \in BOOLEAN : /\ Field(type, nullable).type = type
                                               /\ Field(type, nullable).nullable = nullable
  BY FieldFacts
<1>5. None # Throws
  BY MarkersAreNoValues
<1>6. Nullable(A) \in BOOLEAN /\ A[1].nullable \in BOOLEAN
      /\ \A i \in 1 .. n : v[i] = None => Nullable(A)
  BY <1>1, <1>3 DEF Nullable
<1>7. \A type \in Types, nullable \in BOOLEAN : \A x :
        /\ x \in ValuesOf(type) \union {None, Throws}
        /\ x = None => nullable
        => Allowed(Field(type, nullable), x)
  BY <1>4 DEF Allowed
<1>8. CASE op \in {"and", "or"}
  <2>1. AllOf(A, {"boolean"})
    BY <1>8 DEF InferOperation, Comparisons
  <2>2. InferOperation(op, A) = Field("boolean", Nullable(A))
    BY <1>8, <2>1 DEF InferOperation, Comparisons
  <2>3. \A i \in 1 .. n : v[i] \in BOOLEAN \union {None, Throws}
    BY <1>1, <1>3, <2>1, TypesOfValues DEF AllOf
  <2>4. Operate(op, v, B) = Logical(op, v)
    BY <1>8 DEF Operate
  <2> DEFINE deciding == {i \in DOMAIN v : v[i] = Throws \/ v[i] = (op = "or")}
  <2>5. Logical(op, v) = IF deciding # {} THEN v[FirstOf(deciding)]
                         ELSE IF \E i \in DOMAIN v : v[i] = None THEN None
                         ELSE op = "and"
    BY DEF Logical
  <2>6. CASE deciding # {}
    <3>1. deciding \in SUBSET Nat
      BY <1>1
    <3>2. FirstOf(deciding) \in deciding
      <4> HIDE DEF deciding
      <4> QED BY <2>6, <3>1, FirstOfFacts
    <3>3. v[FirstOf(deciding)] = Throws \/ v[FirstOf(deciding)] = (op = "or")
      BY <3>2
    <3>4. (op = "or") \in BOOLEAN
      OBVIOUS
    <3>5. v[FirstOf(deciding)] \in BOOLEAN \union {Throws}
      BY <3>3, <3>4
    <3>6. Logical(op, v) \in BOOLEAN \union {Throws} /\ Logical(op, v) # None
      BY <2>5, <2>6, <3>5, MarkersAreNoValues
    <3> QED BY <1>6, <1>7, <2>2, <2>4, <3>6, TypesOfValues
  <2>7. CASE deciding = {} /\ \E i \in DOMAIN v : v[i] = None
    <3>1. Logical(op, v) = None
      BY <2>5, <2>7
    <3>2. Nullable(A)
      BY <1>1, <1>6, <2>7
    <3> QED BY <1>6, <1>7, <2>2, <2>4, <3>1, <3>2, TypesOfValues
  <2>8. CASE deciding = {} /\ ~\E i \in DOMAIN v : v[i] = None
    <3>1. Logical(op, v) = (op = "and")
      BY <2>5, <2>8
    <3>2. Logical(op, v) \in BOOLEAN /\ Logical(op, v) # None
      BY <3>1, MarkersAreNoValues
    <3> QED BY <1>6, <1>7, <2>2, <2>4, <3>2, TypesOfValues
  <2> QED BY <2>6, <2>7, <2>8
<1>9. CASE op = "coalesce"
  <2>1. MergedType(A) # Invalid
    BY <1>9 DEF InferOperation, Comparisons
  <2>2. PICK a \in BOOLEAN : a = (\A i \in DOMAIN A : A[i].nullable)
    OBVIOUS
  <2>3. InferOperation(op, A) = Field(MergedType(A), a)
    BY <1>9, <2>1, <2>2 DEF InferOperation, Comparisons
  <2>4. MergedType(A) \in Types /\ \A i \in 1 .. n : ValuesOf(A[i].type) = ValuesOf(MergedType(A))
    BY <2>1, MergedTypeFacts
  <2>5. Operate(op, v, B) = Coalesce(v, B, MergedType(A))
    BY <1>2, <1>9 DEF Operate
  <2> DEFINE given == {i \in DOMAIN v : v[i] # None}
             i == FirstOf(given)
  <2>6. Coalesce(v, B, MergedType(A)) =
          IF given = {} THEN None
          ELSE IF v[i] # Throws /\ MergedType(A) = "decimal" /\ B[i].type = "integer"
          THEN DecimalText(v[i].c, v[i].s)
          ELSE v[i]
    BY DEF Coalesce
  <2>7. CASE given = {}
    <3>1. \A j \in 1 .. n : v[j] = None /\ A[j].nullable
      BY <1>1, <1>3, <2>7
    <3>2. a = TRUE
      BY <1>1, <2>2, <3>1
    <3> QED BY <1>7, <2>3, <2>4, <2>5, <2>6, <2>7, <3>2
  <2>8. CASE given # {}
    <3>1. given \in SUBSET Nat
      BY <1>1
    <3>2. FirstOf(given) \in given
      <4> HIDE DEF given
      <4> QED BY <2>8, <3>1, FirstOfFacts
    <3>3. i \in 1 .. n /\ v[i] # None
      BY <1>1, <3>2
    <3> HIDE DEF i, given
    <3>4. v[i] \in ValuesOf(MergedType(A)) \union {Throws}
      BY <1>3, <2>4, <3>3
    <3>5. CASE v[i] # Throws /\ MergedType(A) = "decimal" /\ B[i].type = "integer"
      <4>1. v[i] \in Numbers
        BY <3>4, <3>5, TypesOfValues
      <4>2. v[i].c \in Int /\ v[i].s \in Nat
        BY <4>1 DEF Numbers
      <4>3. DecimalText(v[i].c, v[i].s) \in Numbers
        BY <4>2, TextsAreNumbers
      <4>4. Operate(op, v, B) \in ValuesOf("decimal") /\ Operate(op, v, B) # None
        BY <2>5, <2>6, <2>8, <3>5, <4>3, TypesOfValues, MarkersAreNoValues
      <4> QED BY <1>7, <2>3, <2>4, <3>5, <4>4
    <3>6. CASE ~(v[i] # Throws /\ MergedType(A) = "decimal" /\ B[i].type = "integer")
      <4>1. Operate(op, v, B) = v[i]
        BY <2>5, <2>6, <2>8, <3>6
      <4> QED BY <1>7, <2>3, <2>4, <3>3, <3>4, <4>1
    <3> QED BY <3>5, <3>6
  <2> QED BY <2>7, <2>8
<1>10. CASE op = "if"
  <2> DEFINE C == <<A[2], A[3]>>  D == <<B[2], B[3]>>
  <2>1. n = 3
    BY <1>10 DEF Takes, Unary, Binary, Variadic, Comparisons
  <2>2. Inferred(C, D, 2) /\ C[1] = A[2] /\ C[2] = A[3]
    BY <2>1 DEF Inferred
  <2>3. A[1].type = "boolean" /\ MergedType(C) # Invalid
    BY <1>10 DEF InferOperation, Comparisons
  <2>4. InferOperation(op, A) = Field(MergedType(C), Nullable(A))
    BY <1>10, <2>3 DEF InferOperation, Comparisons
  <2> HIDE DEF C, D
  <2>5. MergedType(C) \in Types /\ \A i \in 1 .. 2 : ValuesOf(C[i].type) = ValuesOf(MergedType(C))
    BY <2>2, <2>3, MergedTypeFacts
  <2>6. ValuesOf(A[2].type) = ValuesOf(MergedType(C)) /\ ValuesOf(A[3].type) = ValuesOf(MergedType(C))
    <3>1. 1 \in 1 .. 2 /\ 2 \in 1 .. 2
      OBVIOUS
    <3> QED BY <2>2, <2>5, <3>1
  <2>7. Operate(op, v, B) = IF v[1] = None \/ v[1] = Throws THEN v[1] ELSE IF v[1] THEN v[2] ELSE v[3]
    BY <1>10 DEF Operate
  <2>8. Operate(op, v, B) \in {v[2], v[3]} \/ (v[1] \in {None, Throws} /\ Operate(op, v, B) = v[1])
    <3>1. CASE v[1] = None \/ v[1] = Throws
      BY <2>7, <3>1
    <3>2. CASE ~(v[1] = None \/ v[1] = Throws)
      BY <2>7, <3>2
    <3> QED BY <3>1, <3>2
  <2>9. 2 \in 1 .. n /\ 3 \in 1 .. n
    BY <2>1
  <2>10. Operate(op, v, B) \in ValuesOf(MergedType(C)) \union {None, Throws}
         /\ (Operate(op, v, B) = None => Nullable(A))
    BY <1>1, <1>3, <1>6, <2>6, <2>8, <2>9
  <2> QED BY <1>6, <1>7, <2>4, <2>5, <2>10
<1>11. CASE op \in Unary \union Binary
  <2>1. op \notin {"if", "and", "or", "coalesce"} /\ n \in {1, 2} /\ (op \in Binary => n = 2)
    BY <1>11 DEF Takes, Unary, Binary, Variadic, Comparisons
  <2>2. Operate(op, v, B) = Strict(op, v, MergedType(A))
    BY <1>2, <2>1 DEF Operate
  <2>3. CASE \E i \in DOMAIN v : v[i] = Throws
    <3>1. Operate(op, v, B) = Throws
      BY <2>2, <2>3 DEF Strict
    <3> QED BY <1>5, <3>1 DEF Allowed
  <2>4. CASE (~\E i \in DOMAIN v : v[i] = Throws) /\ \E i \in DOMAIN v : v[i] = None
    <3>1. Operate(op, v, B) = None
      BY <2>2, <2>4 DEF Strict
    <3>2. PICK i \in 1 .. n : v[i] = None
      BY <1>1, <2>4
    <3>3. Nullable(A) /\ (n = 1 => A[1].nullable)
      BY <1>3, <1>6, <3>2
    <3>4. InferOperation(op, A).nullable
      <4>1. CASE op = "not" \/ op \in Comparisons
        <5>1. InferOperation(op, A) = Field("boolean", Nullable(A))
          <6>1. CASE op = "not"
            BY <6>1 DEF InferOperation, Comparisons
          <6>2. CASE op \in Comparisons
            BY <6>2 DEF InferOperation, Comparisons
          <6> QED BY <4>1, <6>1, <6>2
        <5>2. Nullable(A) = TRUE
          BY <1>6, <3>3
        <5> QED BY <5>1, <5>2 DEF Field
      <4>2. CASE op \in {"add", "subtract", "multiply"}
        <5>1. InferOperation(op, A) = Field(Widest(A), Nullable(A))
          BY <4>2 DEF InferOperation, Comparisons
        <5> QED BY <1>4, <1>6, <3>3, <5>1, WidestFacts
      <4>3. CASE op = "safe_divide"
        <5>1. InferOperation(op, A) = Field("decimal", TRUE)
          BY <4>3 DEF InferOperation, Comparisons
        <5> QED BY <1>4, <5>1, TypesOfValues
      <4>4. CASE op \in Unary \ {"not"}
        <5>1. n = 1
          BY <4>4 DEF Takes, Unary, Binary, Variadic, Comparisons
        <5>2. \/ InferOperation(op, A) = Field("integer", A[1].nullable)
              \/ InferOperation(op, A) = Field("decimal", A[1].nullable)
              \/ InferOperation(op, A) = A[1]
          BY <4>4 DEF InferOperation, Comparisons, Unary
        <5> QED BY <1>4, <1>6, <3>3, <5>1, <5>2, TypesOfValues
      <4> QED BY <1>11, <4>1, <4>2, <4>3, <4>4 DEF Unary, Binary
    <3> QED BY <3>1, <3>4 DEF Allowed
  <2>5. CASE (~\E i \in DOMAIN v : v[i] = Throws) /\ ~\E i \in DOMAIN v : v[i] = None
    <3>1. Operate(op, v, B) = Compute(op, v, MergedType(A))
      BY <2>2, <2>5 DEF Strict
    <3>2. \A i \in 1 .. n : v[i] \in ValuesOf(A[i].type)
      BY <1>1, <1>3, <2>5
    <3>3. CASE op = "not"
      <4>1. InferOperation(op, A) = Field("boolean", Nullable(A)) /\ A[1].type = "boolean"
        BY <1>1, <3>3 DEF InferOperation, Comparisons, AllOf
      <4>2. v[1] \in BOOLEAN
        BY <1>1, <3>2, <4>1, TypesOfValues
      <4>3. Compute(op, v, MergedType(A)) = ~v[1]
        BY <3>3 DEF Compute, Comparisons
      <4>4. (~v[1]) \in BOOLEAN
        BY <4>2
      <4>5. Operate(op, v, B) \in BOOLEAN /\ Operate(op, v, B) # None
        BY <3>1, <4>3, <4>4, MarkersAreNoValues
      <4> QED BY <1>6, <1>7, <4>1, <4>5, TypesOfValues
    <3>4. CASE op \in Comparisons
      <4>1. n = 2 /\ 1 \in 1 .. n /\ 2 \in 1 .. n
        BY <3>4, <2>1 DEF Binary
      <4>2. Compatible(A[1].type, A[2].type) /\ InferOperation(op, A) = Field("boolean", Nullable(A))
        BY <3>4 DEF InferOperation, Comparisons
      <4>3. MergedType(A) # Invalid
        <5>1. ~\E i \in DOMAIN A : ~Compatible(A[1].type, A[i].type)
          BY <1>1, <4>1, <4>2 DEF Compatible
        <5>2. MergedType(A) \in Types
          <6>1. MergedType(A) \in {Widest(A), A[1].type}
            BY <5>1 DEF MergedType
          <6> QED BY <1>3, <4>1, <6>1, WidestFacts
        <5> QED BY <5>2, MarkersAreNoValues
      <4>4. MergedType(A) \in Types /\ v[1] \in ValuesOf(MergedType(A)) /\ v[2] \in ValuesOf(MergedType(A))
        BY <3>2, <4>1, <4>3, MergedTypeFacts
      <4>5. Operate(op, v, B) \in BOOLEAN \union {Throws}
        BY <3>1, <3>4, <4>4, ComparisonResults
      <4>6. Operate(op, v, B) # None
        BY <4>5, MarkersAreNoValues
      <4> QED BY <1>6, <1>7, <4>2, <4>5, <4>6, TypesOfValues
    <3>5. CASE op \in (Unary \ {"not"}) \union {"add", "subtract", "multiply", "safe_divide"}
      <4>1. AllOf(A, Numeric)
        BY <3>5 DEF InferOperation, Comparisons, Unary
      <4>2. \A i \in 1 .. n : A[i].type \in Numeric /\ v[i] \in Numbers
        <5>1. \A type \in Numeric : ValuesOf(type) = Numbers
          BY TypesOfValues DEF Numeric
        <5> QED BY <1>1, <3>2, <4>1, <5>1 DEF AllOf
      <4>3. v[1] \in Numbers /\ (op \in Binary => v[2] \in Numbers)
        BY <1>1, <2>1, <4>2
      <4>4. op \in {"add", "subtract", "multiply", "safe_divide"} => op \in Binary
        BY DEF Binary
      <4>5. /\ Compute(op, v, MergedType(A)) \in Numbers \union {None, Throws}
            /\ Compute(op, v, MergedType(A)) = None => op = "safe_divide"
        BY <3>5, <4>3, <4>4, NumericResults
      <4>6. InferOperation(op, A) \in Fields /\ InferOperation(op, A).type \in Numeric
        <5>1. InferOperation(op, A) \in Fields
          BY InferenceOfOperation
        <5>2. \/ InferOperation(op, A) = Field("integer", A[1].nullable)
              \/ InferOperation(op, A) = Field("decimal", A[1].nullable)
              \/ InferOperation(op, A) = Field("decimal", TRUE)
              \/ InferOperation(op, A) = A[1]
              \/ InferOperation(op, A) = Field(Widest(A), Nullable(A))
          BY <3>5, <4>1 DEF InferOperation, Comparisons, Unary
        <5>3. Widest(A) \in Numeric
          BY DEF Widest, Numeric
        <5>4. "integer" \in Numeric /\ "decimal" \in Numeric /\ A[1].type \in Numeric
          BY <1>1, <4>2 DEF Numeric
        <5> QED BY <5>1, <5>2, <5>3, <5>4 DEF Field
      <4>7. ValuesOf(InferOperation(op, A).type) = Numbers
        <5>1. \A type \in Numeric : ValuesOf(type) = Numbers
          BY TypesOfValues DEF Numeric
        <5> QED BY <4>6, <5>1
      <4>8. op = "safe_divide" => InferOperation(op, A).nullable
        BY <4>1 DEF InferOperation, Comparisons, Field
      <4> QED BY <3>1, <4>5, <4>7, <4>8 DEF Allowed
    <3> QED BY <1>11, <3>3, <3>4, <3>5 DEF Unary, Binary
  <2> QED BY <2>3, <2>4, <2>5
<1> QED BY <1>8, <1>9, <1>10, <1>11 DEF Takes, Variadic

-----------------------------------------------------------------------------
(* Expressions are sound *)

\* Two shapes that agree on the names and the types of their fields.
SameFields(s, t) ==
  /\ DOMAIN s = DOMAIN t
  /\ \A f \in DOMAIN s : s[f].type = t[f].type

\* What a part of a well-formed expression is.
IsPart(x) ==
  \/ x.op = "field"
  \/ x.op = "literal" /\ x.valueType \in Types /\ x.value \in ValuesOf(x.valueType) \union {None}
  \/ \E n \in Nat : Takes(x.op, n) /\ DOMAIN x.inputs = 1 .. n

\* All parts of a well-formed expression have the inputs their operators take.
LEMMA PartsAreWellFormed ==
  ASSUME NEW e, WellFormed(e)
  PROVE  /\ WellNested(e) /\ Closed(Parts(e)) /\ e \in Parts(e)
         /\ \A x \in Parts(e) : IsPart(x)
<1>1. WellNested(e)
  BY DEF WellFormed, WellNested
<1>2. ASSUME NEW x \in Parts(e) PROVE IsPart(x)
  <2>1. \/ x.op = "field"
        \/ x.op = "literal" /\ x.valueType \in Types
                            /\ x.value \in ValuesOf(x.valueType) \union {None}
        \/ x.op \in Unary /\ DOMAIN x.inputs = 1 .. 1
        \/ x.op \in Binary /\ DOMAIN x.inputs = 1 .. 2
        \/ x.op \in Variadic /\ \E n \in 2 .. 8 : DOMAIN x.inputs = 1 .. n
        \/ x.op = "if" /\ DOMAIN x.inputs = 1 .. 3
    BY DEF WellFormed
  <2>2. 1 \in Nat /\ 2 \in Nat /\ 3 \in Nat /\ \A n \in 2 .. 8 : n \in Nat
    OBVIOUS
  <2>3. CASE x.op \in Unary /\ DOMAIN x.inputs = 1 .. 1
    BY <2>2, <2>3 DEF IsPart, Takes
  <2>4. CASE x.op \in Binary /\ DOMAIN x.inputs = 1 .. 2
    BY <2>2, <2>4 DEF IsPart, Takes
  <2>5. CASE x.op \in Variadic /\ \E n \in 2 .. 8 : DOMAIN x.inputs = 1 .. n
    BY <2>2, <2>5 DEF IsPart, Takes
  <2>6. CASE x.op = "if" /\ DOMAIN x.inputs = 1 .. 3
    BY <2>2, <2>6 DEF IsPart, Takes
  <2> QED BY <2>1, <2>3, <2>4, <2>5, <2>6 DEF IsPart
<1> QED BY <1>1, <1>2, PartsAreClosed, PartFacts

\* What the soundness of an expression says.
Sound(x, s, t, row) ==
  InferExpression(x, s) # Invalid =>
    /\ InferExpression(x, s) \in Fields
    /\ InferExpression(x, t) \in Fields
    /\ InferExpression(x, t).type = InferExpression(x, s).type
    /\ Allowed(InferExpression(x, s), Evaluate(x, row, t))

\* An expression is sound if its operands are.
LEMMA OneExpressionIsSound ==
  ASSUME NEW s, NEW t, NEW row, IsShape(s), IsShape(t), SameFields(s, t), Fits(row, s),
         NEW x, WellNested(x), IsPart(x),
         \A y \in Operands(x) : Sound(y, s, t, row)
  PROVE  Sound(x, s, t, row)
<1> SUFFICES ASSUME InferExpression(x, s) # Invalid
             PROVE  /\ InferExpression(x, s) \in Fields
                    /\ InferExpression(x, t) \in Fields
                    /\ InferExpression(x, t).type = InferExpression(x, s).type
                    /\ Allowed(InferExpression(x, s), Evaluate(x, row, t))
  BY DEF Sound
<1>1. CASE x.op = "field"
  <2>1. InferExpression(x, s) = IF x.field \in DOMAIN s THEN s[x.field] ELSE Invalid
    BY <1>1, InferenceIsRecursive
  <2>2. InferExpression(x, t) = IF x.field \in DOMAIN t THEN t[x.field] ELSE Invalid
    BY <1>1, InferenceIsRecursive
  <2>3. Evaluate(x, row, t) = IF x.field \in DOMAIN row THEN row[x.field] ELSE Throws
    BY <1>1, EvaluationIsRecursive
  <2> DEFINE f == x.field
  <2>4. f \in DOMAIN s /\ InferExpression(x, s) = s[f] /\ f \in DOMAIN t /\ InferExpression(x, t) = t[f]
    BY <2>1, <2>2 DEF SameFields
  <2>5. s[f] \in Fields /\ t[f] \in Fields /\ t[f].type = s[f].type
    BY <2>4 DEF IsShape, Fields, SameFields
  <2>6. Allowed(s[f], Evaluate(x, row, t))
    <3>1. CASE f \in DOMAIN row
      <4>1. row[f] \in ValuesOf(s[f].type) \union {None}
        BY <3>1 DEF Fits
      <4>2. row[f] = None => s[f].nullable
        BY <2>4, <3>1 DEF Fits, Value
      <4> QED BY <2>3, <3>1, <4>1, <4>2 DEF Allowed
    <3>2. CASE f \notin DOMAIN row
      <4>1. Evaluate(x, row, t) = Throws /\ Throws # None
        BY <2>3, <3>2, MarkersAreNoValues
      <4> QED BY <4>1 DEF Allowed
    <3> QED BY <3>1, <3>2
  <2> QED BY <2>4, <2>5, <2>6
<1>2. CASE x.op = "literal"
  <2>1. /\ InferExpression(x, s) = Field(x.valueType, x.value = None)
        /\ InferExpression(x, t) = Field(x.valueType, x.value = None)
    <3>1. ASSUME NEW shape PROVE InferExpression(x, shape) = Field(x.valueType, x.value = None)
      <4> DEFINE L == Field(x.valueType, x.value = None)
                 F == IF x.field \in DOMAIN shape THEN shape[x.field] ELSE Invalid
                 inputs == [i \in DOMAIN x.inputs |-> InferExpression(x.inputs[i], shape)]
                 O == IF \E i \in DOMAIN inputs : inputs[i] = Invalid THEN Invalid
                      ELSE InferOperation(x.op, inputs)
      <4>1. InferExpression(x, shape) = CASE x.op = "field" -> F [] x.op = "literal" -> L [] OTHER -> O
        BY InferenceIsRecursive, Zenon
      <4> HIDE DEF L, F, O
      <4>2. InferExpression(x, shape) = L
        BY <1>2, <4>1
      <4> QED BY <4>2 DEF L
    <3> QED BY <3>1
  <2>2. Evaluate(x, row, t) = x.value
    BY <1>2, EvaluationIsRecursive
  <2>3. x.valueType \in Types /\ x.value \in ValuesOf(x.valueType) \union {None}
    BY <1>2 DEF IsPart, Takes, Unary, Binary, Variadic, Comparisons
  <2>4. PICK null \in BOOLEAN : null = (x.value = None)
    OBVIOUS
  <2>5. /\ Field(x.valueType, null) \in Fields
        /\ Field(x.valueType, null).type = x.valueType
        /\ Field(x.valueType, null).nullable = null
    BY <2>3, FieldFacts
  <2>6. Allowed(Field(x.valueType, null), x.value)
    BY <2>3, <2>4, <2>5 DEF Allowed
  <2> QED BY <2>1, <2>2, <2>4, <2>5, <2>6
<1>3. CASE x.op \notin {"field", "literal"}
  <2>1. PICK n \in Nat : Takes(x.op, n) /\ DOMAIN x.inputs = 1 .. n
    BY <1>3 DEF IsPart
  <2> DEFINE A == [i \in DOMAIN x.inputs |-> InferExpression(x.inputs[i], s)]
             B == [i \in DOMAIN x.inputs |-> InferExpression(x.inputs[i], t)]
             v == [i \in DOMAIN x.inputs |-> Evaluate(x.inputs[i], row, t)]
  <2>2. InferExpression(x, s) = IF \E i \in DOMAIN A : A[i] = Invalid THEN Invalid
                                ELSE InferOperation(x.op, A)
    BY <1>3, InferenceIsRecursive
  <2>3. InferExpression(x, t) = IF \E i \in DOMAIN B : B[i] = Invalid THEN Invalid
                                ELSE InferOperation(x.op, B)
    BY <1>3, InferenceIsRecursive
  <2>4. Evaluate(x, row, t) = Operate(x.op, v, B)
    BY <1>3, EvaluationIsRecursive
  <2>5. InferExpression(x, s) = InferOperation(x.op, A) /\ \A i \in 1 .. n : A[i] # Invalid
    BY <2>1, <2>2
  <2>6. ASSUME NEW i \in 1 .. n
        PROVE  A[i] \in Fields /\ B[i] \in Fields /\ A[i].type = B[i].type /\ Allowed(A[i], v[i])
    <3>1. x.inputs[i] \in Operands(x)
      BY <1>3, <2>1 DEF Operands
    <3>2. Sound(x.inputs[i], s, t, row)
      BY <3>1
    <3>3. /\ A[i] = InferExpression(x.inputs[i], s)
          /\ B[i] = InferExpression(x.inputs[i], t)
          /\ v[i] = Evaluate(x.inputs[i], row, t)
      BY <2>1
    <3>4. A[i] # Invalid
      BY <2>5
    <3> QED BY <3>2, <3>3, <3>4 DEF Sound
  <2>7. DOMAIN A = 1 .. n /\ DOMAIN B = 1 .. n /\ DOMAIN v = 1 .. n
    BY <2>1
  <2> HIDE DEF A, B, v
  <2>8. n >= 1
    BY <2>1 DEF Takes
  <2>9. Inferred(A, B, n) /\ ValuesFor(v, A, n)
    BY <2>6, <2>7, <2>8 DEF Inferred, ValuesFor
  <2>10. InferOperation(x.op, A) # Invalid
    BY <2>5
  <2>11. /\ InferOperation(x.op, A) \in Fields
         /\ InferOperation(x.op, B) \in Fields
         /\ InferOperation(x.op, A).type = InferOperation(x.op, B).type
    BY <2>1, <2>9, <2>10, InferenceOfOperation
  <2>12. Allowed(InferOperation(x.op, A), Operate(x.op, v, B))
    BY <2>1, <2>9, <2>10, OperationOnValues
  <2>13. InferExpression(x, t) = InferOperation(x.op, B)
    BY <2>3, <2>6, <2>7, FieldsAreValid
  <2> QED BY <2>4, <2>5, <2>11, <2>12, <2>13
<1> QED BY <1>1, <1>2, <1>3

\* The value of an expression the compiler accepts is of the type it inferred,
\* and null only where it said so.
THEOREM ExpressionsAreSound ==
  ASSUME NEW s, NEW t, NEW row, IsShape(s), IsShape(t), SameFields(s, t), Fits(row, s),
         NEW e, WellFormed(e)
  PROVE  Sound(e, s, t, row)
<1> DEFINE G == {x \in Parts(e) : Sound(x, s, t, row)}
<1>1. Closed(Parts(e)) /\ e \in Parts(e) /\ \A x \in Parts(e) : IsPart(x)
  BY PartsAreWellFormed
<1>2. ASSUME NEW x \in Parts(e), Operands(x) \subseteq G PROVE x \in G
  <2>1. \A y \in Operands(x) : Sound(y, s, t, row)
    BY <1>2
  <2>2. WellNested(x) /\ IsPart(x)
    BY <1>1 DEF Closed
  <2>3. Sound(x, s, t, row)
    BY <2>1, <2>2, OneExpressionIsSound
  <2> QED BY <2>3
<1>3. Parts(e) \subseteq G
  <2> HIDE DEF G
  <2> QED BY <1>1, <1>2, ExpressionInduction
<1> QED BY <1>1, <1>3

\* Types are inferred whatever the rows are.
LEMMA InferencesAgree ==
  ASSUME NEW s, NEW t, IsShape(s), IsShape(t), SameFields(s, t),
         NEW e, WellFormed(e), InferExpression(e, s) # Invalid
  PROVE  /\ InferExpression(e, s) \in Fields
         /\ InferExpression(e, t) \in Fields
         /\ InferExpression(e, t).type = InferExpression(e, s).type
<1> DEFINE row == [f \in DOMAIN s |-> CHOOSE v : v \in ValuesOf(s[f].type)]
<1>1. ASSUME NEW type \in Types PROVE \E v : v \in ValuesOf(type)
  <2>1. [c |-> 0, s |-> 0] \in Numbers
    BY DEF Numbers
  <2>2. TRUE \in BOOLEAN /\ 0 \in Int
    OBVIOUS
  <2> QED BY <2>1, <2>2, TypesOfValues
<1>2. ASSUME NEW f \in DOMAIN s PROVE row[f] \in ValuesOf(s[f].type) /\ row[f] # None
  <2>1. s[f].type \in Types
    BY DEF IsShape
  <2>2. row[f] = CHOOSE v : v \in ValuesOf(s[f].type)
    OBVIOUS
  <2>3. row[f] \in ValuesOf(s[f].type)
    BY <1>1, <2>1, <2>2
  <2> QED BY <2>1, <2>3, ValuesAreNoMarkers
<1>3. DOMAIN row = DOMAIN s
  OBVIOUS
<1> HIDE DEF row
<1>4. Fits(row, s)
  BY <1>2, <1>3 DEF Fits, Value
<1> QED BY <1>4, ExpressionsAreSound DEF Sound

-----------------------------------------------------------------------------
(* Lists of rows of a shape, and filters and maps of them *)

\* Rows of a compiled shape s, which are executed under the shape t.
Shaped(s, t, list) ==
  /\ IsShape(s) /\ IsShape(t) /\ SameFields(s, t)
  /\ IsSequence(list)
  /\ \A i \in DOMAIN list : Fits(list[i], s)

\* A function on 1 .. n is a list.
LEMMA ListFacts ==
  ASSUME NEW n \in Nat, NEW f, f = [i \in 1 .. n |-> f[i]]
  PROVE  IsSequence(f) /\ Len(f) = n /\ DOMAIN f = 1 .. n
<1>1. \A i \in 1 .. n : f[i] \in ToSet(f)
  BY DEF ToSet
<1>2. f \in [1 .. n -> ToSet(f)]
  BY <1>1
<1> QED BY <1>2, FunctionIsSequence DEF IsSequence

\* What a list is made of.
LEMMA SequenceFacts ==
  ASSUME NEW list, IsSequence(list)
  PROVE  /\ Len(list) \in Nat
         /\ DOMAIN list = 1 .. Len(list)
         /\ list = [i \in 1 .. Len(list) |-> list[i]]
         /\ \A x : x \in ToSet(list) <=> \E i \in DOMAIN list : x = list[i]
<1>1. list \in Seq(ToSet(list))
  BY DEF IsSequence
<1>2. Len(list) \in Nat /\ DOMAIN list = 1 .. Len(list) /\ list \in [1 .. Len(list) -> ToSet(list)]
  BY <1>1
<1>3. \A x : x \in ToSet(list) <=> \E i \in DOMAIN list : x = list[i]
  BY DEF ToSet
<1> QED BY <1>2, <1>3

\* Some of the elements of a list, in their order, are a list.
LEMMA PickedIsSequence ==
  ASSUME NEW list, IsSequence(list), NEW places \in SUBSET DOMAIN list
  PROVE  /\ IsSequence(Picked(list, places))
         /\ ToSet(Picked(list, places)) = {list[i] : i \in places}
         /\ \A n \in DOMAIN Picked(list, places) : \E i \in places : Picked(list, places)[n] = list[i]
<1>1. list \in Seq(ToSet(list))
  BY DEF IsSequence
<1>2. Picked(list, places) \in Seq(ToSet(list)) /\ ToSet(Picked(list, places)) = {list[i] : i \in places}
  BY <1>1, PickedFacts, PickedElements
<1> DEFINE p == Picked(list, places)
<1> HIDE DEF p
<1>3. Len(p) \in Nat /\ p = [i \in 1 .. Len(p) |-> p[i]]
  BY <1>2 DEF p
<1>4. IsSequence(p)
  BY <1>3, ListFacts
<1>5. \A n \in DOMAIN p : p[n] \in ToSet(p)
  BY DEF ToSet
<1>6. \A n \in DOMAIN p : \E i \in places : p[n] = list[i]
  BY <1>2, <1>5 DEF p
<1> QED BY <1>2, <1>4, <1>6 DEF p

\* Keeping some of the rows keeps the shape.
LEMMA KeptRowsFit ==
  ASSUME NEW s, NEW t, NEW list, Shaped(s, t, list), NEW verdicts,
         Keeping(list, verdicts) # Throws
  PROVE  Shaped(s, t, Keeping(list, verdicts))
<1> DEFINE places == {i \in DOMAIN list : verdicts[i]}
           p == Picked(list, places)
<1>1. Keeping(list, verdicts) = p
  BY DEF Keeping
<1>2. places \in SUBSET DOMAIN list
  OBVIOUS
<1>3. IsSequence(p) /\ \A n \in DOMAIN p : \E i \in places : p[n] = list[i]
  <2> HIDE DEF places
  <2> QED BY <1>2, PickedIsSequence DEF Shaped
<1> QED BY <1>1, <1>2, <1>3 DEF Shaped

\* A result none of whose rows threw is the list of these rows.
LEMMA AttemptFacts ==
  ASSUME NEW results, Attempt(results) # Throws
  PROVE  Attempt(results) = results /\ \A i \in DOMAIN results : results[i] # Throws
BY DEF Attempt

-----------------------------------------------------------------------------
\* What a predicate keeps fits the shape of its input.
LEMMA FilteredRowsFit ==
  ASSUME NEW s, NEW t, NEW list, Shaped(s, t, list), NEW p, FilterRows(p, list, t) # Throws
  PROVE  Shaped(s, t, FilterRows(p, list, t))
<1> DEFINE verdicts == [i \in DOMAIN list |-> EvaluatePredicate(p, list[i], t)]
<1>1. FilterRows(p, list, t) = Keeping(list, verdicts)
  BY DEF FilterRows
<1> HIDE DEF verdicts
<1> QED BY <1>1, KeptRowsFit

\* So does what an expression keeps.
LEMMA SelectedRowsFit ==
  ASSUME NEW s, NEW t, NEW list, Shaped(s, t, list), NEW e, FilterByExpression(e, list, t) # Throws
  PROVE  Shaped(s, t, FilterByExpression(e, list, t))
<1> DEFINE verdicts == [i \in DOMAIN list |->
             LET v == Evaluate(e, list[i], t) IN IF v = Throws THEN Throws ELSE v = TRUE]
<1>1. FilterByExpression(e, list, t) = Keeping(list, verdicts)
  BY Zenon DEF FilterByExpression
<1> HIDE DEF verdicts
<1> QED BY <1>1, KeptRowsFit

-----------------------------------------------------------------------------
\* The rows of a map fit the shape the compiler derived for it, as the value of a
\* well-formed expression is of the type inferred for it.
LEMMA MappedRowsFit ==
  ASSUME NEW s, NEW t, NEW list, Shaped(s, t, list),
         NEW o, WellConfigured(o), o.op = "map", MapShape(o, s) # Invalid,
         MapRows(o, list, t) # Throws
  PROVE  Shaped(MapShape(o, s), MapShape(o, t), MapRows(o, list, t))
<1> DEFINE E(f) == DefinitionOf(o, f).expression
<1>1. \A d \in ToSet(o.fields) : WellFormed(d.expression)
  BY DEF WellConfigured
<1>2. ASSUME NEW f \in Defined(o) PROVE DefinitionOf(o, f) \in ToSet(o.fields)
  BY DEF Defined, DefinitionOf
<1>3. \A d \in ToSet(o.fields) : InferExpression(d.expression, s) # Invalid
  BY DEF MapShape
<1>4. IsShape(s) /\ IsShape(t) /\ SameFields(s, t) /\ IsSequence(list)
      /\ \A i \in DOMAIN list : Fits(list[i], s)
  BY DEF Shaped
<1>5. ASSUME NEW d \in ToSet(o.fields)
      PROVE  /\ InferExpression(d.expression, s) \in Fields
             /\ InferExpression(d.expression, t) \in Fields
             /\ InferExpression(d.expression, t).type = InferExpression(d.expression, s).type
  BY <1>1, <1>3, <1>4, InferencesAgree
<1>6. \A d \in ToSet(o.fields) : InferExpression(d.expression, t) # Invalid
  BY <1>5, FieldsAreValid
<1>7. DOMAIN s = DOMAIN t
  BY <1>4 DEF SameFields
<1> DEFINE names == Defined(o) \union (IF o.mode = "extend" THEN DOMAIN s ELSE {})
<1>8. /\ MapShape(o, s) = [f \in names |-> IF f \in Defined(o) THEN InferExpression(E(f), s) ELSE s[f]]
      /\ MapShape(o, t) = [f \in names |-> IF f \in Defined(o) THEN InferExpression(E(f), t) ELSE t[f]]
  BY <1>3, <1>6, <1>7 DEF MapShape
<1>9. ASSUME NEW f \in names, f \notin Defined(o) PROVE f \in DOMAIN s /\ o.mode = "extend"
  BY <1>9
<1>10. /\ DOMAIN MapShape(o, s) = names /\ DOMAIN MapShape(o, t) = names
       /\ \A f \in Defined(o) : MapShape(o, s)[f] = InferExpression(E(f), s)
                             /\ MapShape(o, t)[f] = InferExpression(E(f), t)
       /\ \A f \in names : f \notin Defined(o) => MapShape(o, s)[f] = s[f] /\ MapShape(o, t)[f] = t[f]
       /\ Defined(o) \subseteq names
  <2> HIDE DEF E
  <2> QED BY <1>8
<1> DEFINE S == MapShape(o, s)
           T == MapShape(o, t)
<1>11. ASSUME NEW f \in names PROVE S[f] \in Fields /\ T[f] \in Fields /\ S[f].type = T[f].type
  <2>1. CASE f \in Defined(o)
    BY <1>2, <1>5, <1>10, <2>1
  <2>2. CASE f \notin Defined(o)
    <3>1. S[f] = s[f] /\ T[f] = t[f] /\ f \in DOMAIN s
      BY <1>9, <1>10, <2>2
    <3> QED BY <1>4, <1>7, <3>1 DEF IsShape, SameFields, Fields
  <2> QED BY <2>1, <2>2
<1>12. MapRows(o, list, t) = [i \in DOMAIN list |-> MapRow(o, list[i], t)]
       /\ \A i \in DOMAIN list : MapRow(o, list[i], t) # Throws
  <2> DEFINE results == [i \in DOMAIN list |-> MapRow(o, list[i], t)]
  <2>1. MapRows(o, list, t) = Attempt(results)
    BY DEF MapRows
  <2>2. Attempt(results) = results /\ \A i \in DOMAIN results : results[i] # Throws
    <3> HIDE DEF results
    <3> QED BY <2>1, AttemptFacts
  <2> QED BY <2>1, <2>2
<1>13. ASSUME NEW row, Fits(row, s), MapRow(o, row, t) # Throws PROVE Fits(MapRow(o, row, t), S)
  <2> DEFINE made == [f \in Defined(o) |-> Evaluate(E(f), row, t)]
             kept == Defined(o) \union (IF o.mode = "extend" THEN DOMAIN row ELSE {})
             R == MapRow(o, row, t)
  <2>1. R = [f \in kept |-> IF f \in Defined(o) THEN made[f] ELSE row[f]]
        /\ \A f \in Defined(o) : made[f] # Throws
    BY <1>13, Zenon DEF MapRow
  <2>2. ASSUME NEW f \in Defined(o) PROVE Allowed(S[f], made[f]) /\ made[f] # Throws
    <3>1. WellFormed(E(f)) /\ InferExpression(E(f), s) # Invalid
      BY <1>1, <1>2, <1>3
    <3>2. Allowed(InferExpression(E(f), s), Evaluate(E(f), row, t))
      <4> HIDE DEF E
      <4> QED BY <1>4, <1>13, <3>1, ExpressionsAreSound DEF Sound
    <3>3. S[f] = InferExpression(E(f), s) /\ made[f] = Evaluate(E(f), row, t)
      BY <1>10
    <3> HIDE DEF S, made, E
    <3> QED BY <2>1, <3>2, <3>3
  <2> HIDE DEF made, S, T
  <2>3. DOMAIN R = kept /\ (\A f \in Defined(o) : R[f] = made[f])
        /\ \A f \in kept : f \notin Defined(o) => R[f] = row[f] /\ f \in DOMAIN row /\ o.mode = "extend"
    BY <2>1
  <2> HIDE DEF R
  <2>4. DOMAIN row \subseteq DOMAIN s
    BY <1>13 DEF Fits
  <2>5. kept \subseteq names /\ Defined(o) \subseteq kept /\ DOMAIN S = names
    BY <1>10, <2>4 DEF S
  <2>6. ASSUME NEW f \in names, f \notin Defined(o)
        PROVE  S[f] = s[f] /\ f \in DOMAIN s /\ (f \in kept <=> f \in DOMAIN row)
    BY <1>9, <1>10, <2>6 DEF S
  <2>7. ASSUME NEW f \in DOMAIN R PROVE R[f] \in ValuesOf(S[f].type) \union {None}
    <3>1. CASE f \in Defined(o)
      BY <2>2, <2>3, <3>1 DEF Allowed
    <3>2. CASE f \notin Defined(o)
      BY <1>13, <2>3, <2>5, <2>6, <3>2 DEF Fits
    <3> QED BY <3>1, <3>2
  <2>8. ASSUME NEW f \in DOMAIN S, Value(R, f) = None PROVE S[f].nullable
    <3>1. CASE f \in Defined(o)
      <4>1. made[f] = None
        BY <2>3, <2>5, <2>8, <3>1 DEF Value
      <4> QED BY <2>2, <3>1, <4>1 DEF Allowed
    <3>2. CASE f \notin Defined(o)
      <4>1. f \in names
        BY <2>5
      <4>2. Value(row, f) = None
        <5>1. CASE f \in kept
          BY <2>3, <2>8, <3>2, <5>1 DEF Value
        <5>2. CASE f \notin kept
          BY <2>6, <3>2, <4>1, <5>2 DEF Value
        <5> QED BY <5>1, <5>2
      <4>3. s[f].nullable
        BY <1>13, <2>6, <3>2, <4>1, <4>2 DEF Fits
      <4> QED BY <2>6, <3>2, <4>1, <4>3
    <3> QED BY <3>1, <3>2
  <2>9. DOMAIN R \subseteq DOMAIN S
    BY <2>3, <2>5
  <2> QED BY <2>7, <2>8, <2>9 DEF Fits, R
<1> HIDE DEF S, T, E
<1>14. IsShape(S) /\ IsShape(T) /\ SameFields(S, T)
  BY <1>10, <1>11 DEF IsShape, SameFields, Fields, S, T
<1>15. IsSequence(MapRows(o, list, t))
       /\ \A i \in DOMAIN MapRows(o, list, t) : Fits(MapRows(o, list, t)[i], S)
  <2> DEFINE M == MapRows(o, list, t)
  <2>1. Len(list) \in Nat /\ DOMAIN list = 1 .. Len(list)
    BY <1>4, SequenceFacts
  <2>2. M = [i \in 1 .. Len(list) |-> M[i]] /\ \A i \in DOMAIN M : M[i] = MapRow(o, list[i], t) /\ i \in DOMAIN list
    BY <1>12, <2>1
  <2>3. \A i \in DOMAIN M : Fits(M[i], S)
    BY <1>4, <1>12, <1>13, <2>2
  <2> HIDE DEF M
  <2>4. IsSequence(M)
    BY <2>1, <2>2, ListFacts
  <2> QED BY <2>3, <2>4 DEF M
<1> QED BY <1>14, <1>15 DEF Shaped, S, T

-----------------------------------------------------------------------------
(* Outputs and unions *)

\* A set of natural numbers that is bounded and not empty has a greatest element.
LEMMA GreatestNumber ==
  ASSUME NEW N \in Nat, NEW T \in SUBSET (0 .. N), T # {}
  PROVE  \E n \in T : \A m \in T : m <= n
<1> DEFINE D == {d \in 0 .. N : N - d \in T}
<1>1. D \in SUBSET Nat
  OBVIOUS
<1>2. D # {}
  <2>1. PICK n \in T : TRUE
    OBVIOUS
  <2>2. N - n \in 0 .. N /\ N - (N - n) = n
    OBVIOUS
  <2> QED BY <2>2
<1>3. PICK d \in D : \A m \in D : d <= m
  <2> HIDE DEF D
  <2> QED BY <1>1, <1>2, LeastNumber
<1>4. ASSUME NEW m \in T PROVE m <= N - d
  <2>1. N - m \in 0 .. N /\ N - (N - m) = m
    OBVIOUS
  <2>2. d <= N - m
    BY <1>3, <2>1
  <2> QED BY <2>2
<1> QED BY <1>3, <1>4

\* The value of a declared field is of its type, or null where it may be.
LEMMA FieldOfRow ==
  ASSUME NEW s, NEW row, Fits(row, s), NEW f \in DOMAIN s
  PROVE  /\ Value(row, f) \in ValuesOf(s[f].type) \union {None}
         /\ Value(row, f) = None => s[f].nullable
BY DEF Fits, Value

\* A function on the places of a list is a list.
LEMMA ListOfLikeLength ==
  ASSUME NEW list, IsSequence(list), NEW f, f = [i \in DOMAIN list |-> f[i]]
  PROVE  IsSequence(f) /\ DOMAIN f = DOMAIN list /\ Len(f) = Len(list)
<1>1. Len(list) \in Nat /\ DOMAIN list = 1 .. Len(list)
  BY SequenceFacts
<1>2. f = [i \in 1 .. Len(list) |-> f[i]]
  BY <1>1
<1> HIDE <1>2
<1>3. IsSequence(f) /\ Len(f) = Len(list) /\ DOMAIN f = 1 .. Len(list)
  BY <1>1, <1>2, ListFacts
<1> QED BY <1>1, <1>3

\* An object spread over another one has the fields of both.
LEMMA OverFacts ==
  ASSUME NEW f, NEW g
  PROVE  /\ DOMAIN Over(f, g) = DOMAIN f \union DOMAIN g
         /\ \A x \in DOMAIN f : Over(f, g)[x] = f[x]
         /\ \A x \in DOMAIN g : x \notin DOMAIN f => Over(f, g)[x] = g[x]
BY DEF Over

-----------------------------------------------------------------------------
\* The rows of an output fit its shape.
LEMMA ProjectedRowsFit ==
  ASSUME NEW s, NEW t, NEW list, Shaped(s, t, list), NEW o, OutputShape(o, s) # Invalid
  PROVE  Shaped(OutputShape(o, s), OutputShape(o, t), OutputRows(o, list))
<1> DEFINE names == ToSet(o.fields)
           S == OutputShape(o, s)
           T == OutputShape(o, t)
           M == OutputRows(o, list)
<1>1. IsShape(s) /\ IsShape(t) /\ SameFields(s, t) /\ IsSequence(list)
      /\ \A i \in DOMAIN list : Fits(list[i], s)
  BY DEF Shaped
<1>2. names \subseteq DOMAIN s /\ S = [f \in names |-> s[f]] /\ T = [f \in names |-> t[f]]
  BY <1>1 DEF OutputShape, SameFields
<1>3. M = [i \in DOMAIN list |-> [f \in names |-> Value(list[i], f)]]
  BY DEF OutputRows
<1> HIDE DEF S, T, M, names
<1>4. IsShape(S) /\ IsShape(T) /\ SameFields(S, T)
  BY <1>1, <1>2 DEF IsShape, SameFields
<1>5. IsSequence(M) /\ DOMAIN M = DOMAIN list
  BY <1>1, <1>3, ListOfLikeLength
<1>6. ASSUME NEW i \in DOMAIN list PROVE Fits(M[i], S)
  <2>1. DOMAIN M[i] = names /\ DOMAIN S = names
        /\ \A f \in names : M[i][f] = Value(list[i], f) /\ S[f] = s[f]
    BY <1>2, <1>3
  <2>2. \A f \in names : /\ Value(list[i], f) \in ValuesOf(s[f].type) \union {None}
                         /\ Value(list[i], f) = None => s[f].nullable
    BY <1>1, <1>2, FieldOfRow
  <2>3. \A f \in names : Value(M[i], f) = Value(list[i], f)
    BY <2>1 DEF Value
  <2> QED BY <2>1, <2>2, <2>3 DEF Fits
<1> QED BY <1>4, <1>5, <1>6 DEF Shaped, S, T, M

-----------------------------------------------------------------------------
\* Types a union takes for one another have the same values.
LEMMA CompatibleValues ==
  ASSUME NEW p \in Types, NEW q \in Types, Compatible(p, q)
  PROVE  ValuesOf(p) = ValuesOf(q)
BY TypesOfValues DEF Compatible, Numeric

\* Both inputs of a union give its fields.
WideUnion(S, sl, sr) ==
  /\ DOMAIN S = DOMAIN sl /\ DOMAIN sl = DOMAIN sr
  /\ \A f \in DOMAIN S : /\ S[f] \in Fields
                         /\ ValuesOf(S[f].type) = ValuesOf(sl[f].type)
                         /\ ValuesOf(S[f].type) = ValuesOf(sr[f].type)
                         /\ (sl[f].nullable \/ sr[f].nullable) => S[f].nullable

\* A row of either input of a union fits its fields.
LEMMA RowOfUnion ==
  ASSUME NEW S, NEW sl, NEW sr, WideUnion(S, sl, sr), NEW row, Fits(row, sl) \/ Fits(row, sr)
  PROVE  Fits(row, S)
BY DEF WideUnion, Fits

\* It still does with the discriminator of its input.
LEMMA MarkedRowFits ==
  ASSUME NEW S, NEW row, Fits(row, S), NEW o, o.discriminator \notin DOMAIN S, NEW text \in Int
  PROVE  Fits(WithDiscriminator(o, row, text), WithDiscriminator(o, S, Field("string", FALSE)))
<1>1. CASE o.discriminator = None
  BY <1>1 DEF WithDiscriminator
<1>2. CASE o.discriminator # None
  <2> DEFINE name == o.discriminator
             m == [f \in {name} |-> text]
             g == [f \in {name} |-> Field("string", FALSE)]
             R == Over(m, row)
             Z == Over(g, S)
  <2>1. WithDiscriminator(o, row, text) = R /\ WithDiscriminator(o, S, Field("string", FALSE)) = Z
    BY <1>2 DEF WithDiscriminator
  <2>2. DOMAIN m = {name} /\ m[name] = text /\ DOMAIN g = {name} /\ g[name] = Field("string", FALSE)
    OBVIOUS
  <2> HIDE DEF m, g
  <2>3. /\ DOMAIN R = {name} \union DOMAIN row /\ R[name] = text
        /\ \A f \in DOMAIN row : f # name => R[f] = row[f]
    <3>1. /\ DOMAIN R = DOMAIN m \union DOMAIN row
          /\ \A x \in DOMAIN m : R[x] = m[x]
          /\ \A x \in DOMAIN row : x \notin DOMAIN m => R[x] = row[x]
      BY OverFacts
    <3> QED BY <2>2, <3>1
  <2>4. /\ DOMAIN Z = {name} \union DOMAIN S /\ Z[name] = Field("string", FALSE)
        /\ \A f \in DOMAIN S : f # name => Z[f] = S[f]
    <3>1. /\ DOMAIN Z = DOMAIN g \union DOMAIN S
          /\ \A x \in DOMAIN g : Z[x] = g[x]
          /\ \A x \in DOMAIN S : x \notin DOMAIN g => Z[x] = S[x]
      BY OverFacts
    <3> QED BY <2>2, <3>1
  <2> HIDE DEF R, Z
  <2>5. Z[name].type = "string" /\ text \in ValuesOf(Z[name].type) /\ text # None
    BY <2>4, TypesOfValues, ValuesAreNoMarkers, FieldFacts
  <2>6. DOMAIN row \subseteq DOMAIN S /\ name \notin DOMAIN S
    BY DEF Fits
  <2>7. ASSUME NEW f \in DOMAIN S PROVE Value(R, f) = Value(row, f) /\ Z[f] = S[f]
    BY <2>3, <2>4, <2>6 DEF Value
  <2>8. ASSUME NEW f \in DOMAIN R PROVE R[f] \in ValuesOf(Z[f].type) \union {None}
    <3>1. CASE f = name
      BY <2>3, <2>5, <3>1
    <3>2. CASE f # name
      BY <2>3, <2>4, <2>6, <3>2 DEF Fits
    <3> QED BY <3>1, <3>2
  <2>9. ASSUME NEW f \in DOMAIN Z, Value(R, f) = None PROVE Z[f].nullable
    <3>1. f # name
      BY <2>3, <2>5, <2>9 DEF Value
    <3> QED BY <2>4, <2>7, <2>9, <3>1 DEF Fits
  <2>10. DOMAIN R \subseteq DOMAIN Z
    BY <2>3, <2>4, <2>6
  <2> QED BY <2>1, <2>8, <2>9, <2>10 DEF Fits
<1> QED BY <1>1, <1>2

\* A discriminator is declared in the compiled and in the runtime shape.
LEMMA DiscriminatedShape ==
  ASSUME NEW S, NEW T, IsShape(S), IsShape(T), SameFields(S, T), NEW o
  PROVE  /\ IsShape(WithDiscriminator(o, S, Field("string", FALSE)))
         /\ IsShape(WithDiscriminator(o, T, Field("string", FALSE)))
         /\ SameFields(WithDiscriminator(o, S, Field("string", FALSE)),
                       WithDiscriminator(o, T, Field("string", FALSE)))
<1> DEFINE name == o.discriminator
           g == [f \in {name} |-> Field("string", FALSE)]
<1>1. CASE o.discriminator = None
  BY <1>1 DEF WithDiscriminator
<1>2. CASE o.discriminator # None
  <2>1. WithDiscriminator(o, S, Field("string", FALSE)) = Over(g, S)
        /\ WithDiscriminator(o, T, Field("string", FALSE)) = Over(g, T)
    BY <1>2 DEF WithDiscriminator
  <2>2. DOMAIN g = {name} /\ \A f \in DOMAIN g : g[f] = Field("string", FALSE)
    OBVIOUS
  <2> HIDE DEF g
  <2>3. Field("string", FALSE) \in [type : Types, nullable : BOOLEAN]
    BY FieldFacts, TypesOfValues DEF Fields
  <2>4. /\ DOMAIN Over(g, S) = {name} \union DOMAIN S /\ DOMAIN Over(g, T) = {name} \union DOMAIN T
        /\ Over(g, S)[name] = Field("string", FALSE) /\ Over(g, T)[name] = Field("string", FALSE)
        /\ \A f \in DOMAIN S : f # name => Over(g, S)[f] = S[f]
        /\ \A f \in DOMAIN T : f # name => Over(g, T)[f] = T[f]
    <3>1. /\ DOMAIN Over(g, S) = DOMAIN g \union DOMAIN S
          /\ \A x \in DOMAIN g : Over(g, S)[x] = g[x]
          /\ \A x \in DOMAIN S : x \notin DOMAIN g => Over(g, S)[x] = S[x]
      BY OverFacts
    <3>2. /\ DOMAIN Over(g, T) = DOMAIN g \union DOMAIN T
          /\ \A x \in DOMAIN g : Over(g, T)[x] = g[x]
          /\ \A x \in DOMAIN T : x \notin DOMAIN g => Over(g, T)[x] = T[x]
      BY OverFacts
    <3> QED BY <2>2, <3>1, <3>2
  <2>5. DOMAIN S = DOMAIN T /\ \A f \in DOMAIN S : S[f].type = T[f].type
    BY DEF SameFields
  <2>6. SameFields(Over(g, S), Over(g, T))
    <3>1. ASSUME NEW f \in DOMAIN Over(g, S) PROVE Over(g, S)[f].type = Over(g, T)[f].type
      <4>1. CASE f = name
        BY <2>4, <4>1
      <4>2. CASE f # name
        BY <2>4, <2>5, <4>2
      <4> QED BY <4>1, <4>2
    <3> QED BY <2>4, <2>5, <3>1 DEF SameFields
  <2>7. IsShape(Over(g, S)) /\ IsShape(Over(g, T))
    BY <2>3, <2>4 DEF IsShape
  <2> QED BY <2>1, <2>6, <2>7
<1> QED BY <1>1, <1>2

\* The rows of a union fit the shape the compiler derived for it.
LEMMA UnitedRowsFit ==
  ASSUME NEW sl, NEW tl, NEW left, Shaped(sl, tl, left),
         NEW sr, NEW tr, NEW right, Shaped(sr, tr, right),
         NEW o, UnionShape(o, sl, sr) # Invalid
  PROVE  Shaped(UnionShape(o, sl, sr), UnionRuntimeShape(o, tl), UnionRows(o, left, right))
<1> DEFINE mark == Field("string", FALSE)
           W == [f \in DOMAIN sl |-> Field(sl[f].type, sl[f].nullable \/ sr[f].nullable)]
           M == UnionRows(o, left, right)
           a == Marked(o, left, LeftText)
           b == Marked(o, right, RightText)
<1>1. /\ DOMAIN sl = DOMAIN sr /\ o.discriminator \notin DOMAIN sl
      /\ \A f \in DOMAIN sl : Compatible(sl[f].type, sr[f].type)
      /\ UnionShape(o, sl, sr) = WithDiscriminator(o, W, mark)
  BY DEF UnionShape
<1>2. /\ IsShape(sl) /\ IsShape(tl) /\ SameFields(sl, tl) /\ IsSequence(left) /\ IsShape(sr)
      /\ IsSequence(right)
      /\ \A i \in DOMAIN left : Fits(left[i], sl)
      /\ \A i \in DOMAIN right : Fits(right[i], sr)
  BY DEF Shaped
<1>3. DOMAIN W = DOMAIN sl
  OBVIOUS
<1>4. ASSUME NEW f \in DOMAIN sl
      PROVE  /\ W[f] \in Fields /\ W[f].type = sl[f].type
             /\ (sl[f].nullable \/ sr[f].nullable) => W[f].nullable
             /\ ValuesOf(sl[f].type) = ValuesOf(sr[f].type)
  <2>1. sl[f].type \in Types /\ sr[f].type \in Types
    BY <1>1, <1>2 DEF IsShape
  <2>2. PICK null \in BOOLEAN : null = (sl[f].nullable \/ sr[f].nullable)
    OBVIOUS
  <2>3. W[f] = Field(sl[f].type, null)
    BY <2>2
  <2> QED BY <1>1, <2>1, <2>2, <2>3, FieldFacts, CompatibleValues
<1> HIDE DEF W
<1>5. WideUnion(W, sl, sr)
  BY <1>1, <1>3, <1>4 DEF WideUnion
<1>6. IsShape(W) /\ SameFields(W, tl)
  BY <1>2, <1>3, <1>4 DEF IsShape, SameFields, Fields
<1> DEFINE S == WithDiscriminator(o, W, mark)
           T == UnionRuntimeShape(o, tl)
<1>7. IsShape(S) /\ IsShape(T) /\ SameFields(S, T)
  BY <1>2, <1>6, DiscriminatedShape DEF UnionRuntimeShape
<1>8. ASSUME NEW row, Fits(row, sl) \/ Fits(row, sr), NEW text \in Int
      PROVE  Fits(WithDiscriminator(o, row, text), S)
  BY <1>1, <1>3, <1>5, <1>8, RowOfUnion, MarkedRowFits
<1>9. LeftText \in Int /\ RightText \in Int
  BY DEF LeftText, RightText
<1>10. /\ DOMAIN a = DOMAIN left /\ \A i \in DOMAIN left : a[i] = WithDiscriminator(o, left[i], LeftText)
       /\ DOMAIN b = DOMAIN right /\ \A i \in DOMAIN right : b[i] = WithDiscriminator(o, right[i], RightText)
       /\ a = [i \in DOMAIN left |-> a[i]] /\ b = [i \in DOMAIN right |-> b[i]]
  BY DEF Marked
<1>11. M = a \o b
  BY DEF UnionRows
<1> HIDE DEF a, b, S, T, M
<1>12. IsSequence(a) /\ IsSequence(b)
  BY <1>2, <1>10, ListOfLikeLength
<1> DEFINE D == ToSet(a) \union ToSet(b)
<1>13. ASSUME NEW x \in D PROVE Fits(x, S)
  <2>1. CASE x \in ToSet(a)
    <3>1. PICK i \in DOMAIN left : x = a[i]
      BY <1>10, <2>1 DEF ToSet
    <3> QED BY <1>2, <1>8, <1>9, <1>10, <3>1
  <2>2. CASE x \in ToSet(b)
    <3>1. PICK i \in DOMAIN right : x = b[i]
      BY <1>10, <2>2 DEF ToSet
    <3> QED BY <1>2, <1>8, <1>9, <1>10, <3>1
  <2> QED BY <2>1, <2>2
<1>14. a \in Seq(D) /\ b \in Seq(D)
  <2>1. a \in Seq(ToSet(a)) /\ b \in Seq(ToSet(b))
    BY <1>12 DEF IsSequence
  <2> QED BY <2>1
<1> HIDE DEF D
<1>15. M \in Seq(D)
  BY <1>11, <1>14
<1>16. Len(M) \in Nat /\ M = [i \in 1 .. Len(M) |-> M[i]] /\ \A i \in DOMAIN M : M[i] \in D
  BY <1>15
<1>17. IsSequence(M)
  BY <1>16, ListFacts
<1>18. \A i \in DOMAIN M : Fits(M[i], S)
  BY <1>13, <1>16
<1> QED BY <1>1, <1>7, <1>17, <1>18 DEF Shaped, S, T, M

-----------------------------------------------------------------------------
(* Joins *)

\* The right keys a join looks for in left rows of shape s are there.
KeysThere(o, s, row) == RightKeys(o) \intersect DOMAIN s \subseteq DOMAIN row

\* What a join asks of its inputs, and the names it adds.
Joins(o, sl, sr, added) ==
  /\ added = DOMAIN sr \ (RightKeys(o) \intersect DOMAIN sl)
  /\ \A f \in added : Prefixed(o, f) \notin DOMAIN sl
  /\ \A f, g \in added : Prefixed(o, f) = Prefixed(o, g) => f = g

\* The names a join gives some fields.
Renamed(o, fields) == {Prefixed(o, f) : f \in fields}

\* A prefixed name stands for a field that was added.
LEMMA RenamedFacts ==
  ASSUME NEW o, NEW fields
  PROVE  /\ \A f \in fields : Prefixed(o, f) \in Renamed(o, fields)
         /\ \A x \in Renamed(o, fields) : \E f \in fields : x = Prefixed(o, f)
BY DEF Renamed

\* R extends row by renamed fields of another row.
Extended(R, o, row, found, names) ==
  /\ DOMAIN R = DOMAIN row \union Renamed(o, names)
  /\ \A f \in names : R[Prefixed(o, f)] = found[f]
  /\ \A f \in DOMAIN row : f \notin Renamed(o, names) => R[f] = row[f]

\* A prefix that keeps names apart can be taken off again.
LEMMA OriginalFacts ==
  ASSUME NEW o, NEW l, NEW r, NEW f \in Added(o, l, r),
         \A g \in Added(o, l, r) : Prefixed(o, f) = Prefixed(o, g) => f = g
  PROVE  Original(o, l, r, Prefixed(o, f)) = f
BY DEF Original

\* What a join declares a field of the right shape r to be.
Declared(field, o, r, f) ==
  /\ field \in Fields
  /\ field.type = r[f].type
  /\ o.type = "left" \/ r[f].nullable => field.nullable

\* J is the shape a join makes of the shapes l and r.
JoinedAs(J, o, l, r, added) ==
  /\ DOMAIN J = DOMAIN l \union Renamed(o, added)
  /\ \A f \in added : Declared(J[Prefixed(o, f)], o, r, f)
  /\ \A f \in DOMAIN l : J[f] = l[f]

\* What the shape of a join declares.
LEMMA JoinedShapeFacts ==
  ASSUME NEW o, NEW sl, NEW sr, NEW added, Joins(o, sl, sr, added),
         NEW l, NEW r, DOMAIN l = DOMAIN sl, DOMAIN r = DOMAIN sr, IsShape(r)
  PROVE  JoinedAs(JoinRuntimeShape(o, l, r), o, l, r, added)
<1> DEFINE names == Renamed(o, added)
           m == [name \in names |->
                  LET field == r[Original(o, l, r, name)]
                  IN  Field(field.type, o.type = "left" \/ field.nullable)]
           J == JoinRuntimeShape(o, l, r)
<1>1. Added(o, l, r) = added
  BY DEF Joins, Added
<1>2. J = Over(m, l)
  BY <1>1, Zenon DEF JoinRuntimeShape, Renamed
<1>3. ASSUME NEW f \in added PROVE m[Prefixed(o, f)] = Field(r[f].type, o.type = "left" \/ r[f].nullable)
  <2>1. Original(o, l, r, Prefixed(o, f)) = f
    BY <1>1, OriginalFacts DEF Joins
  <2>2. Prefixed(o, f) \in names
    BY RenamedFacts
  <2> DEFINE name == Prefixed(o, f)
  <2> HIDE DEF name
  <2>3. name \in names => m[name] = Field(r[Original(o, l, r, name)].type,
                                          o.type = "left" \/ r[Original(o, l, r, name)].nullable)
    BY Zenon
  <2>4. Original(o, l, r, name) = f
    BY <2>1 DEF name
  <2>5. m[name] = Field(r[f].type, o.type = "left" \/ r[f].nullable)
    <3> HIDE DEF m, names
    <3> QED BY <2>2, <2>3, <2>4, Zenon DEF name
  <2> QED BY <2>5 DEF name
<1>4. DOMAIN m = names
  OBVIOUS
<1>5. /\ DOMAIN J = DOMAIN m \union DOMAIN l
      /\ \A x \in DOMAIN m : J[x] = m[x]
      /\ \A x \in DOMAIN l : x \notin DOMAIN m => J[x] = l[x]
  <2> HIDE DEF m, J
  <2>1. /\ DOMAIN Over(m, l) = DOMAIN m \union DOMAIN l
        /\ \A x \in DOMAIN m : Over(m, l)[x] = m[x]
        /\ \A x \in DOMAIN l : x \notin DOMAIN m => Over(m, l)[x] = l[x]
    BY OverFacts
  <2> QED BY <1>2, <2>1
<1>6. \A f \in added : Prefixed(o, f) \in names
  BY RenamedFacts
<1>7. \A x \in DOMAIN l : x \notin names
  BY RenamedFacts DEF Joins
<1>8. ASSUME NEW f \in added PROVE Declared(J[Prefixed(o, f)], o, r, f)
  <2> HIDE DEF m, J, names
  <2>1. J[Prefixed(o, f)] = m[Prefixed(o, f)]
    BY <1>4, <1>5, <1>6
  <2>2. J[Prefixed(o, f)] = Field(r[f].type, o.type = "left" \/ r[f].nullable)
    BY <1>3, <2>1, Zenon
  <2>3. PICK null \in BOOLEAN : null = (o.type = "left" \/ r[f].nullable)
    OBVIOUS
  <2>4. r[f].type \in Types
    BY DEF IsShape, Joins
  <2>5. J[Prefixed(o, f)] = Field(r[f].type, null)
    BY <2>2, <2>3
  <2> QED BY <2>3, <2>4, <2>5, FieldFacts DEF Declared
<1> HIDE DEF m, J
<1>9. DOMAIN J = DOMAIN l \union names
  BY <1>4, <1>5
<1>10. \A f \in DOMAIN l : J[f] = l[f]
  BY <1>4, <1>5, <1>7
<1> QED BY <1>8, <1>9, <1>10 DEF J, JoinedAs

\* The compiled and the runtime shape of a join agree.
LEMMA ShapesOfJoin ==
  ASSUME NEW o, NEW sl, NEW sr, NEW added, Joins(o, sl, sr, added),
         NEW tl, NEW tr, IsShape(sl), IsShape(sr), IsShape(tl), IsShape(tr),
         SameFields(sl, tl), SameFields(sr, tr)
  PROVE  /\ IsShape(JoinRuntimeShape(o, sl, sr)) /\ IsShape(JoinRuntimeShape(o, tl, tr))
         /\ SameFields(JoinRuntimeShape(o, sl, sr), JoinRuntimeShape(o, tl, tr))
<1> DEFINE names == Renamed(o, added)
           S == JoinRuntimeShape(o, sl, sr)
           T == JoinRuntimeShape(o, tl, tr)
<1>1. DOMAIN tl = DOMAIN sl /\ DOMAIN tr = DOMAIN sr
  BY DEF SameFields
<1>2. JoinedAs(S, o, sl, sr, added) /\ JoinedAs(T, o, tl, tr, added)
  <2>1. JoinedAs(JoinRuntimeShape(o, sl, sr), o, sl, sr, added)
    BY JoinedShapeFacts
  <2>2. JoinedAs(JoinRuntimeShape(o, tl, tr), o, tl, tr, added)
    BY <1>1, JoinedShapeFacts
  <2> QED BY <2>1, <2>2
<1> HIDE DEF S, T
<1>3. /\ DOMAIN S = DOMAIN sl \union names /\ DOMAIN T = DOMAIN sl \union names
      /\ \A f \in DOMAIN sl : S[f] = sl[f] /\ T[f] = tl[f]
  BY <1>1, <1>2 DEF JoinedAs
<1>4. \A f \in added : Declared(S[Prefixed(o, f)], o, sr, f) /\ Declared(T[Prefixed(o, f)], o, tr, f)
  BY <1>2 DEF JoinedAs
<1>5. \A f \in added : sr[f].type = tr[f].type
  BY DEF Joins, SameFields
<1>6. ASSUME NEW x \in DOMAIN S
      PROVE  /\ S[x] \in [type : Types, nullable : BOOLEAN] /\ T[x] \in [type : Types, nullable : BOOLEAN]
             /\ S[x].type = T[x].type
  <2>1. CASE x \in DOMAIN sl
    BY <1>1, <1>3, <2>1 DEF IsShape, SameFields
  <2>2. CASE x \in names
    <3>1. PICK f \in added : x = Prefixed(o, f)
      BY <2>2, RenamedFacts
    <3> QED BY <1>4, <1>5, <3>1 DEF Declared, Fields
  <2> QED BY <1>3, <2>1, <2>2
<1> QED BY <1>3, <1>6 DEF S, T, IsShape, SameFields

\* A left row with the fields of a right row fits the shape of a join, if no right
\* key is missing from it that the left shape declares.
LEMMA ExtendedRowFits ==
  ASSUME NEW o, NEW sl, NEW sr, NEW added, Joins(o, sl, sr, added), IsShape(sr),
         NEW row, Fits(row, sl), KeysThere(o, sl, row), NEW found, Fits(found, sr),
         NEW R, Extended(R, o, row, found, DOMAIN found \ (RightKeys(o) \intersect DOMAIN row))
  PROVE  Fits(R, JoinRuntimeShape(o, sl, sr))
<1> DEFINE S == JoinRuntimeShape(o, sl, sr)
           names == Renamed(o, added)
           got == DOMAIN found \ (RightKeys(o) \intersect DOMAIN row)
<1>1. /\ DOMAIN S = DOMAIN sl \union names
      /\ \A f \in added : Declared(S[Prefixed(o, f)], o, sr, f)
      /\ \A f \in DOMAIN sl : S[f] = sl[f]
  <2>1. JoinedAs(S, o, sl, sr, added)
    BY JoinedShapeFacts
  <2> QED BY <2>1 DEF JoinedAs
<1>2. DOMAIN row \subseteq DOMAIN sl /\ DOMAIN found \subseteq DOMAIN sr
  BY DEF Fits
<1>3. got \subseteq added /\ \A f \in added : f \in DOMAIN found => f \in got
  BY <1>2 DEF Joins, KeysThere
<1>4. added \subseteq DOMAIN sr
  BY DEF Joins
<1>5. ASSUME NEW f \in added
      PROVE  S[Prefixed(o, f)].type = sr[f].type /\ (sr[f].nullable => S[Prefixed(o, f)].nullable)
  BY <1>1 DEF Declared
<1> HIDE DEF S, got
<1>6. /\ DOMAIN R = DOMAIN row \union Renamed(o, got)
      /\ \A f \in got : R[Prefixed(o, f)] = found[f]
      /\ \A f \in DOMAIN row : R[f] = row[f]
  <2>1. \A f \in DOMAIN row : f \notin Renamed(o, got)
    BY <1>2, <1>3, RenamedFacts DEF Joins
  <2> QED BY <2>1 DEF Extended, got
<1>7. DOMAIN R \subseteq DOMAIN S
  <2>1. Renamed(o, got) \subseteq names
    BY <1>3, RenamedFacts
  <2> QED BY <1>1, <1>2, <1>6, <2>1
<1>8. ASSUME NEW x \in DOMAIN R PROVE R[x] \in ValuesOf(S[x].type) \union {None}
  <2>1. CASE x \in DOMAIN row
    BY <1>1, <1>2, <1>6, <2>1 DEF Fits
  <2>2. CASE x \in Renamed(o, got)
    <3>1. PICK f \in got : x = Prefixed(o, f)
      BY <2>2, RenamedFacts
    <3>2. f \in DOMAIN found /\ f \in added
      BY <1>3, <3>1 DEF got
    <3>3. R[x] = found[f] /\ S[x].type = sr[f].type
      BY <1>5, <1>6, <3>1, <3>2
    <3> QED BY <3>2, <3>3 DEF Fits
  <2> QED BY <1>6, <2>1, <2>2
<1>9. ASSUME NEW x \in DOMAIN S, Value(R, x) = None PROVE S[x].nullable
  <2>1. CASE x \in DOMAIN sl
    <3>1. x \notin names
      BY <2>1, RenamedFacts DEF Joins
    <3>2. x \in DOMAIN R <=> x \in DOMAIN row
      BY <1>3, <1>6, <3>1, RenamedFacts
    <3>3. Value(row, x) = None
      BY <1>6, <1>9, <3>2 DEF Value
    <3> QED BY <1>1, <2>1, <3>3 DEF Fits
  <2>2. CASE x \in names
    <3>1. PICK f \in added : x = Prefixed(o, f)
      BY <2>2, RenamedFacts
    <3>2. Value(found, f) = None
      <4>1. CASE f \in DOMAIN found
        <5>1. f \in got /\ x \in DOMAIN R /\ R[x] = found[f]
          BY <1>3, <1>6, <3>1, <4>1, RenamedFacts
        <5> QED BY <1>9, <4>1, <5>1 DEF Value
      <4>2. CASE f \notin DOMAIN found
        BY <4>2 DEF Value
      <4> QED BY <4>1, <4>2
    <3>3. sr[f].nullable
      BY <1>4, <3>1, <3>2 DEF Fits
    <3> QED BY <1>5, <3>1, <3>3
  <2> QED BY <1>1, <2>1, <2>2
<1> QED BY <1>7, <1>8, <1>9 DEF Fits, S

\* A left row without a match fits the shape of a left join.
LEMMA LeftRowFits ==
  ASSUME NEW o, o.type = "left", NEW sl, NEW sr, NEW added, Joins(o, sl, sr, added), IsShape(sr),
         NEW row, Fits(row, sl)
  PROVE  Fits(row, JoinRuntimeShape(o, sl, sr))
<1> DEFINE S == JoinRuntimeShape(o, sl, sr)
           names == Renamed(o, added)
<1>1. /\ DOMAIN S = DOMAIN sl \union names
      /\ \A f \in added : Declared(S[Prefixed(o, f)], o, sr, f)
      /\ \A f \in DOMAIN sl : S[f] = sl[f]
  <2>1. JoinedAs(S, o, sl, sr, added)
    BY JoinedShapeFacts
  <2> QED BY <2>1 DEF JoinedAs
<1>2. ASSUME NEW f \in added PROVE S[Prefixed(o, f)].nullable
  BY <1>1 DEF Declared
<1> HIDE DEF S
<1>3. ASSUME NEW x \in DOMAIN S, Value(row, x) = None PROVE S[x].nullable
  <2>1. CASE x \in DOMAIN sl
    BY <1>1, <1>3, <2>1 DEF Fits
  <2>2. CASE x \in names
    BY <1>2, <2>2, RenamedFacts
  <2> QED BY <1>1, <2>1, <2>2
<1> QED BY <1>1, <1>3 DEF Fits, S

\* Of the right rows with a key one is found, the last.
LEMMA FoundRow ==
  ASSUME NEW right, IsSequence(right), NEW o, NEW row, Matches(o, row, right) # {}
  PROVE  (CHOOSE j \in Matches(o, row, right) : \A k \in Matches(o, row, right) : k <= j)
           \in Matches(o, row, right)
<1> DEFINE m == Matches(o, row, right)
<1>1. Len(right) \in Nat /\ DOMAIN right = 1 .. Len(right)
  BY SequenceFacts
<1>2. m \in SUBSET (0 .. Len(right))
  BY <1>1 DEF Matches
<1> HIDE DEF m
<1>3. \E j \in m : \A k \in m : k <= j
  BY <1>1, <1>2, GreatestNumber DEF m
<1> QED BY <1>3 DEF m

\* A left row with a match is extended by the fields of a right row.
LEMMA JoinRowExtends ==
  ASSUME NEW o, NEW sl, NEW sr, NEW added, Joins(o, sl, sr, added),
         NEW row, Fits(row, sl), KeysThere(o, sl, row), NEW right, IsSequence(right),
         \A j \in DOMAIN right : Fits(right[j], sr), Matches(o, row, right) # {}
  PROVE  \E j \in Matches(o, row, right) :
           Extended(JoinRow(o, row, right), o, row, right[j],
                    DOMAIN right[j] \ (RightKeys(o) \intersect DOMAIN row))
<1> DEFINE m == Matches(o, row, right)
           j == CHOOSE j \in m : \A k \in m : k <= j
<1>1. j \in m
  BY FoundRow
<1>2. j \in DOMAIN right
  BY <1>1 DEF Matches
<1> DEFINE found == right[j]
           got == DOMAIN found \ (RightKeys(o) \intersect DOMAIN row)
           names == Renamed(o, got)
           a == [name \in names |-> found[Original(o, row, found, name)]]
           R == JoinRow(o, row, right)
<1>3. Added(o, row, found) = got
  BY DEF Added
<1>4. R = Over(a, row)
  BY <1>3, Zenon DEF JoinRow, Renamed
<1>5. Fits(found, sr)
  BY <1>2
<1> HIDE DEF j, m, found
<1>6. got \subseteq added
  BY <1>5 DEF Joins, KeysThere, Fits
<1>7. ASSUME NEW f \in got PROVE a[Prefixed(o, f)] = found[f]
  <2>1. Original(o, row, found, Prefixed(o, f)) = f
    BY <1>3, <1>6, OriginalFacts DEF Joins
  <2>2. Prefixed(o, f) \in names
    BY RenamedFacts
  <2> HIDE DEF names
  <2> QED BY <2>1, <2>2
<1>8. DOMAIN a = names
  OBVIOUS
<1> HIDE DEF a, R
<1>9. /\ DOMAIN R = DOMAIN a \union DOMAIN row
      /\ \A x \in DOMAIN a : R[x] = a[x]
      /\ \A x \in DOMAIN row : x \notin DOMAIN a => R[x] = row[x]
  <2>1. /\ DOMAIN Over(a, row) = DOMAIN a \union DOMAIN row
        /\ \A x \in DOMAIN a : Over(a, row)[x] = a[x]
        /\ \A x \in DOMAIN row : x \notin DOMAIN a => Over(a, row)[x] = row[x]
    BY OverFacts
  <2> QED BY <1>4, <2>1
<1>10. Extended(R, o, row, found, got)
  <2>1. \A f \in got : Prefixed(o, f) \in names
    BY RenamedFacts
  <2>2. \A f \in got : R[Prefixed(o, f)] = found[f]
    BY <1>7, <1>8, <1>9, <2>1
  <2> HIDE DEF got
  <2> QED BY <1>8, <1>9, <2>2 DEF Extended
<1> QED BY <1>1, <1>10 DEF R, found, got, m

\* The rows of a join fit the shape the compiler derived for it.
LEMMA JoinedRowsFit ==
  ASSUME NEW sl, NEW tl, NEW left, Shaped(sl, tl, left),
         NEW sr, NEW tr, NEW right, Shaped(sr, tr, right),
         NEW o, WellConfigured(o), o.op = "join", JoinShape(o, sl, sr) # Invalid,
         \A i \in DOMAIN left : KeysThere(o, sl, left[i])
  PROVE  Shaped(JoinShape(o, sl, sr), JoinRuntimeShape(o, tl, tr), JoinRows(o, left, right))
<1> DEFINE added == Added(o, sl, sr)
           S == JoinRuntimeShape(o, sl, sr)
           T == JoinRuntimeShape(o, tl, tr)
           places == {i \in DOMAIN left : o.type = "left" \/ Matches(o, left[i], right) # {}}
           matched == Joined(o, left, right)
           M == JoinRows(o, left, right)
<1>1. /\ JoinShape(o, sl, sr) = S
      /\ \A f \in added : Prefixed(o, f) \notin DOMAIN sl
      /\ \A f \in added : \A g \in added : Prefixed(o, f) = Prefixed(o, g) => f = g
  BY DEF JoinShape
<1>2. Joins(o, sl, sr, added)
  BY <1>1 DEF Joins, Added
<1>3. /\ IsShape(sl) /\ IsShape(tl) /\ SameFields(sl, tl) /\ IsSequence(left)
      /\ IsShape(sr) /\ IsShape(tr) /\ SameFields(sr, tr) /\ IsSequence(right)
      /\ \A i \in DOMAIN left : Fits(left[i], sl)
      /\ \A i \in DOMAIN right : Fits(right[i], sr)
  BY DEF Shaped
<1> HIDE DEF added
<1>4. IsShape(S) /\ IsShape(T) /\ SameFields(S, T)
  BY <1>2, <1>3, ShapesOfJoin
<1> HIDE DEF S, T
<1>5. ASSUME NEW i \in places PROVE Fits(JoinRow(o, left[i], right), S)
  <2>1. CASE Matches(o, left[i], right) # {}
    <3>1. PICK j \in Matches(o, left[i], right) :
            Extended(JoinRow(o, left[i], right), o, left[i], right[j],
                     DOMAIN right[j] \ (RightKeys(o) \intersect DOMAIN left[i]))
      BY <1>2, <1>3, <2>1, JoinRowExtends
    <3>2. Fits(right[j], sr)
      BY <1>3 DEF Matches
    <3> QED BY <1>2, <1>3, <3>1, <3>2, ExtendedRowFits DEF S
  <2>2. CASE Matches(o, left[i], right) = {}
    <3>1. JoinRow(o, left[i], right) = left[i] /\ o.type = "left"
      BY <2>2 DEF JoinRow
    <3> QED BY <1>2, <1>3, <3>1, LeftRowFits DEF S
  <2> QED BY <2>1, <2>2
<1>6. places \in SUBSET DOMAIN left /\ matched = Picked(left, places)
  BY DEF Joined
<1> HIDE DEF places, matched
<1>7. IsSequence(matched) /\ \A n \in DOMAIN matched : \E i \in places : matched[n] = left[i]
  BY <1>3, <1>6, PickedIsSequence
<1>8. M = [i \in DOMAIN matched |-> JoinRow(o, matched[i], right)]
  BY DEF JoinRows, matched
<1> HIDE DEF M
<1>9. IsSequence(M) /\ DOMAIN M = DOMAIN matched
  BY <1>7, <1>8, ListOfLikeLength
<1>10. \A n \in DOMAIN M : Fits(M[n], S)
  BY <1>5, <1>7, <1>8, <1>9
<1> QED BY <1>1, <1>4, <1>9, <1>10 DEF Shaped, S, T, M

-----------------------------------------------------------------------------
(* Sums and extremes *)

\* What every step of a recursion keeps its values have.
LEMMA RecursionTyped ==
  ASSUME NEW D, NEW N \in Nat, NEW C, C = [n \in 0 .. N |-> C[n]], C[0] \in D,
         \A n \in 1 .. N : C[n - 1] \in D => C[n] \in D
  PROVE  C \in [0 .. N -> D]
<1> DEFINE Good == {n \in Nat : n <= N => C[n] \in D}
<1>1. 0 \in Good
  OBVIOUS
<1>2. ASSUME NEW n \in Nat, n \in Good PROVE n + 1 \in Good
  <2> SUFFICES ASSUME n + 1 <= N PROVE C[n + 1] \in D
    OBVIOUS
  <2>1. n + 1 \in 1 .. N /\ (n + 1) - 1 = n /\ C[n] \in D
    BY <1>2
  <2>2. C[(n + 1) - 1] \in D => C[n + 1] \in D
    BY <2>1
  <2> QED BY <2>1, <2>2
<1>3. \A n \in Nat : n \in Good
  <2> HIDE DEF Good
  <2> QED BY <1>1, <1>2, FromNumberToNumber
<1>4. \A n \in 0 .. N : C[n] \in D
  BY <1>3
<1> QED BY <1>4

\* F gives the sums of the first values.
Sums(F, values) ==
  /\ F \in [0 .. Len(values) -> Numbers]
  /\ F[0] = Integer(0)
  /\ \A n \in 1 .. Len(values) : F[n] = DecimalPlus(F[n - 1], values[n])
  /\ DecimalSum(values) = F[Len(values)]

\* The sum of numbers is a number.
LEMMA PlusFacts ==
  ASSUME NEW a \in Numbers, NEW b \in Numbers
  PROVE  DecimalPlus(a, b) \in Numbers
<1>1. /\ AlignedCoefficient(a, Wider(a, b)) \in Int /\ AlignedCoefficient(b, Wider(a, b)) \in Int
      /\ Wider(a, b) \in Nat
  BY SumsAreNumbers
<1> QED BY <1>1 DEF DecimalPlus, Numbers

\* The recursive function in DecimalSum is what it says.
LEMMA SumFacts ==
  ASSUME NEW values \in Seq(Numbers)
  PROVE  \E F : Sums(F, values)
<1> DEFINE N == Len(values)
           step == [n \in 1 .. N |-> [a \in Numbers |-> DecimalPlus(a, values[n])]]
           Is(F) == F = [n \in 0 .. N |-> IF n = 0 THEN Integer(0) ELSE DecimalPlus(F[n - 1], values[n])]
           C == CHOOSE F : Is(F)
<1>1. N \in Nat /\ \A n \in 1 .. N : values[n] \in Numbers
  OBVIOUS
<1>2. Integer(0) \in Numbers
  BY DEF Integer, Numbers
<1>3. step \in [1 .. N -> [Numbers -> Numbers]]
  BY <1>1, PlusFacts
<1>4. PICK F : Iterates(F, Numbers, N, Integer(0), step)
  <2> HIDE DEF step, N
  <2> QED BY <1>1, <1>2, <1>3, IterationExists
<1> HIDE DEF N
<1>5. Is(F)
  <2>1. ASSUME NEW n \in 0 .. N PROVE F[n] = IF n = 0 THEN Integer(0) ELSE DecimalPlus(F[n - 1], values[n])
    <3>1. CASE n = 0
      BY <1>4, <3>1 DEF Iterates
    <3>2. CASE n # 0
      <4>1. n \in 1 .. N /\ n - 1 \in 0 .. N
        BY <1>1, <3>2
      <4>2. F[n - 1] \in Numbers /\ F[n] = step[n][F[n - 1]]
        BY <1>4, <4>1 DEF Iterates
      <4> QED BY <3>2, <4>1, <4>2
    <3> QED BY <3>1, <3>2
  <2> QED BY <1>4, <2>1 DEF Iterates
<1>6. Is(C)
  BY <1>5
<1>7. DecimalSum(values) = C[N]
  BY DEF DecimalSum, N
<1> HIDE DEF C
<1>8. C = [n \in 0 .. N |-> C[n]] /\ C[0] = Integer(0)
      /\ \A n \in 1 .. N : C[n] = DecimalPlus(C[n - 1], values[n])
  <2> DEFINE e(n) == IF n = 0 THEN Integer(0) ELSE DecimalPlus(C[n - 1], values[n])
  <2>1. C = [n \in 0 .. N |-> e(n)]
    BY <1>6, Zenon
  <2>2. e(0) = Integer(0) /\ \A n \in 1 .. N : e(n) = DecimalPlus(C[n - 1], values[n])
    BY <1>1
  <2>3. 0 \in 0 .. N /\ \A n \in 1 .. N : n \in 0 .. N
    BY <1>1
  <2> HIDE DEF e
  <2>4. C = [n \in 0 .. N |-> C[n]] /\ \A n \in 0 .. N : C[n] = e(n)
    BY <2>1
  <2> QED BY <2>2, <2>3, <2>4
<1>9. C \in [0 .. N -> Numbers]
  <2>1. \A n \in 1 .. N : C[n - 1] \in Numbers => C[n] \in Numbers
    BY <1>1, <1>8, PlusFacts
  <2>2. C[0] \in Numbers
    BY <1>2, <1>8
  <2> QED BY <1>1, <1>8, <2>1, <2>2, RecursionTyped
<1> QED BY <1>7, <1>8, <1>9 DEF Sums, N

\* The sum of a list of numbers is a number.
LEMMA SumIsNumber ==
  ASSUME NEW values \in Seq(Numbers)
  PROVE  DecimalSum(values) \in Numbers
<1>1. PICK F : Sums(F, values)
  BY SumFacts
<1>2. Len(values) \in Nat
  OBVIOUS
<1> QED BY <1>1, <1>2 DEF Sums

\* The better of two values is one of them, or they cannot be compared.
LEMMA BetterFacts ==
  ASSUME NEW type \in Types, NEW op \in {"min", "max"},
         NEW a \in ValuesOf(type) \union {Throws}, NEW b \in ValuesOf(type)
  PROVE  Better(op, a, b, type) \in ValuesOf(type) \union {Throws}
<1>1. CASE a = Throws
  BY <1>1 DEF Better
<1>2. CASE a # Throws
  BY <1>2, ThrowsIsNoNumber DEF Better
<1> QED BY <1>1, <1>2

\* The least or the greatest of some values is a value of their type, or throws.
LEMMA ExtremeFacts ==
  ASSUME NEW type \in Types, NEW op \in {"min", "max"},
         NEW values \in Seq(ValuesOf(type)), values # <<>>
  PROVE  Extreme(op, values, type) \in ValuesOf(type) \union {Throws}
<1> DEFINE N == Len(values)
           D == ValuesOf(type) \union {Throws}
           step == [n \in 1 .. N - 1 |-> [a \in D |-> Better(op, a, values[n + 1], type)]]
           Is(F) == F = [n \in 1 .. N |-> IF n = 1 THEN values[1] ELSE Better(op, F[n - 1], values[n], type)]
           C == CHOOSE F : Is(F)
<1>1. N \in Nat /\ N >= 1 /\ \A n \in 1 .. N : values[n] \in ValuesOf(type)
  OBVIOUS
<1>2. step \in [1 .. N - 1 -> [D -> D]]
  <2>1. ASSUME NEW n \in 1 .. N - 1, NEW a \in D PROVE Better(op, a, values[n + 1], type) \in D
    <3>1. n + 1 \in 1 .. N
      BY <1>1
    <3>2. values[n + 1] \in ValuesOf(type)
      BY <1>1, <3>1
    <3> HIDE DEF N
    <3> QED BY <3>2, BetterFacts
  <2> HIDE DEF D, N
  <2> QED BY <2>1
<1>3. PICK G : Iterates(G, D, N - 1, values[1], step)
  <2>1. values[1] \in D /\ N - 1 \in Nat
    BY <1>1
  <2> HIDE DEF step, N, D
  <2> QED BY <1>2, <2>1, IterationExists
<1> HIDE DEF N
<1> DEFINE F == [n \in 1 .. N |-> G[n - 1]]
<1>4. Is(F)
  <2>1. ASSUME NEW n \in 1 .. N
        PROVE  F[n] = IF n = 1 THEN values[1] ELSE Better(op, F[n - 1], values[n], type)
    <3>1. CASE n = 1
      BY <1>1, <1>3, <3>1 DEF Iterates
    <3>2. CASE n # 1
      <4>1. n - 1 \in 1 .. N - 1 /\ n - 1 \in 1 .. N /\ (n - 1) - 1 \in 0 .. N - 1 /\ (n - 1) + 1 = n
        BY <1>1, <3>2
      <4>2. G[(n - 1) - 1] \in D /\ G[n - 1] = step[n - 1][G[(n - 1) - 1]]
        <5> HIDE DEF D
        <5> QED BY <1>3, <4>1 DEF Iterates
      <4>3. step[n - 1][G[(n - 1) - 1]] = Better(op, G[(n - 1) - 1], values[n], type)
        <5> HIDE DEF D
        <5> QED BY <4>1, <4>2
      <4> QED BY <3>2, <4>1, <4>2, <4>3
    <3> QED BY <3>1, <3>2
  <2>2. F = [n \in 1 .. N |-> F[n]]
    OBVIOUS
  <2> HIDE DEF F
  <2> QED BY <2>1, <2>2
<1> HIDE DEF F
<1>5. Is(C)
  BY <1>4
<1>6. Extreme(op, values, type) = C[N]
  BY DEF Extreme, N
<1> HIDE DEF C
<1>7. /\ C[1] = values[1]
      /\ \A n \in 1 .. N : n # 1 => C[n] = Better(op, C[n - 1], values[n], type)
  BY <1>1, <1>5
<1> DEFINE Good == {n \in Nat : n + 1 <= N => C[n + 1] \in D}
<1>8. 0 \in Good
  BY <1>1, <1>7
<1>9. ASSUME NEW n \in Nat, n \in Good PROVE n + 1 \in Good
  <2> SUFFICES ASSUME (n + 1) + 1 <= N PROVE C[(n + 1) + 1] \in D
    OBVIOUS
  <2> DEFINE m == n + 1
  <2>1. m + 1 \in 1 .. N /\ m + 1 # 1 /\ (m + 1) - 1 = m /\ C[m] \in D
    BY <1>1, <1>9
  <2> HIDE DEF m, D
  <2>2. C[m + 1] = Better(op, C[m], values[m + 1], type) /\ values[m + 1] \in ValuesOf(type)
    BY <1>1, <1>7, <2>1
  <2>3. C[m + 1] \in D
    BY <2>1, <2>2, BetterFacts DEF D
  <2> QED BY <2>3 DEF m
<1>10. N - 1 \in Good
  <2>1. \A n \in Nat : n \in Good
    <3> HIDE DEF Good
    <3> QED BY <1>8, <1>9, FromNumberToNumber
  <2> QED BY <1>1, <2>1
<1> QED BY <1>1, <1>6, <1>10

-----------------------------------------------------------------------------
(* Measures *)

\* A list has finitely many elements.
LEMMA ElementsAreFinite ==
  ASSUME NEW list, IsSequence(list)
  PROVE  IsFiniteSet(ToSet(list)) /\ Cardinality(ToSet(list)) \in Nat
<1>1. Len(list) \in Nat /\ DOMAIN list = 1 .. Len(list)
  BY SequenceFacts
<1>2. list \in Surjection(DOMAIN list, ToSet(list))
  <2>1. list \in [DOMAIN list -> ToSet(list)]
    BY SequenceFacts DEF ToSet
  <2>2. \A x \in ToSet(list) : \E i \in DOMAIN list : list[i] = x
    BY DEF ToSet
  <2> QED BY <2>1, <2>2, Fun_IsSurj
<1>3. IsFiniteSet(DOMAIN list)
  BY <1>1, FS_Interval
<1> QED BY <1>2, <1>3, FS_Surjection, FS_CardinalityType

\* The rows that have a value of a field.
With(group, f) == {i \in DOMAIN group : Value(group[i], f) # None}

\* The values a measure is taken of are those of the rows that have one, in order.
LEMMA GivenFacts ==
  ASSUME NEW s, NEW t, NEW group, Shaped(s, t, group), NEW f \in DOMAIN s
  PROVE  /\ Given(group, f) \in Seq(ValuesOf(s[f].type))
         /\ IsSequence(Given(group, f))
         /\ ToSet(Given(group, f)) = {Value(group[i], f) : i \in With(group, f)}
         /\ Len(Given(group, f)) = Cardinality(With(group, f))
         /\ \A n \in 1 .. Cardinality(With(group, f)) :
              /\ Nth(With(group, f), n) \in With(group, f)
              /\ Given(group, f)[n] = Value(group[Nth(With(group, f), n)], f)
<1> DEFINE values == [i \in DOMAIN group |-> Value(group[i], f)]
           places == {i \in DOMAIN group : Value(group[i], f) # None}
           g == Given(group, f)
           V == ValuesOf(s[f].type)
<1>1. IsSequence(group) /\ \A i \in DOMAIN group : Fits(group[i], s)
  BY DEF Shaped
<1>2. \A i \in places : Value(group[i], f) \in V
  BY <1>1, FieldOfRow
<1>3. IsSequence(values) /\ DOMAIN values = DOMAIN group
  <2>1. values = [i \in DOMAIN group |-> values[i]]
    OBVIOUS
  <2> HIDE DEF values
  <2> QED BY <1>1, <2>1, ListOfLikeLength
<1>4. g = Picked(values, places) /\ places = With(group, f)
  BY DEF Given, With
<1>5. \A i \in DOMAIN group : values[i] = Value(group[i], f)
  OBVIOUS
<1>6. values \in Seq(ToSet(values)) /\ places \in SUBSET DOMAIN values
  BY <1>3 DEF IsSequence
<1> HIDE DEF values, g, V
<1>7. /\ Len(g) = Cardinality(places)
      /\ \A n \in 1 .. Cardinality(places) :
           Nth(places, n) \in places /\ g[n] = values[Nth(places, n)]
  <2> HIDE DEF places
  <2> QED BY <1>4, <1>6, PickedFacts
<1>8. IsSequence(g) /\ ToSet(g) = {values[i] : i \in places}
  <2> HIDE DEF places
  <2> QED BY <1>3, <1>4, <1>6, PickedIsSequence
<1>9. ToSet(g) = {Value(group[i], f) : i \in places}
  BY <1>5, <1>8
<1>10. \A x \in ToSet(g) : x \in V
  BY <1>2, <1>9
<1>11. g \in Seq(V)
  <2>1. g \in Seq(ToSet(g))
    BY <1>8 DEF IsSequence
  <2> QED BY <1>10, <2>1
<1>12. \A n \in 1 .. Cardinality(places) :
         Nth(places, n) \in places /\ g[n] = Value(group[Nth(places, n)], f)
  BY <1>5, <1>7
<1> HIDE DEF places
<1> QED BY <1>4, <1>7, <1>8, <1>9, <1>11, <1>12 DEF g, V

-----------------------------------------------------------------------------
\* The operators of a measure.
Measures == {"count_rows", "count_distinct", "sum", "average", "min", "max"}

\* The compiled and the runtime shape agree on a measure.
LEMMA MeasureFields ==
  ASSUME NEW s, NEW t, IsShape(s), IsShape(t), SameFields(s, t), NEW m, m.op \in Measures,
         ValidMeasure(m, s)
  PROVE  /\ ValidMeasure(m, t)
         /\ MeasureField(m, s) \in Fields /\ MeasureField(m, t) \in Fields
         /\ MeasureField(m, s).type = MeasureField(m, t).type
<1>1. m.op # "count_rows" => /\ m.field \in DOMAIN s /\ m.field \in DOMAIN t
                             /\ s[m.field] \in Fields /\ t[m.field] \in Fields
                             /\ s[m.field].type = t[m.field].type
  BY DEF ValidMeasure, IsShape, SameFields, Fields
<1>2. ValidMeasure(m, t)
  BY <1>1 DEF ValidMeasure
<1>3. CASE m.op \in {"count_rows", "count_distinct"}
  BY <1>2, <1>3, FieldFacts, TypesOfValues DEF MeasureField
<1>4. CASE m.op = "average"
  <2>1. /\ MeasureField(m, s) = Field("decimal", s[m.field].nullable)
        /\ MeasureField(m, t) = Field("decimal", t[m.field].nullable)
    BY <1>4 DEF MeasureField
  <2>2. s[m.field].nullable \in BOOLEAN /\ t[m.field].nullable \in BOOLEAN
    BY <1>1, <1>4, FieldsAreValid
  <2>3. "decimal" \in Types
    BY TypesOfValues
  <2> QED BY <1>2, <2>1, <2>2, <2>3, FieldFacts
<1>5. CASE m.op \in {"sum", "min", "max"}
  BY <1>1, <1>2, <1>5 DEF MeasureField
<1> QED BY <1>3, <1>4, <1>5 DEF Measures

\* A measure of a group is of the type declared, and null only where that is
\* nullable: of no values, none but a count has a result.
LEMMA MeasureOfGroup ==
  ASSUME NEW s, NEW t, NEW group, Shaped(s, t, group), group # <<>>, NEW m, m.op \in Measures,
         ValidMeasure(m, s)
  PROVE  Allowed(MeasureField(m, s), Measured(m, group, t))
<1> DEFINE values == Given(group, m.field)
           sum == DecimalSum(values)
<1>1. IsShape(s) /\ IsShape(t) /\ SameFields(s, t) /\ IsSequence(group)
      /\ \A i \in DOMAIN group : Fits(group[i], s)
  BY DEF Shaped
<1>2. ASSUME m.op # "count_rows"
      PROVE  /\ m.field \in DOMAIN s
             /\ s[m.field] \in Fields /\ s[m.field].type = t[m.field].type
             /\ values \in Seq(ValuesOf(s[m.field].type)) /\ IsSequence(values)
             /\ s[m.field].type \in Types
  <2>1. m.field \in DOMAIN s
    BY <1>2 DEF ValidMeasure
  <2>2. s[m.field] \in Fields /\ s[m.field].type = t[m.field].type
    BY <1>1, <2>1 DEF IsShape, SameFields, Fields
  <2> QED BY <2>1, <2>2, GivenFacts, FieldsAreValid
<1>3. ASSUME m.op \in {"sum", "average"}
      PROVE  values \in Seq(Numbers) /\ sum \in Numbers
  <2>1. s[m.field].type \in Numeric /\ m.op # "count_rows"
    BY <1>3 DEF ValidMeasure
  <2>2. ValuesOf(s[m.field].type) = Numbers
    BY <2>1 DEF ValuesOf, Numeric
  <2>3. values \in Seq(Numbers)
    BY <1>2, <2>1, <2>2
  <2> HIDE DEF values
  <2> QED BY <2>3, SumIsNumber
<1>4. ASSUME m.op # "count_rows", values = <<>> PROVE s[m.field].nullable
  <2> DEFINE f == m.field
  <2>1. f \in DOMAIN s
    BY <1>2, <1>4
  <2>2. Len(group) \in Nat /\ DOMAIN group = 1 .. Len(group) /\ group \in Seq(ToSet(group))
    BY <1>1, SequenceFacts DEF IsSequence
  <2>3. 1 \in DOMAIN group
    BY <2>2
  <2>4. Value(group[1], f) = None
    <3> SUFFICES ASSUME Value(group[1], f) # None PROVE FALSE
      OBVIOUS
    <3>1. 1 \in With(group, f)
      BY <2>3 DEF With
    <3>2. Value(group[1], f) \in ToSet(values)
      BY <2>1, <3>1, GivenFacts
    <3>3. ToSet(values) = {}
      <4> HIDE DEF values
      <4> QED BY <1>4 DEF ToSet
    <3> QED BY <3>2, <3>3
  <2> QED BY <1>1, <2>1, <2>3, <2>4, FieldOfRow
<1> HIDE DEF values, sum
<1>5. CASE m.op \in {"count_rows", "count_distinct"}
  <2>1. MeasureField(m, s) = Field("integer", FALSE)
    BY <1>5 DEF MeasureField
  <2>2. Measured(m, group, t) \in Numbers
    <3>1. CASE m.op = "count_rows"
      <4>1. Measured(m, group, t) = Integer(Len(group)) /\ Len(group) \in Nat
        BY <1>1, <3>1, SequenceFacts DEF Measured
      <4> QED BY <4>1 DEF Integer, Numbers
    <3>2. CASE m.op = "count_distinct"
      <4>1. Measured(m, group, t) = Integer(Cardinality(ToSet(values)))
        BY <3>2 DEF Measured, values
      <4>2. Cardinality(ToSet(values)) \in Nat
        BY <1>2, <3>2, ElementsAreFinite
      <4> QED BY <4>1, <4>2 DEF Integer, Numbers
    <3> QED BY <1>5, <3>1, <3>2
  <2>3. Field("integer", FALSE).type = "integer"
    BY FieldFacts, TypesOfValues
  <2> QED BY <2>1, <2>2, <2>3, TypesOfValues, MarkersAreNoValues DEF Allowed
<1>6. CASE m.op = "sum"
  <2>1. Measured(m, group, t) = DecimalText(sum.c, sum.s)
    BY <1>6 DEF Measured, sum, values
  <2>2. DecimalText(sum.c, sum.s) \in Numbers
    BY <1>3, <1>6, TextsAreNumbers DEF Numbers
  <2>3. MeasureField(m, s) = s[m.field] /\ ValuesOf(s[m.field].type) = Numbers
    BY <1>6 DEF MeasureField, ValidMeasure, ValuesOf, Numeric
  <2> QED BY <2>1, <2>2, <2>3, MarkersAreNoValues DEF Allowed
<1>7. CASE m.op = "average"
  <2>1. MeasureField(m, s) = Field("decimal", s[m.field].nullable)
    BY <1>7 DEF MeasureField
  <2>2. /\ MeasureField(m, s).type = "decimal"
        /\ MeasureField(m, s).nullable = s[m.field].nullable
    <3>1. PICK null \in BOOLEAN : null = s[m.field].nullable
      BY <1>2, <1>7, FieldsAreValid
    <3>2. MeasureField(m, s) = Field("decimal", null) /\ "decimal" \in Types
      BY <2>1, <3>1, TypesOfValues
    <3> QED BY <3>1, <3>2, FieldFacts
  <2>3. CASE values = <<>>
    <3>1. Measured(m, group, t) = None
      BY <1>7, <2>3 DEF Measured, values
    <3> QED BY <1>4, <1>7, <2>2, <2>3, <3>1 DEF Allowed
  <2>4. CASE values # <<>>
    <3>1. Measured(m, group, t) = DivideDecimal(sum, Len(values))
      BY <1>7, <2>4 DEF Measured, values, sum
    <3>2. Len(values) \in Nat /\ Len(values) > 0 /\ sum \in Numbers
      BY <1>3, <1>7, <2>4
    <3>3. DivideDecimal(sum, Len(values)) \in Numbers
      <4>1. PowerOfTen(Places) \in Nat /\ sum.c \in Int /\ sum.s + Places \in Nat
        <5>1. PowerOfTen(Places) \in Nat
          BY PowerOfTenFacts, PlacesAssumption
        <5>2. sum.c \in Int /\ sum.s \in Nat
          BY <3>2 DEF Numbers
        <5> QED BY <5>1, <5>2, PlacesAssumption
      <4> DEFINE n == sum.c * PowerOfTen(Places)
      <4>2. n \in Int
        BY <4>1
      <4> HIDE DEF n
      <4>3. AverageQuotient(n, Len(values)) \in Int
        BY <3>2, <4>2, OtherQuotientsAreIntegers
      <4> QED BY <4>1, <4>3, TextsAreNumbers DEF DivideDecimal, n
    <3> QED BY <2>2, <3>1, <3>3, TypesOfValues, MarkersAreNoValues DEF Allowed
  <2> QED BY <2>3, <2>4
<1>8. CASE m.op \in {"min", "max"}
  <2>1. MeasureField(m, s) = s[m.field]
    BY <1>8 DEF MeasureField
  <2>2. CASE values = <<>>
    <3>1. Measured(m, group, t) = None
      BY <1>8, <2>2 DEF Measured, values
    <3> QED BY <1>4, <1>8, <2>1, <2>2, <3>1 DEF Allowed
  <2>3. CASE values # <<>>
    <3>1. Measured(m, group, t) = Extreme(m.op, values, t[m.field].type)
      BY <1>8, <2>3 DEF Measured, values
    <3>2. Extreme(m.op, values, s[m.field].type) \in ValuesOf(s[m.field].type) \union {Throws}
      BY <1>2, <1>8, <2>3, ExtremeFacts
    <3>3. Measured(m, group, t) # None
      BY <1>2, <1>8, <3>1, <3>2, ValuesAreNoMarkers, MarkersAreNoValues
    <3> QED BY <1>2, <1>8, <2>1, <3>1, <3>2, <3>3 DEF Allowed
  <2> QED BY <2>2, <2>3
<1> QED BY <1>5, <1>6, <1>7, <1>8 DEF Measures

-----------------------------------------------------------------------------
(* Aggregates *)

\* The keys of the groups are those of the rows, each once.
LEMMA GroupKeysFacts ==
  ASSUME NEW list, IsSequence(list), NEW o
  PROVE  /\ IsSequence(GroupKeys(o, list))
         /\ \A k \in DOMAIN GroupKeys(o, list) :
              \E i \in DOMAIN list : GroupKeys(o, list)[k] = GroupKey(o, list[i])
         /\ \A i \in DOMAIN list :
              \E k \in DOMAIN GroupKeys(o, list) : GroupKeys(o, list)[k] = GroupKey(o, list[i])
         /\ \A k, m \in DOMAIN GroupKeys(o, list) :
              GroupKeys(o, list)[k] = GroupKeys(o, list)[m] => k = m
<1> DEFINE keys == [i \in DOMAIN list |-> GroupKey(o, list[i])]
           places == {i \in DOMAIN list : \A j \in 1 .. i - 1 : keys[j] # keys[i]}
           g == GroupKeys(o, list)
<1>1. Len(list) \in Nat /\ DOMAIN list = 1 .. Len(list)
  BY SequenceFacts
<1>2. IsSequence(keys) /\ DOMAIN keys = DOMAIN list /\ \A i \in DOMAIN list : keys[i] = GroupKey(o, list[i])
  <2>1. keys = [i \in DOMAIN list |-> keys[i]] /\ \A i \in DOMAIN list : keys[i] = GroupKey(o, list[i])
    OBVIOUS
  <2> HIDE DEF keys
  <2> QED BY <2>1, ListOfLikeLength
<1>3. g = Picked(keys, places)
  BY DEF GroupKeys
<1> HIDE DEF keys
<1>4. places \in SUBSET DOMAIN keys /\ keys \in Seq(ToSet(keys)) /\ places \in SUBSET Nat
  BY <1>1, <1>2 DEF IsSequence
<1>5. \A i \in places : i \in DOMAIN list /\ \A j \in 1 .. i - 1 : keys[j] # keys[i]
  OBVIOUS
<1>6. ASSUME NEW i \in DOMAIN list PROVE \E j \in places : keys[j] = keys[i]
  <2> DEFINE T == {j \in DOMAIN list : keys[j] = keys[i]}
  <2>1. T \in SUBSET Nat /\ T # {}
    BY <1>1
  <2>2. PICK j \in T : \A m \in T : j <= m
    <3> HIDE DEF T
    <3> QED BY <2>1, LeastNumber
  <2>3. ASSUME NEW m \in 1 .. j - 1 PROVE keys[m] # keys[j]
    <3>1. m \in DOMAIN list /\ ~(j <= m)
      BY <1>1, <2>2
    <3> QED BY <2>2, <3>1
  <2> QED BY <2>2, <2>3
<1> HIDE DEF g, places
<1>7. IsSequence(g) /\ ToSet(g) = {keys[i] : i \in places}
      /\ \A n \in DOMAIN g : \E i \in places : g[n] = keys[i]
  BY <1>2, <1>3, <1>4, PickedIsSequence
<1>8. \A k \in DOMAIN g : \E i \in DOMAIN list : g[k] = GroupKey(o, list[i])
  BY <1>2, <1>5, <1>7
<1>9. ASSUME NEW i \in DOMAIN list PROVE \E k \in DOMAIN g : g[k] = GroupKey(o, list[i])
  <2>1. keys[i] \in ToSet(g)
    BY <1>6, <1>7
  <2>2. \E k \in DOMAIN g : keys[i] = g[k]
    BY <2>1 DEF ToSet
  <2> QED BY <1>2, <2>2
<1>10. IsFiniteSet(places)
  <2>1. IsFiniteSet(DOMAIN list)
    BY <1>1, FS_Interval
  <2> QED BY <1>2, <1>4, <2>1, FS_Subset
<1>11. /\ Len(g) = Cardinality(places) /\ Cardinality(places) \in Nat
       /\ \A n \in 1 .. Cardinality(places) : Nth(places, n) \in places /\ g[n] = keys[Nth(places, n)]
  BY <1>3, <1>4, PickedFacts
<1>12. \A m, n \in 1 .. Cardinality(places) : m < n => Nth(places, m) < Nth(places, n)
  BY <1>4, <1>10, PlacesInOrder
<1>13. ASSUME NEW k \in DOMAIN g, NEW m \in DOMAIN g, k < m PROVE g[k] # g[m]
  <2>1. k \in 1 .. Cardinality(places) /\ m \in 1 .. Cardinality(places)
    BY <1>7, <1>11, SequenceFacts
  <2> DEFINE a == Nth(places, k)
             b == Nth(places, m)
  <2>2. a \in places /\ b \in places /\ a < b /\ g[k] = keys[a] /\ g[m] = keys[b]
    BY <1>11, <1>12, <1>13, <2>1
  <2> HIDE DEF a, b
  <2>3. a \in DOMAIN list /\ b \in DOMAIN list /\ \A j \in 1 .. b - 1 : keys[j] # keys[b]
    BY <1>5, <2>2
  <2>4. a \in 1 .. b - 1
    BY <1>1, <2>2, <2>3
  <2> QED BY <2>2, <2>3, <2>4
<1>14. \A k, m \in DOMAIN g : g[k] = g[m] => k = m
  <2>1. \A k, m \in DOMAIN g : k < m \/ m < k \/ k = m
    <3>1. Len(g) \in Nat /\ DOMAIN g = 1 .. Len(g)
      BY <1>7, SequenceFacts
    <3> QED BY <3>1
  <2> QED BY <1>13, <2>1
<1> QED BY <1>7, <1>8, <1>9, <1>14 DEF g

\* The places of the rows with a key.
InGroup(o, list, key) == {i \in DOMAIN list : GroupKey(o, list[i]) = key}

\* The group of a row is not empty, fits the shape, and starts with a row of its key.
LEMMA GroupFacts ==
  ASSUME NEW s, NEW t, NEW list, Shaped(s, t, list), NEW o, NEW i \in DOMAIN list
  PROVE  /\ Shaped(s, t, Group(o, list, GroupKey(o, list[i])))
         /\ Group(o, list, GroupKey(o, list[i])) # <<>>
         /\ \E j \in DOMAIN list : /\ GroupKey(o, list[j]) = GroupKey(o, list[i])
                                   /\ Group(o, list, GroupKey(o, list[i]))[1] = list[j]
<1> DEFINE key == GroupKey(o, list[i])
           places == {j \in DOMAIN list : GroupKey(o, list[j]) = key}
           g == Group(o, list, key)
<1>1. IsSequence(list) /\ IsShape(s) /\ IsShape(t) /\ SameFields(s, t) /\ \A j \in DOMAIN list : Fits(list[j], s)
  BY DEF Shaped
<1>2. g = Picked(list, places) /\ places \in SUBSET DOMAIN list /\ i \in places
      /\ \A j \in places : GroupKey(o, list[j]) = key
  BY DEF Group
<1> HIDE DEF places, g, key
<1>3. IsSequence(g) /\ ToSet(g) = {list[j] : j \in places}
      /\ \A n \in DOMAIN g : \E j \in places : g[n] = list[j]
  BY <1>1, <1>2, PickedIsSequence
<1>4. list[i] \in ToSet(g)
  BY <1>2, <1>3
<1>5. PICK n \in DOMAIN g : g[n] = list[i]
  BY <1>4 DEF ToSet
<1>6. 1 \in DOMAIN g /\ g # <<>>
  <2>1. Len(g) \in Nat /\ DOMAIN g = 1 .. Len(g)
    BY <1>3, SequenceFacts
  <2>2. 1 \in DOMAIN g
    BY <1>5, <2>1
  <2> QED BY <2>2
<1>7. Shaped(s, t, g)
  <2>1. \A m \in DOMAIN g : Fits(g[m], s)
    BY <1>1, <1>2, <1>3
  <2> QED BY <1>1, <1>3, <2>1 DEF Shaped
<1> QED BY <1>2, <1>3, <1>6, <1>7 DEF g, key

-----------------------------------------------------------------------------
\* The measure that has a name.
Measure(o, f) == CHOOSE m \in ToSet(o.measures) : m.name = f

\* The names of the measures.
Named(o) == {m.name : m \in ToSet(o.measures)}

\* A name among the measures is that of a measure.
LEMMA MeasureFacts ==
  ASSUME NEW o, WellConfigured(o), o.op = "aggregate", NEW f \in Named(o)
  PROVE  Measure(o, f) \in ToSet(o.measures) /\ Measure(o, f).name = f /\ Measure(o, f).op \in Measures
<1>1. Measure(o, f) \in ToSet(o.measures) /\ Measure(o, f).name = f
  BY DEF Measure, Named
<1>2. \A m \in ToSet(o.measures) : m.op \in Measures
  BY DEF WellConfigured, Measures
<1> QED BY <1>1, <1>2

\* What the shape and the rows of an aggregate are made of.
AggregateFields(o, s, S) ==
  /\ DOMAIN S = ToSet(o.groupBy) \union Named(o)
  /\ \A f \in ToSet(o.groupBy) : S[f] = s[f]
  /\ \A f \in Named(o) : f \notin ToSet(o.groupBy) /\ S[f] = MeasureField(Measure(o, f), s)

\* What an aggregate asks of the shape of its input.
LEMMA AggregateShapeFacts ==
  ASSUME NEW s, NEW o, AggregateShape(o, s) # Invalid
  PROVE  /\ ToSet(o.groupBy) \subseteq DOMAIN s
         /\ \A m \in ToSet(o.measures) : ValidMeasure(m, s) /\ m.name \notin ToSet(o.groupBy)
BY DEF AggregateShape

\* What the shape of an aggregate is made of.
LEMMA AggregateShapeIs ==
  ASSUME NEW s, NEW o, ToSet(o.groupBy) \subseteq DOMAIN s,
         \A m \in ToSet(o.measures) : ValidMeasure(m, s) /\ m.name \notin ToSet(o.groupBy)
  PROVE  AggregateFields(o, s, AggregateShape(o, s))
<1> DEFINE e(f) == IF f \in ToSet(o.groupBy) THEN s[f] ELSE MeasureField(Measure(o, f), s)
           S == AggregateShape(o, s)
<1>1. S = [f \in ToSet(o.groupBy) \union Named(o) |-> e(f)]
  BY DEF AggregateShape, Measure, Named
<1>2. \A f \in Named(o) : f \notin ToSet(o.groupBy)
  BY DEF Named
<1>3. /\ \A f \in ToSet(o.groupBy) : e(f) = s[f]
      /\ \A f \in Named(o) : e(f) = MeasureField(Measure(o, f), s)
  BY <1>2
<1> HIDE DEF e, S
<1>4. DOMAIN S = ToSet(o.groupBy) \union Named(o) /\ \A f \in DOMAIN S : S[f] = e(f)
  BY <1>1
<1> QED BY <1>2, <1>3, <1>4 DEF AggregateFields, S

\* What the row of a group is made of.
LEMMA GroupRowFacts ==
  ASSUME NEW o, NEW group, NEW t, GroupRow(o, group, t) # Throws
  PROVE  /\ DOMAIN GroupRow(o, group, t) = ToSet(o.groupBy) \union Named(o)
         /\ \A f \in ToSet(o.groupBy) : GroupRow(o, group, t)[f] = Value(group[1], f)
         /\ \A f \in Named(o) : /\ Measured(Measure(o, f), group, t) # Throws
                                /\ f \notin ToSet(o.groupBy) =>
                                     GroupRow(o, group, t)[f] = Measured(Measure(o, f), group, t)
<1> DEFINE made == [f \in Named(o) |-> Measured(Measure(o, f), group, t)]
           byKey == [f \in ToSet(o.groupBy) |-> Value(group[1], f)]
           R == GroupRow(o, group, t)
<1>1. R = IF \E f \in DOMAIN made : made[f] = Throws THEN Throws ELSE Over(byKey, made)
  BY DEF GroupRow, Measure, Named
<1>2. /\ DOMAIN made = Named(o) /\ \A f \in Named(o) : made[f] = Measured(Measure(o, f), group, t)
      /\ DOMAIN byKey = ToSet(o.groupBy) /\ \A f \in ToSet(o.groupBy) : byKey[f] = Value(group[1], f)
  OBVIOUS
<1> HIDE DEF made, byKey, R
<1>3. R = Over(byKey, made) /\ \A f \in Named(o) : made[f] # Throws
  BY <1>1, <1>2 DEF R
<1>4. /\ DOMAIN Over(byKey, made) = DOMAIN byKey \union DOMAIN made
      /\ \A x \in DOMAIN byKey : Over(byKey, made)[x] = byKey[x]
      /\ \A x \in DOMAIN made : x \notin DOMAIN byKey => Over(byKey, made)[x] = made[x]
  BY OverFacts
<1> QED BY <1>2, <1>3, <1>4 DEF R

\* The row of a group fits the shape of the aggregate.
LEMMA GroupRowFits ==
  ASSUME NEW s, NEW t, NEW group, Shaped(s, t, group), group # <<>>,
         NEW o, WellConfigured(o), o.op = "aggregate", AggregateShape(o, s) # Invalid,
         GroupRow(o, group, t) # Throws
  PROVE  Fits(GroupRow(o, group, t), AggregateShape(o, s))
<1> DEFINE R == GroupRow(o, group, t)
           S == AggregateShape(o, s)
           keys == ToSet(o.groupBy)
<1>1. AggregateFields(o, s, S)
  BY AggregateShapeFacts, AggregateShapeIs
<1>2. keys \subseteq DOMAIN s /\ \A m \in ToSet(o.measures) : ValidMeasure(m, s)
  BY AggregateShapeFacts
<1>3. /\ DOMAIN R = keys \union Named(o)
      /\ \A f \in keys : R[f] = Value(group[1], f)
      /\ \A f \in Named(o) : /\ Measured(Measure(o, f), group, t) # Throws
                             /\ f \notin keys => R[f] = Measured(Measure(o, f), group, t)
  BY GroupRowFacts
<1>4. Fits(group[1], s)
  <2>1. IsSequence(group)
    BY DEF Shaped
  <2>2. Len(group) \in Nat /\ DOMAIN group = 1 .. Len(group) /\ group \in Seq(ToSet(group))
    BY <2>1, SequenceFacts DEF IsSequence
  <2>3. 1 \in DOMAIN group
    BY <2>2
  <2> QED BY <2>3 DEF Shaped
<1> HIDE DEF R, S, keys
<1>5. /\ DOMAIN S = keys \union Named(o) /\ \A f \in keys : S[f] = s[f]
      /\ \A f \in Named(o) : f \notin keys /\ S[f] = MeasureField(Measure(o, f), s)
  BY <1>1 DEF AggregateFields, keys
<1>6. ASSUME NEW f \in DOMAIN S
      PROVE  /\ R[f] \in ValuesOf(S[f].type) \union {None}
             /\ R[f] = None => S[f].nullable
  <2>1. CASE f \in keys
    BY <1>2, <1>3, <1>4, <1>5, <2>1, FieldOfRow
  <2>2. CASE f \in Named(o)
    <3> DEFINE m == Measure(o, f)
    <3>1. m \in ToSet(o.measures) /\ m.op \in Measures
      BY <2>2, MeasureFacts
    <3> HIDE DEF m
    <3>2. ValidMeasure(m, s)
      BY <1>2, <3>1
    <3>3. Allowed(MeasureField(m, s), Measured(m, group, t))
      BY <3>1, <3>2, MeasureOfGroup
    <3>4. R[f] = Measured(m, group, t) /\ R[f] # Throws /\ S[f] = MeasureField(m, s)
      BY <1>3, <1>5, <2>2 DEF m
    <3> QED BY <3>3, <3>4 DEF Allowed
  <2> QED BY <1>5, <2>1, <2>2
<1>7. \A f \in DOMAIN S : Value(R, f) = R[f]
  BY <1>3, <1>5 DEF Value
<1> QED BY <1>3, <1>5, <1>6, <1>7 DEF Fits, R, S

\* The rows of an aggregate fit the shape the compiler derived for it.
LEMMA AggregatedRowsFit ==
  ASSUME NEW s, NEW t, NEW list, Shaped(s, t, list),
         NEW o, WellConfigured(o), o.op = "aggregate", AggregateShape(o, s) # Invalid,
         AggregateRows(o, list, t) # Throws
  PROVE  Shaped(AggregateShape(o, s), AggregateShape(o, t), AggregateRows(o, list, t))
<1> DEFINE S == AggregateShape(o, s)
           T == AggregateShape(o, t)
           keys == GroupKeys(o, list)
           results == [k \in DOMAIN keys |-> GroupRow(o, Group(o, list, keys[k]), t)]
           M == AggregateRows(o, list, t)
<1>1. IsShape(s) /\ IsShape(t) /\ SameFields(s, t) /\ IsSequence(list)
  BY DEF Shaped
<1>2. /\ ToSet(o.groupBy) \subseteq DOMAIN s
      /\ \A m \in ToSet(o.measures) : ValidMeasure(m, s) /\ m.name \notin ToSet(o.groupBy)
  BY AggregateShapeFacts
<1>3. \A m \in ToSet(o.measures) : m.op \in Measures
  BY DEF WellConfigured, Measures
<1>4. ASSUME NEW m \in ToSet(o.measures)
      PROVE  /\ ValidMeasure(m, t)
             /\ MeasureField(m, s) \in Fields /\ MeasureField(m, t) \in Fields
             /\ MeasureField(m, s).type = MeasureField(m, t).type
  BY <1>1, <1>2, <1>3, MeasureFields
<1>5. AggregateFields(o, s, S) /\ AggregateFields(o, t, T)
  <2>1. ToSet(o.groupBy) \subseteq DOMAIN t
    BY <1>1, <1>2 DEF SameFields
  <2> QED BY <1>2, <1>4, <2>1, AggregateShapeIs
<1> HIDE DEF S, T
<1>6. IsShape(S) /\ IsShape(T) /\ SameFields(S, T)
  <2>1. ASSUME NEW f \in DOMAIN S PROVE S[f] \in Fields /\ T[f] \in Fields /\ S[f].type = T[f].type
    <3>1. CASE f \in ToSet(o.groupBy)
      BY <1>1, <1>2, <1>5, <3>1 DEF AggregateFields, IsShape, SameFields, Fields
    <3>2. CASE f \in Named(o)
      <4>1. Measure(o, f) \in ToSet(o.measures)
        BY <3>2, MeasureFacts
      <4>2. S[f] = MeasureField(Measure(o, f), s) /\ T[f] = MeasureField(Measure(o, f), t)
        BY <1>5, <3>2 DEF AggregateFields
      <4> QED BY <1>4, <4>1, <4>2
    <3> QED BY <1>5, <3>1, <3>2 DEF AggregateFields
  <2>2. DOMAIN S = DOMAIN T
    BY <1>5 DEF AggregateFields
  <2> QED BY <2>1, <2>2 DEF IsShape, SameFields, Fields
<1>7. IsSequence(keys) /\ \A k \in DOMAIN keys : \E i \in DOMAIN list : keys[k] = GroupKey(o, list[i])
  BY <1>1, GroupKeysFacts
<1>8. M = results /\ \A k \in DOMAIN keys : GroupRow(o, Group(o, list, keys[k]), t) # Throws
  <2>1. M = Attempt(results)
    BY DEF AggregateRows
  <2>2. Attempt(results) = results /\ \A k \in DOMAIN results : results[k] # Throws
    <3> HIDE DEF results
    <3> QED BY <2>1, AttemptFacts
  <2> QED BY <2>1, <2>2
<1>9. DOMAIN M = DOMAIN keys /\ M = [k \in DOMAIN keys |-> M[k]]
      /\ \A k \in DOMAIN keys : M[k] = GroupRow(o, Group(o, list, keys[k]), t)
  BY <1>8
<1> HIDE DEF keys, M
<1>10. IsSequence(M)
  BY <1>7, <1>9, ListOfLikeLength
<1>11. ASSUME NEW k \in DOMAIN keys PROVE Fits(M[k], S)
  <2>1. PICK i \in DOMAIN list : keys[k] = GroupKey(o, list[i])
    BY <1>7
  <2>2. Shaped(s, t, Group(o, list, keys[k])) /\ Group(o, list, keys[k]) # <<>>
    BY <2>1, GroupFacts
  <2>3. GroupRow(o, Group(o, list, keys[k]), t) # Throws
    BY <1>8 DEF keys
  <2>4. Fits(GroupRow(o, Group(o, list, keys[k]), t), S)
    BY <2>2, <2>3, GroupRowFits DEF S
  <2> QED BY <1>9, <2>4
<1> QED BY <1>6, <1>9, <1>10, <1>11 DEF Shaped, S, T, M

-----------------------------------------------------------------------------
(* Comparing rows *)

\* A key of a sort, on rows of shape s.
IsKey(key, s) ==
  /\ key.field \in DOMAIN s
  /\ key.direction \in {"asc", "desc"}
  /\ key.nulls \in {"first", "last"}

\* How a key compares two rows: a null is first or last in either direction.
LEMMA ComparedByKey ==
  ASSUME NEW s, IsShape(s), NEW key, IsKey(key, s), NEW field, field.type = s[key.field].type,
         NEW a, NEW b, Fits(a, s), Fits(b, s),
         NEW x, NEW y, x = Value(a, key.field), y = Value(b, key.field),
         CompareByKey(a, b, key, field) # Throws
  PROVE  /\ key.field \in DOMAIN a /\ key.field \in DOMAIN b
         /\ x = None \/ y = None => field.nullable
         /\ x = None /\ y = None => CompareByKey(a, b, key, field) = 0
         /\ x = None /\ y # None =>
              CompareByKey(a, b, key, field) = IF key.nulls = "first" THEN -1 ELSE 1
         /\ x # None /\ y = None =>
              CompareByKey(a, b, key, field) = IF key.nulls = "first" THEN 1 ELSE -1
         /\ x # None /\ y # None =>
              /\ x \in ValuesOf(field.type) /\ y \in ValuesOf(field.type)
              /\ CompareSemanticValues(field.type, x, y) # Throws
              /\ CompareByKey(a, b, key, field)
                   = IF key.direction = "asc" THEN CompareSemanticValues(field.type, x, y)
                     ELSE -CompareSemanticValues(field.type, x, y)
<1> DEFINE comparison == CompareSemanticValues(field.type, x, y)
           C == CompareByKey(a, b, key, field)
<1>1. C = IF key.field \notin DOMAIN a \intersect DOMAIN b \/ (~field.nullable /\ (x = None \/ y = None))
          THEN Throws
          ELSE IF x = None /\ y = None THEN 0
          ELSE IF x = None \/ y = None THEN IF (x = None) = (key.nulls = "first") THEN -1 ELSE 1
          ELSE IF comparison = Throws \/ key.direction = "asc" THEN comparison
          ELSE -comparison
  BY Zenon DEF CompareByKey
<1>2. x \in ValuesOf(field.type) \union {None} /\ y \in ValuesOf(field.type) \union {None}
  BY FieldOfRow DEF IsKey
<1> HIDE DEF C, comparison
<1>3. key.field \in DOMAIN a /\ key.field \in DOMAIN b /\ (x = None \/ y = None => field.nullable)
  BY <1>1 DEF C
<1>4. CASE x = None /\ y = None
  BY <1>1, <1>3, <1>4 DEF C
<1>5. CASE x = None /\ y # None
  <2>1. C = IF key.nulls = "first" THEN -1 ELSE 1
    BY <1>1, <1>3, <1>5
  <2> QED BY <1>3, <1>5, <2>1 DEF C
<1>6. CASE x # None /\ y = None
  <2>1. C = IF key.nulls = "first" THEN 1 ELSE -1
    BY <1>1, <1>3, <1>6
  <2> QED BY <1>3, <1>6, <2>1 DEF C
<1>7. CASE x # None /\ y # None
  <2>1. C = IF comparison = Throws \/ key.direction = "asc" THEN comparison ELSE -comparison
    BY <1>1, <1>3, <1>7
  <2>2. comparison # Throws
    BY <2>1 DEF C
  <2>3. C = IF key.direction = "asc" THEN comparison ELSE -comparison
    BY <2>1, <2>2
  <2> QED BY <1>2, <1>3, <1>7, <2>2, <2>3 DEF C, comparison
<1> QED BY <1>4, <1>5, <1>6, <1>7

\* How the provers take a negative number.
LEMMA Negation == \A n \in Int : -n = 0 - n
OBVIOUS

\* A comparison of rows by a key is antisymmetric.
LEMMA KeysAreFair ==
  ASSUME NEW s, IsShape(s), NEW key, IsKey(key, s), NEW field, field.type = s[key.field].type,
         NEW a, NEW b, Fits(a, s), Fits(b, s), CompareByKey(a, b, key, field) # Throws
  PROVE  /\ CompareByKey(a, b, key, field) \in Int
         /\ CompareByKey(b, a, key, field) # Throws
         /\ CompareByKey(b, a, key, field) = -CompareByKey(a, b, key, field)
<1> DEFINE x == Value(a, key.field)
           y == Value(b, key.field)
           c == CompareSemanticValues(field.type, x, y)
           d == CompareSemanticValues(field.type, y, x)
           C == CompareByKey(a, b, key, field)
           D == CompareByKey(b, a, key, field)
<1> USE ThrowsIsNoNumber
<1>1. D = IF key.field \notin DOMAIN b \intersect DOMAIN a \/ (~field.nullable /\ (y = None \/ x = None))
          THEN Throws
          ELSE IF y = None /\ x = None THEN 0
          ELSE IF y = None \/ x = None THEN IF (y = None) = (key.nulls = "first") THEN -1 ELSE 1
          ELSE IF d = Throws \/ key.direction = "asc" THEN d
          ELSE -d
  BY Zenon DEF CompareByKey
<1>2. /\ key.field \in DOMAIN a /\ key.field \in DOMAIN b
      /\ x = None \/ y = None => field.nullable
      /\ x = None /\ y = None => C = 0
      /\ x = None /\ y # None => C = IF key.nulls = "first" THEN -1 ELSE 1
      /\ x # None /\ y = None => C = IF key.nulls = "first" THEN 1 ELSE -1
      /\ x # None /\ y # None => /\ x \in ValuesOf(field.type) /\ y \in ValuesOf(field.type)
                                 /\ c # Throws
                                 /\ C = IF key.direction = "asc" THEN c ELSE -c
  BY ComparedByKey
<1>3. field.type \in Types
  BY DEF IsKey, IsShape
<1> HIDE DEF x, y, C, D
<1>4. CASE x # None /\ y # None
  <2>1. c \in {-1, 0, 1} /\ d = -c
    <3>1. x \in ValuesOf(field.type) /\ y \in ValuesOf(field.type) /\ c # Throws
      BY <1>2, <1>4
    <3> QED BY <1>3, <3>1, ComparisonFacts
  <2> HIDE DEF c, d
  <2>2. D = IF key.direction = "asc" THEN d ELSE -d
    BY <1>1, <1>2, <1>4, <2>1
  <2>3. C = IF key.direction = "asc" THEN c ELSE -c
    BY <1>2, <1>4
  <2>4. D \in Int /\ C \in Int /\ D = -C
    BY <2>1, <2>2, <2>3
  <2> QED BY <2>4 DEF C, D
<1> HIDE DEF c, d
<1>5. CASE x = None /\ y = None
  <2>1. C = 0 /\ D = 0
    BY <1>1, <1>2, <1>5
  <2>2. C \in Int /\ D \in Int /\ D = 0 - C
    BY <2>1
  <2>3. D # Throws
    BY <2>2
  <2>4. D = -C
    BY <2>2, Negation
  <2> QED BY <2>2, <2>3, <2>4 DEF C, D
<1>6. CASE x = None /\ y # None
  <2>1. C = IF key.nulls = "first" THEN -1 ELSE 1
    BY <1>2, <1>6
  <2>2. D = IF key.nulls = "first" THEN 1 ELSE -1
    BY <1>1, <1>2, <1>6
  <2> QED BY <2>1, <2>2 DEF C, D
<1>7. CASE x # None /\ y = None
  <2>1. C = IF key.nulls = "first" THEN 1 ELSE -1
    BY <1>2, <1>7
  <2>2. D = IF key.nulls = "first" THEN -1 ELSE 1
    BY <1>1, <1>2, <1>7
  <2> QED BY <2>1, <2>2 DEF C, D
<1> QED BY <1>4, <1>5, <1>6, <1>7

\* It is transitive.
LEMMA KeysChain ==
  ASSUME NEW s, IsShape(s), NEW key, IsKey(key, s), NEW field, field.type = s[key.field].type,
         NEW a, NEW b, NEW c, Fits(a, s), Fits(b, s), Fits(c, s),
         CompareByKey(a, b, key, field) # Throws, CompareByKey(b, c, key, field) # Throws,
         CompareByKey(a, b, key, field) <= 0, CompareByKey(b, c, key, field) <= 0
  PROVE  /\ CompareByKey(a, c, key, field) # Throws
         /\ CompareByKey(a, c, key, field) <= 0
         /\ CompareByKey(a, c, key, field) = 0 =>
              CompareByKey(a, b, key, field) = 0 /\ CompareByKey(b, c, key, field) = 0
<1> DEFINE x == Value(a, key.field)
           y == Value(b, key.field)
           z == Value(c, key.field)
           p == CompareSemanticValues(field.type, x, y)
           q == CompareSemanticValues(field.type, y, z)
           r == CompareSemanticValues(field.type, x, z)
           A == CompareByKey(a, b, key, field)
           B == CompareByKey(b, c, key, field)
           C == CompareByKey(a, c, key, field)
<1> USE ThrowsIsNoNumber
<1>1. C = IF key.field \notin DOMAIN a \intersect DOMAIN c \/ (~field.nullable /\ (x = None \/ z = None))
          THEN Throws
          ELSE IF x = None /\ z = None THEN 0
          ELSE IF x = None \/ z = None THEN IF (x = None) = (key.nulls = "first") THEN -1 ELSE 1
          ELSE IF r = Throws \/ key.direction = "asc" THEN r
          ELSE -r
  BY Zenon DEF CompareByKey
<1>2. /\ key.field \in DOMAIN a /\ key.field \in DOMAIN b
      /\ x = None \/ y = None => field.nullable
      /\ x = None /\ y = None => A = 0
      /\ x = None /\ y # None => A = IF key.nulls = "first" THEN -1 ELSE 1
      /\ x # None /\ y = None => A = IF key.nulls = "first" THEN 1 ELSE -1
      /\ x # None /\ y # None => /\ x \in ValuesOf(field.type) /\ y \in ValuesOf(field.type)
                                 /\ p # Throws
                                 /\ A = IF key.direction = "asc" THEN p ELSE -p
  BY ComparedByKey
<1>3. /\ key.field \in DOMAIN b /\ key.field \in DOMAIN c
      /\ y = None \/ z = None => field.nullable
      /\ y = None /\ z = None => B = 0
      /\ y = None /\ z # None => B = IF key.nulls = "first" THEN -1 ELSE 1
      /\ y # None /\ z = None => B = IF key.nulls = "first" THEN 1 ELSE -1
      /\ y # None /\ z # None => /\ y \in ValuesOf(field.type) /\ z \in ValuesOf(field.type)
                                 /\ q # Throws
                                 /\ B = IF key.direction = "asc" THEN q ELSE -q
  BY ComparedByKey
<1>4. field.type \in Types
  BY DEF IsKey, IsShape
<1>5. A <= 0 /\ B <= 0
  OBVIOUS
<1> HIDE DEF x, y, z, A, B, C
<1>6. CASE x # None /\ y # None /\ z # None
  <2>1. /\ x \in ValuesOf(field.type) /\ y \in ValuesOf(field.type) /\ z \in ValuesOf(field.type)
        /\ p # Throws /\ q # Throws
    BY <1>2, <1>3, <1>6
  <2>2. /\ p \in {-1, 0, 1} /\ CompareSemanticValues(field.type, y, x) = -p
        /\ q \in {-1, 0, 1} /\ CompareSemanticValues(field.type, z, y) = -q
        /\ CompareSemanticValues(field.type, y, x) # Throws
        /\ CompareSemanticValues(field.type, z, y) # Throws
    <3>1. p \in {-1, 0, 1} /\ CompareSemanticValues(field.type, y, x) = -p
      BY <1>4, <2>1, ComparisonFacts
    <3>2. q \in {-1, 0, 1} /\ CompareSemanticValues(field.type, z, y) = -q
      BY <1>4, <2>1, ComparisonFacts
    <3> HIDE DEF p, q
    <3> QED BY <3>1, <3>2
  <2>3. CASE key.direction = "asc"
    <3>1. p <= 0 /\ q <= 0 /\ A = p /\ B = q
      <4> HIDE DEF p, q, r
      <4> QED BY <1>2, <1>3, <1>5, <1>6, <2>3
    <3>2. r # Throws /\ r <= 0 /\ (r = 0 => p = 0 /\ q = 0)
      BY <1>4, <2>1, <3>1, ComparisonsChain
    <3> HIDE DEF p, q, r
    <3>3. C = r
      BY <1>1, <1>2, <1>3, <1>6, <2>3
    <3> QED BY <3>1, <3>2, <3>3 DEF A, B, C
  <2>4. CASE key.direction = "desc"
    <3> DEFINE pp == CompareSemanticValues(field.type, y, x)
               qq == CompareSemanticValues(field.type, z, y)
               rr == CompareSemanticValues(field.type, z, x)
    <3>1. pp <= 0 /\ qq <= 0 /\ A = pp /\ B = qq
      <4> HIDE DEF p, q, r, pp, qq, rr
      <4>1. A = -p /\ B = -q
        BY <1>2, <1>3, <1>6, <2>4
      <4> QED BY <1>5, <2>2, <4>1 DEF pp, qq
    <3>2. rr # Throws /\ rr <= 0 /\ (rr = 0 => pp = 0 /\ qq = 0)
      BY <1>4, <2>1, <2>2, <3>1, ComparisonsChain
    <3>3. r = -rr /\ rr \in {-1, 0, 1}
      BY <1>4, <2>1, <3>2, ComparisonFacts
    <3> HIDE DEF p, q, r, pp, qq, rr
    <3>4. C = rr
      <4>1. C = -r
        BY <1>1, <1>2, <1>3, <1>6, <2>4, <3>3
      <4> QED BY <3>3, <4>1
    <3> QED BY <3>1, <3>2, <3>4 DEF A, B, C
  <2> QED BY <2>3, <2>4 DEF IsKey
<1> HIDE DEF p, q, r
<1>7. CASE x = None /\ y = None /\ z = None
  <2>1. C = 0 /\ A = 0 /\ B = 0
    BY <1>1, <1>2, <1>3, <1>7
  <2> QED BY <2>1 DEF A, B, C
<1>8. CASE x = None /\ z # None
  <2>1. key.nulls = "first"
    <3>1. CASE y = None
      BY <1>3, <1>5, <1>8, <3>1
    <3>2. CASE y # None
      BY <1>2, <1>5, <1>8, <3>2
    <3> QED BY <3>1, <3>2
  <2>2. C = -1
    BY <1>1, <1>2, <1>3, <1>8, <2>1
  <2> QED BY <2>2 DEF C
<1>9. CASE x # None /\ z = None
  <2>1. key.nulls = "last"
    <3>1. CASE y = None
      BY <1>2, <1>5, <1>9, <3>1 DEF IsKey
    <3>2. CASE y # None
      BY <1>3, <1>5, <1>9, <3>2 DEF IsKey
    <3> QED BY <3>1, <3>2
  <2>2. C = -1
    BY <1>1, <1>2, <1>3, <1>9, <2>1
  <2> QED BY <2>2 DEF C
<1>10. CASE x = None /\ y # None /\ z = None
  BY <1>2, <1>3, <1>5, <1>10
<1>11. CASE x # None /\ y = None /\ z # None
  BY <1>2, <1>3, <1>5, <1>11
<1> QED BY <1>6, <1>7, <1>8, <1>9, <1>10, <1>11

\* Items of rows of shape s, which order sorts.
SortsItems(order, s, items) ==
  /\ IsShape(s) /\ IsSequence(order.by)
  /\ \A k \in DOMAIN order.by :
       /\ IsKey(order.by[k], s)
       /\ order.shape[order.by[k].field].type = s[order.by[k].field].type
  /\ \A a \in items : Fits(a.row, s) /\ a.inputIndex \in Int

\* How key k compares two items.
ByKey(a, b, order, k) ==
  CompareByKey(a.row, b.row, order.by[k], order.shape[order.by[k].field])

\* Key k is the first that tells two items apart.
DecidedAt(a, b, order, k) ==
  /\ k \in DOMAIN order.by
  /\ ByKey(a, b, order, k) # 0
  /\ \A j \in 1 .. k - 1 : ByKey(a, b, order, j) = 0

\* No key tells them apart.
Undecided(a, b, order) == \A k \in DOMAIN order.by : ByKey(a, b, order, k) = 0

\* Items are compared by the first key that tells them apart, or else by their
\* places in the input.
LEMMA RowsCompared ==
  ASSUME NEW order, IsSequence(order.by), NEW a, NEW b
  PROVE  /\ Undecided(a, b, order) => CompareRows(a, b, order) = a.inputIndex - b.inputIndex
         /\ \A k : DecidedAt(a, b, order, k) => CompareRows(a, b, order) = ByKey(a, b, order, k)
         /\ Undecided(a, b, order) \/ \E k : DecidedAt(a, b, order, k)
<1> DEFINE telling == {k \in DOMAIN order.by : ByKey(a, b, order, k) # 0}
           C == CompareRows(a, b, order)
<1>1. C = IF telling = {} THEN a.inputIndex - b.inputIndex ELSE ByKey(a, b, order, FirstOf(telling))
  BY DEF CompareRows, ByKey
<1>2. Len(order.by) \in Nat /\ DOMAIN order.by = 1 .. Len(order.by)
  BY SequenceFacts
<1>3. telling \in SUBSET Nat
  BY <1>2
<1>4. telling = {} <=> Undecided(a, b, order)
  BY DEF Undecided
<1>5. \A k \in DOMAIN order.by : k \in telling <=> ByKey(a, b, order, k) # 0
  OBVIOUS
<1>6. telling \subseteq DOMAIN order.by
  OBVIOUS
<1> HIDE DEF telling, C
<1>7. ASSUME telling # {} PROVE DecidedAt(a, b, order, FirstOf(telling))
  <2> DEFINE f == FirstOf(telling)
  <2>1. f \in telling /\ \A j \in telling : f <= j
    BY <1>3, <1>7, FirstOfFacts
  <2> HIDE DEF f
  <2>2. ASSUME NEW j \in 1 .. f - 1 PROVE ByKey(a, b, order, j) = 0
    <3>1. f \in Nat /\ f \in DOMAIN order.by
      BY <1>3, <1>6, <2>1
    <3>2. j \in DOMAIN order.by /\ ~(f <= j)
      BY <1>2, <3>1
    <3> QED BY <1>5, <2>1, <3>2
  <2> QED BY <1>5, <1>6, <2>1, <2>2 DEF DecidedAt, f
<1>8. ASSUME NEW k, DecidedAt(a, b, order, k) PROVE telling # {} /\ FirstOf(telling) = k
  <2>1. k \in telling /\ k \in Nat
    BY <1>3, <1>5, <1>8 DEF DecidedAt
  <2> DEFINE f == FirstOf(telling)
  <2>2. f \in telling /\ f <= k /\ f \in Nat
    BY <1>3, <2>1, FirstOfFacts
  <2> HIDE DEF f
  <2>3. f = k
    <3> SUFFICES ASSUME f # k PROVE FALSE
      OBVIOUS
    <3>1. f \in 1 .. k - 1
      BY <1>2, <1>6, <2>1, <2>2
    <3> QED BY <1>5, <1>6, <1>8, <2>2, <3>1 DEF DecidedAt
  <2> QED BY <2>1, <2>3 DEF f
<1>9. ASSUME NEW k, DecidedAt(a, b, order, k) PROVE C = ByKey(a, b, order, k)
  BY <1>1, <1>8, <1>9
<1> QED BY <1>1, <1>4, <1>7, <1>9 DEF C

\* A comparison by a key is antisymmetric.
LEMMA ByKeyFair ==
  ASSUME NEW order, NEW s, NEW items, SortsItems(order, s, items), NEW a \in items, NEW b \in items,
         NEW k \in DOMAIN order.by, ByKey(a, b, order, k) # Throws
  PROVE  /\ ByKey(a, b, order, k) \in Int /\ ByKey(b, a, order, k) # Throws
         /\ ByKey(b, a, order, k) = -ByKey(a, b, order, k)
BY KeysAreFair DEF SortsItems, ByKey

\* It is transitive.
LEMMA ByKeyChain ==
  ASSUME NEW order, NEW s, NEW items, SortsItems(order, s, items),
         NEW a \in items, NEW b \in items, NEW c \in items,
         NEW k \in DOMAIN order.by, ByKey(a, b, order, k) # Throws, ByKey(b, c, order, k) # Throws,
         ByKey(a, b, order, k) <= 0, ByKey(b, c, order, k) <= 0
  PROVE  /\ ByKey(a, c, order, k) # Throws
         /\ ByKey(a, c, order, k) <= 0
         /\ ByKey(a, c, order, k) = 0 => ByKey(a, b, order, k) = 0 /\ ByKey(b, c, order, k) = 0
BY KeysChain DEF SortsItems, ByKey

\* Items that are equal by a key are so either way.
LEMMA SwappedKey ==
  ASSUME NEW order, NEW s, NEW items, SortsItems(order, s, items), NEW a \in items, NEW b \in items,
         NEW k \in DOMAIN order.by
  PROVE  ByKey(a, b, order, k) = 0 => ByKey(b, a, order, k) = 0
<1> SUFFICES ASSUME ByKey(a, b, order, k) = 0 PROVE ByKey(b, a, order, k) = 0
  OBVIOUS
<1> DEFINE x == ByKey(a, b, order, k)
           y == ByKey(b, a, order, k)
<1>1. x \in Int
  OBVIOUS
<1>2. x # Throws
  BY <1>1, ThrowsIsNoNumber
<1>3. y = -x
  BY <1>2, ByKeyFair
<1> HIDE DEF x, y
<1>4. y = 0 - x
  BY <1>1, <1>3, Negation
<1>5. x = 0
  BY DEF x
<1> QED BY <1>4, <1>5 DEF y

\* The comparison of items is antisymmetric.
LEMMA RowsAreFair ==
  ASSUME NEW order, NEW s, NEW items, SortsItems(order, s, items), NEW a \in items, NEW b \in items,
         CompareRows(a, b, order) # Throws
  PROVE  /\ CompareRows(a, b, order) \in Int /\ CompareRows(b, a, order) # Throws
         /\ CompareRows(b, a, order) = -CompareRows(a, b, order)
<1> DEFINE C == CompareRows(a, b, order)
           D == CompareRows(b, a, order)
<1>1. IsSequence(order.by) /\ a.inputIndex \in Int /\ b.inputIndex \in Int
  BY DEF SortsItems
<1>2. Len(order.by) \in Nat /\ DOMAIN order.by = 1 .. Len(order.by)
  BY <1>1, SequenceFacts
<1>3. CASE Undecided(a, b, order)
  <2>1. Undecided(b, a, order)
    BY <1>3, SwappedKey DEF Undecided
  <2>2. C = a.inputIndex - b.inputIndex /\ D = b.inputIndex - a.inputIndex
    BY <1>1, <1>3, <2>1, RowsCompared
  <2> HIDE DEF C, D
  <2>3. C \in Int /\ D \in Int /\ D = -C
    BY <1>1, <2>2
  <2>4. D # Throws
    BY <2>3, ThrowsIsNoNumber
  <2> QED BY <2>3, <2>4 DEF C, D
<1>4. CASE ~Undecided(a, b, order)
  <2>1. PICK k : DecidedAt(a, b, order, k)
    BY <1>1, <1>4, RowsCompared
  <2>2. C = ByKey(a, b, order, k) /\ k \in DOMAIN order.by
    BY <1>1, <2>1, RowsCompared DEF DecidedAt
  <2>3. /\ ByKey(a, b, order, k) \in Int /\ ByKey(b, a, order, k) # Throws
        /\ ByKey(b, a, order, k) = -ByKey(a, b, order, k)
    BY <2>2, ByKeyFair
  <2>4. ByKey(b, a, order, k) # 0
    BY <2>1, <2>3 DEF DecidedAt
  <2>5. \A j \in 1 .. k - 1 : j \in DOMAIN order.by
    BY <1>2, <2>2
  <2>6. DecidedAt(b, a, order, k)
    BY <2>1, <2>2, <2>4, <2>5, SwappedKey DEF DecidedAt
  <2>7. D = ByKey(b, a, order, k)
    BY <1>1, <2>6, RowsCompared
  <2> QED BY <2>2, <2>3, <2>7
<1> QED BY <1>3, <1>4

\* It is transitive.
LEMMA RowsChain ==
  ASSUME NEW order, NEW s, NEW items, SortsItems(order, s, items),
         NEW a \in items, NEW b \in items, NEW c \in items,
         CompareRows(a, b, order) # Throws, CompareRows(b, c, order) # Throws,
         CompareRows(a, b, order) <= 0, CompareRows(b, c, order) <= 0
  PROVE  /\ CompareRows(a, c, order) # Throws
         /\ CompareRows(a, c, order) <= 0
         /\ CompareRows(a, c, order) = 0 => CompareRows(a, b, order) = 0 /\ CompareRows(b, c, order) = 0
<1> DEFINE telling == {k \in DOMAIN order.by : ByKey(a, b, order, k) # 0 \/ ByKey(b, c, order, k) # 0}
<1>1. IsSequence(order.by) /\ a.inputIndex \in Int /\ b.inputIndex \in Int /\ c.inputIndex \in Int
  BY DEF SortsItems
<1>2. Len(order.by) \in Nat /\ DOMAIN order.by = 1 .. Len(order.by)
  BY <1>1, SequenceFacts
<1>3. ASSUME NEW j \in DOMAIN order.by, ByKey(a, b, order, j) = 0, ByKey(b, c, order, j) = 0
      PROVE  ByKey(a, c, order, j) = 0
  <2> DEFINE x == ByKey(a, b, order, j)
             y == ByKey(b, c, order, j)
             z == ByKey(a, c, order, j)
  <2>1. ByKey(b, a, order, j) = 0 /\ ByKey(c, b, order, j) = 0
    BY <1>3, SwappedKey
  <2>2. 0 # Throws /\ 0 <= 0
    BY ThrowsIsNoNumber
  <2>3. z # Throws /\ z <= 0
    BY <1>3, <2>2, ByKeyChain
  <2>4. ByKey(c, a, order, j) <= 0
    BY <2>1, <2>2, ByKeyChain
  <2>5. z \in Int /\ ByKey(c, a, order, j) = -z
    BY <2>3, ByKeyFair
  <2> HIDE DEF z
  <2>6. z = 0
    BY <2>3, <2>4, <2>5
  <2> QED BY <2>6 DEF z
<1>4. CASE telling = {}
  <2>1. Undecided(a, b, order) /\ Undecided(b, c, order)
    BY <1>4 DEF Undecided
  <2>2. Undecided(a, c, order)
    BY <1>3, <2>1 DEF Undecided
  <2> DEFINE p == CompareRows(a, b, order)
             q == CompareRows(b, c, order)
             r == CompareRows(a, c, order)
  <2>3. /\ p = a.inputIndex - b.inputIndex /\ q = b.inputIndex - c.inputIndex
        /\ r = a.inputIndex - c.inputIndex
    BY <1>1, <2>1, <2>2, RowsCompared
  <2>4. p <= 0 /\ q <= 0
    OBVIOUS
  <2> HIDE DEF p, q, r
  <2>5. r \in Int /\ r <= 0 /\ (r = 0 => p = 0 /\ q = 0)
    BY <1>1, <2>3, <2>4
  <2>6. r # Throws
    BY <2>5, ThrowsIsNoNumber
  <2> QED BY <2>5, <2>6 DEF p, q, r
<1>5. CASE telling # {}
  <2> DEFINE k == FirstOf(telling)
             x == ByKey(a, b, order, k)
             y == ByKey(b, c, order, k)
             z == ByKey(a, c, order, k)
  <2>1. k \in telling /\ \A j \in telling : k <= j
    <3>1. telling \in SUBSET Nat
      BY <1>2
    <3> HIDE DEF telling
    <3> QED BY <1>5, <3>1, FirstOfFacts
  <2> HIDE DEF k
  <2>2. k \in DOMAIN order.by /\ (x # 0 \/ y # 0)
    BY <2>1
  <2>3. ASSUME NEW j \in 1 .. k - 1
        PROVE  /\ j \in DOMAIN order.by
               /\ ByKey(a, b, order, j) = 0 /\ ByKey(b, c, order, j) = 0 /\ ByKey(a, c, order, j) = 0
    <3>1. j \in DOMAIN order.by /\ ~(k <= j)
      BY <1>2, <2>2
    <3>2. ByKey(a, b, order, j) = 0 /\ ByKey(b, c, order, j) = 0
      BY <2>1, <3>1
    <3> QED BY <1>3, <3>1, <3>2
  <2>4. x # 0 => CompareRows(a, b, order) = x
    BY <1>1, <2>2, <2>3, RowsCompared DEF DecidedAt
  <2>5. y # 0 => CompareRows(b, c, order) = y
    BY <1>1, <2>2, <2>3, RowsCompared DEF DecidedAt
  <2>6. 0 # Throws /\ 0 <= 0
    BY ThrowsIsNoNumber
  <2>7. x # Throws /\ y # Throws /\ x <= 0 /\ y <= 0
    <3>1. x # Throws /\ x <= 0
      <4>1. CASE x = 0
        BY <2>6, <4>1
      <4>2. CASE x # 0
        BY <2>4, <4>2
      <4> QED BY <4>1, <4>2
    <3>2. y # Throws /\ y <= 0
      <4>1. CASE y = 0
        BY <2>6, <4>1
      <4>2. CASE y # 0
        BY <2>5, <4>2
      <4> QED BY <4>1, <4>2
    <3> QED BY <3>1, <3>2
  <2>8. z # Throws /\ z <= 0 /\ (z = 0 => x = 0 /\ y = 0)
    BY <2>2, <2>7, ByKeyChain
  <2>9. z \in Int /\ z # 0
    BY <2>2, <2>8, ByKeyFair
  <2>10. CompareRows(a, c, order) = z
    BY <1>1, <2>2, <2>3, <2>9, RowsCompared DEF DecidedAt
  <2> QED BY <2>8, <2>9, <2>10
<1> QED BY <1>4, <1>5

-----------------------------------------------------------------------------
(* Sorting by rank *)

\* Of two different items one is worse, and worse is transitive.
Orders(order, items) ==
  /\ \A a, b \in items : a # b => (Worse(a, b, order) <=> ~Worse(b, a, order))
  /\ \A a, b, c \in items : a # b /\ b # c /\ Worse(a, b, order) /\ Worse(b, c, order)
                              => a # c /\ Worse(a, c, order)

\* Any two items can be compared, and have places of their own.
CanBeSorted(order, s, items) ==
  /\ SortsItems(order, s, items)
  /\ \A a, b \in items : a # b => /\ a.inputIndex # b.inputIndex
                                  /\ CompareRows(a, b, order) # Throws

\* Different items are never equal: their places differ.
LEMMA NeverEqual ==
  ASSUME NEW order, NEW s, NEW items, CanBeSorted(order, s, items), NEW a \in items, NEW b \in items, a # b
  PROVE  CompareRows(a, b, order) \in Int /\ CompareRows(a, b, order) # 0
<1>1. SortsItems(order, s, items) /\ CompareRows(a, b, order) # Throws /\ a.inputIndex # b.inputIndex
  BY DEF CanBeSorted
<1>2. IsSequence(order.by) /\ a.inputIndex \in Int /\ b.inputIndex \in Int
  BY <1>1 DEF SortsItems
<1>3. CompareRows(a, b, order) \in Int
  BY <1>1, RowsAreFair
<1>4. CASE Undecided(a, b, order)
  <2>1. CompareRows(a, b, order) = a.inputIndex - b.inputIndex
    BY <1>2, <1>4, RowsCompared
  <2>2. a.inputIndex - b.inputIndex # 0
    BY <1>1, <1>2
  <2> QED BY <1>3, <2>1, <2>2
<1>5. CASE ~Undecided(a, b, order)
  <2>1. PICK k : DecidedAt(a, b, order, k)
    BY <1>2, <1>5, RowsCompared
  <2>2. CompareRows(a, b, order) = ByKey(a, b, order, k)
    BY <1>2, <2>1, RowsCompared
  <2> QED BY <1>3, <2>1, <2>2 DEF DecidedAt
<1> QED BY <1>4, <1>5

\* Items that can be compared are in a strict order.
LEMMA ItemsAreOrdered ==
  ASSUME NEW order, NEW s, NEW items, CanBeSorted(order, s, items)
  PROVE  Orders(order, items)
<1>0. SortsItems(order, s, items)
  BY DEF CanBeSorted
<1>1. ASSUME NEW a \in items, NEW b \in items, a # b
      PROVE  /\ CompareRows(a, b, order) \in Int /\ CompareRows(a, b, order) # 0
             /\ CompareRows(a, b, order) # Throws
             /\ CompareRows(b, a, order) = 0 - CompareRows(a, b, order)
  <2>1. CompareRows(a, b, order) # Throws
    BY <1>1 DEF CanBeSorted
  <2>2. CompareRows(a, b, order) \in Int /\ CompareRows(b, a, order) = -CompareRows(a, b, order)
    BY <1>0, <2>1, RowsAreFair
  <2>3. CompareRows(a, b, order) # 0
    BY <1>1, NeverEqual
  <2> QED BY <2>1, <2>2, <2>3, Negation
<1>2. ASSUME NEW a \in items, NEW b \in items, a # b
      PROVE  Worse(a, b, order) <=> ~Worse(b, a, order)
  <2> DEFINE c == CompareRows(a, b, order)
             d == CompareRows(b, a, order)
  <2>1. c \in Int /\ c # 0 /\ d = 0 - c
    BY <1>1, <1>2
  <2>2. Worse(a, b, order) = (c > 0) /\ Worse(b, a, order) = (d > 0)
    BY DEF Worse
  <2> HIDE DEF c, d
  <2>3. (c > 0) <=> ~(d > 0)
    BY <2>1
  <2> QED BY <2>2, <2>3
<1>3. ASSUME NEW a \in items, NEW b \in items, NEW c \in items, a # b, b # c,
             Worse(a, b, order), Worse(b, c, order)
      PROVE  a # c /\ Worse(a, c, order)
  <2>1. a # c
    BY <1>2, <1>3
  <2> DEFINE p == CompareRows(a, b, order)
             q == CompareRows(b, c, order)
             r == CompareRows(c, a, order)
  <2>2. p > 0 /\ q > 0 /\ p \in Int /\ q \in Int
    BY <1>1, <1>3 DEF Worse
  <2>3. CompareRows(b, a, order) = 0 - p /\ CompareRows(c, b, order) = 0 - q
        /\ CompareRows(b, a, order) # Throws /\ CompareRows(c, b, order) # Throws
        /\ r \in Int /\ r # 0 /\ CompareRows(a, c, order) = 0 - r
    BY <1>1, <1>3, <2>1
  <2>4. 0 - p <= 0 /\ 0 - q <= 0
    <3> HIDE DEF p, q
    <3> QED BY <2>2
  <2>5. CompareRows(b, a, order) <= 0 /\ CompareRows(c, b, order) <= 0
    BY <2>3, <2>4
  <2>6. r <= 0
    BY <1>0, <2>3, <2>5, RowsChain
  <2> HIDE DEF r
  <2>7. 0 - r > 0
    BY <2>3, <2>6
  <2> QED BY <2>1, <2>3, <2>7 DEF Worse
<1> QED BY <1>2, <1>3 DEF Orders

\* The nth of the sorted items is the one that is worse than n - 1 others.
LEMMA InOrderFacts ==
  ASSUME NEW items, IsFiniteSet(items), NEW order, Orders(order, items)
  PROVE  /\ IsSequence(InOrder(items, order))
         /\ Len(InOrder(items, order)) = Cardinality(items)
         /\ \A n \in 1 .. Cardinality(items) :
              /\ InOrder(items, order)[n] \in items
              /\ Cardinality({other \in items \ {InOrder(items, order)[n]} :
                                Worse(InOrder(items, order)[n], other, order)}) = n - 1
<1> DEFINE below(item) == {other \in items \ {item} : Worse(item, other, order)}
           B == [item \in items |-> below(item)]
           sorted == InOrder(items, order)
           The(n) == CHOOSE item \in items : Cardinality(below(item)) = n - 1
<1>1. \A item \in items : \A other : other \in B[item] <=> other \in items /\ other # item /\ Worse(item, other, order)
  OBVIOUS
<1>2. B \in [items -> SUBSET items] /\ \A item \in items : B[item] = below(item)
  OBVIOUS
<1> HIDE DEF B
<1>3. OrdersBefore(B, items)
  <2>1. \A x \in items : x \notin B[x]
    BY <1>1
  <2>2. ASSUME NEW x \in items, NEW y \in B[x], NEW z \in B[y] PROVE z \in B[x]
    <3>1. y \in items /\ y # x /\ Worse(x, y, order)
      BY <1>1
    <3>2. z \in items /\ z # y /\ Worse(y, z, order)
      BY <1>1, <3>1
    <3>3. x # z /\ Worse(x, z, order)
      BY <3>1, <3>2 DEF Orders
    <3> QED BY <1>1, <3>2, <3>3
  <2>3. \A x, y \in items : x # y => x \in B[y] \/ y \in B[x]
    BY <1>1 DEF Orders
  <2> QED BY <1>2, <2>1, <2>2, <2>3 DEF OrdersBefore
<1>4. /\ Cardinality(items) \in Nat
      /\ \A n \in 1 .. Cardinality(items) : \E x \in items : Cardinality(B[x]) = n - 1
  BY <1>3, RanksAreTaken
<1>5. sorted = [n \in 1 .. Cardinality(items) |-> The(n)]
  BY DEF InOrder
<1>6. ASSUME NEW n \in 1 .. Cardinality(items)
      PROVE  The(n) \in items /\ Cardinality(below(The(n))) = n - 1
  <2>1. \E x \in items : Cardinality(below(x)) = n - 1
    BY <1>2, <1>4
  <2> QED BY <2>1
<1> HIDE DEF The
<1>7. \A n \in 1 .. Cardinality(items) : sorted[n] = The(n)
  BY <1>5
<1>8. \A n \in 1 .. Cardinality(items) : sorted[n] \in items /\ Cardinality(below(sorted[n])) = n - 1
  BY <1>6, <1>7
<1>9. IsSequence(sorted) /\ Len(sorted) = Cardinality(items)
  <2> HIDE DEF sorted
  <2>1. sorted = [n \in 1 .. Cardinality(items) |-> sorted[n]]
    BY <1>5
  <2> QED BY <1>4, <2>1, ListFacts
<1> QED BY <1>8, <1>9

-----------------------------------------------------------------------------
(* A heap *)

\* A list of different things, which are the elements of X.
Lists(h, X) ==
  /\ IsSequence(h) /\ ToSet(h) = X
  /\ \A i, j \in DOMAIN h : h[i] = h[j] => i = j

\* Each element of X has one place in h.
LEMMA ListedFacts ==
  ASSUME NEW X, NEW h, Lists(h, X)
  PROVE  /\ Len(h) \in Nat /\ DOMAIN h = 1 .. Len(h) /\ h \in Seq(X)
         /\ \A i \in 1 .. Len(h) : h[i] \in X
         /\ \A i, j \in 1 .. Len(h) : h[i] = h[j] => i = j
         /\ \A x \in X : \E i \in 1 .. Len(h) : x = h[i]
<1>1. Len(h) \in Nat /\ DOMAIN h = 1 .. Len(h) /\ \A x : x \in ToSet(h) <=> \E i \in DOMAIN h : x = h[i]
  BY SequenceFacts DEF Lists
<1>2. h \in Seq(X)
  BY DEF Lists, IsSequence
<1> QED BY <1>1, <1>2 DEF Lists

\* g is h with the elements at two places exchanged.
IsSwap(g, h, i, j) ==
  /\ Len(g) = Len(h)
  /\ g[i] = h[j] /\ g[j] = h[i]
  /\ \A k \in 1 .. Len(h) : k # i /\ k # j => g[k] = h[k]

\* A swap changes two places of a heap, and no elements.
LEMMA SwappedFacts ==
  ASSUME NEW X, NEW h, Lists(h, X), NEW i \in 1 .. Len(h), NEW j \in 1 .. Len(h)
  PROVE  Lists(Swapped(h, i, j), X) /\ IsSwap(Swapped(h, i, j), h, i, j)
<1> DEFINE g == Swapped(h, i, j)
<1> DEFINE N == Len(h)
<1>1. /\ N \in Nat /\ DOMAIN h = 1 .. N
      /\ \A k \in 1 .. N : h[k] \in X
      /\ \A k, l \in 1 .. N : h[k] = h[l] => k = l
      /\ \A x \in X : \E k \in 1 .. N : x = h[k]
  BY ListedFacts
<1>3. i \in 1 .. N /\ j \in 1 .. N
  OBVIOUS
<1>2. g = [k \in 1 .. N |-> g[k]] /\ g[i] = h[j] /\ g[j] = h[i]
      /\ \A k \in 1 .. N : k # i /\ k # j => g[k] = h[k]
  <2>1. g = [k \in 1 .. N |-> IF k = j THEN h[i] ELSE IF k = i THEN h[j] ELSE h[k]]
    BY <1>1 DEF Swapped
  <2> HIDE DEF N
  <2> QED BY <2>1, <1>3
<1> HIDE DEF N, g
<1>4. IsSequence(g) /\ Len(g) = N /\ DOMAIN g = 1 .. N
  BY <1>1, <1>2, ListFacts
<1>5. \A k, l \in 1 .. N : g[k] = g[l] => k = l
  BY <1>1, <1>2, <1>3
<1>6. \A x : x \in ToSet(g) <=> \E k \in 1 .. N : x = g[k]
  BY <1>4, SequenceFacts
<1>7. \A k \in 1 .. N : g[k] \in X
  BY <1>1, <1>2, <1>3
<1>8. ASSUME NEW x \in X PROVE \E k \in 1 .. N : x = g[k]
  <2>1. PICK k \in 1 .. N : x = h[k]
    BY <1>1
  <2>2. k = i \/ k = j \/ (k # i /\ k # j)
    OBVIOUS
  <2> QED BY <1>2, <1>3, <2>1, <2>2
<1>9. ToSet(g) = X
  <2>1. \A x : x \in ToSet(g) <=> x \in X
    BY <1>6, <1>7, <1>8
  <2> QED BY <2>1
<1> QED BY <1>2, <1>4, <1>5, <1>9 DEF Lists, IsSwap, N, g

\* What is not worse than something that is not worse than a third is better than it.
LEMMA NotWorse ==
  ASSUME NEW X, NEW order, Orders(order, X), NEW a \in X, NEW b \in X, NEW c \in X,
         a # b, b # c, a # c, ~Worse(a, b, order), ~Worse(b, c, order)
  PROVE  ~Worse(a, c, order) /\ Worse(c, a, order)
<1>1. Worse(b, a, order) /\ Worse(c, b, order)
  BY DEF Orders
<1>2. Worse(c, a, order)
  BY <1>1 DEF Orders
<1> QED BY <1>2 DEF Orders

-----------------------------------------------------------------------------
\* No element of h is worse than the one above it, save perhaps at some place.
HeapButAt(h, order, at) == \A i \in 2 .. Len(h) : i # at => ~Worse(h[i], h[i \div 2], order)

\* No element of h is worse than the one above it.
IsHeap(h, order) == \A i \in 2 .. Len(h) : ~Worse(h[i], h[i \div 2], order)

\* Above every place but the root there is another.
LEMMA Halves ==
  \A i \in Nat : i >= 2 => i \div 2 \in Nat /\ 1 <= i \div 2 /\ i \div 2 < i
OBVIOUS

\* The root of a heap is its worst element.
LEMMA RootIsWorst ==
  ASSUME NEW X, NEW order, Orders(order, X), NEW h, Lists(h, X), IsHeap(h, order)
  PROVE  \A i \in 2 .. Len(h) : Worse(h[1], h[i], order)
<1> DEFINE N == Len(h)
           Good == {m \in Nat : \A i \in 2 .. N : i <= m => Worse(h[1], h[i], order)}
<1>1. /\ N \in Nat
      /\ \A k \in 1 .. N : h[k] \in X
      /\ \A k, l \in 1 .. N : h[k] = h[l] => k = l
  BY ListedFacts
<1>2. 0 \in Good
  BY <1>1
<1>3. ASSUME NEW m \in Nat, m \in Good PROVE m + 1 \in Good
  <2> SUFFICES ASSUME NEW i \in 2 .. N, i <= m + 1 PROVE Worse(h[1], h[i], order)
    OBVIOUS
  <2> DEFINE p == i \div 2
  <2>1. p \in Nat /\ 1 <= p /\ p < i /\ p <= m /\ p \in 1 .. N /\ i \in 1 .. N /\ 1 \in 1 .. N
    BY <1>1, Halves
  <2>2. ~Worse(h[i], h[p], order)
    BY DEF IsHeap
  <2> HIDE DEF p
  <2>3. h[i] # h[p] /\ h[1] # h[i] /\ h[i] \in X /\ h[p] \in X /\ h[1] \in X
    BY <1>1, <2>1
  <2>4. Worse(h[p], h[i], order)
    BY <2>2, <2>3 DEF Orders
  <2>5. CASE p = 1
    BY <2>4, <2>5
  <2>6. CASE p # 1
    <3>1. p \in 2 .. N /\ h[1] # h[p]
      BY <1>1, <2>1, <2>6
    <3>2. Worse(h[1], h[p], order)
      BY <1>3, <2>1, <3>1
    <3> QED BY <2>3, <2>4, <3>1, <3>2 DEF Orders
  <2> QED BY <2>5, <2>6
<1>4. N \in Good
  <2> HIDE DEF Good
  <2> QED BY <1>1, <1>2, <1>3, FromNumberToNumber
<1> QED BY <1>1, <1>4

-----------------------------------------------------------------------------
\* A swap on the way up.
UpStep(s, order) ==
  LET parent == s.at \div 2
  IN  IF s.at = 1 \/ ~Worse(s.heap[s.at], s.heap[parent], order) THEN s
      ELSE Moved(s, parent)

\* What is below the place on the way up is not worse than what is above it.
Rising(h, at, X, n, order) ==
  /\ Lists(h, X) /\ Len(h) = n /\ at \in 1 .. n
  /\ HeapButAt(h, order, at)
  /\ at > 1 => \A i \in 2 .. n : i \div 2 = at => ~Worse(h[i], h[at \div 2], order)

\* A swap on the way up leaves one place that may be wrong, the one above.
LEMMA OneUp ==
  ASSUME NEW X, NEW order, Orders(order, X), NEW n \in Nat, NEW h, NEW at, Rising(h, at, X, n, order),
         at # 1, Worse(h[at], h[at \div 2], order)
  PROVE  Rising(Swapped(h, at, at \div 2), at \div 2, X, n, order)
<1> DEFINE p == at \div 2
           g == Swapped(h, at, p)
<1>1. /\ Lists(h, X) /\ Len(h) = n /\ at \in 1 .. n /\ at \in Nat /\ at >= 2
      /\ p \in Nat /\ 1 <= p /\ p < at /\ p \in 1 .. n
  BY Halves DEF Rising
<1>2. /\ \A k \in 1 .. n : h[k] \in X
      /\ \A k, l \in 1 .. n : h[k] = h[l] => k = l
  BY <1>1, ListedFacts
<1>3. /\ Lists(g, X) /\ Len(g) = n /\ g[at] = h[p] /\ g[p] = h[at]
      /\ \A k \in 1 .. n : k # at /\ k # p => g[k] = h[k]
  <2>1. Len(h) = n /\ at \in 1 .. Len(h) /\ p \in 1 .. Len(h) /\ Lists(h, X)
    BY <1>1
  <2>2. Lists(g, X) /\ IsSwap(g, h, at, p)
    <3> HIDE DEF p
    <3> QED BY <2>1, SwappedFacts
  <2> HIDE DEF p, g
  <2> QED BY <2>1, <2>2 DEF IsSwap
<1>4. \A i \in 2 .. n : i # at => ~Worse(h[i], h[i \div 2], order)
  BY <1>1 DEF Rising, HeapButAt
<1>5. \A i \in 2 .. n : i \div 2 = at => ~Worse(h[i], h[p], order)
  BY <1>1 DEF Rising
<1>6. Worse(h[at], h[p], order)
  OBVIOUS
<1>7. \A i \in 2 .. n : i \in Nat /\ i \div 2 \in 1 .. n /\ i \div 2 < i /\ i \in 1 .. n
  BY Halves
<1> HIDE DEF p, g
<1>8. h[at] # h[p] /\ h[at] \in X /\ h[p] \in X
  BY <1>1, <1>2
<1>9. ASSUME NEW i \in 2 .. n, i # p PROVE ~Worse(g[i], g[i \div 2], order)
  <2> DEFINE q == i \div 2
  <2>0. i \in 1 .. n /\ q \in 1 .. n /\ q < i /\ i \in Nat /\ q \in Nat
    BY <1>7
  <2>00. ~Worse(h[i], h[q], order) \/ i = at
    BY <1>4
  <2>000. q = at => ~Worse(h[i], h[p], order)
    BY <1>5
  <2>0000. i = at => q = p
    BY DEF p
  <2> HIDE DEF q
  <2>1. CASE i = at
    <3>1. ~Worse(h[p], h[at], order)
      BY <1>6, <1>8 DEF Orders
    <3> QED BY <1>3, <2>0000, <2>1, <3>1 DEF q
  <2>2. CASE i # at /\ q = at
    <3>1. g[i] = h[i] /\ g[q] = h[p]
      BY <1>3, <1>9, <2>0, <2>2
    <3> QED BY <2>2, <2>000, <3>1 DEF q
  <2>3. CASE i # at /\ q = p
    <3>1. g[i] = h[i] /\ g[q] = h[at]
      BY <1>3, <1>9, <2>0, <2>3
    <3>2. h[i] # h[p] /\ h[i] # h[at] /\ h[i] \in X
      BY <1>1, <1>2, <1>9, <2>0, <2>3
    <3>3. Worse(h[p], h[i], order)
      BY <1>8, <2>00, <2>3, <3>2 DEF Orders
    <3>4. Worse(h[at], h[i], order)
      BY <1>6, <1>8, <3>2, <3>3 DEF Orders
    <3>5. ~Worse(h[i], h[at], order)
      BY <1>8, <3>2, <3>4 DEF Orders
    <3> QED BY <3>1, <3>5 DEF q
  <2>4. CASE i # at /\ q # at /\ q # p
    <3>1. g[i] = h[i] /\ g[q] = h[q]
      BY <1>3, <1>9, <2>0, <2>4
    <3> QED BY <2>00, <2>4, <3>1 DEF q
  <2> QED BY <2>1, <2>2, <2>3, <2>4
<1>10. ASSUME p > 1, NEW i \in 2 .. n, i \div 2 = p PROVE ~Worse(g[i], g[p \div 2], order)
  <2> DEFINE r == p \div 2
  <2>1. p \in 2 .. n
    BY <1>1, <1>10
  <2>2. r \in 1 .. n /\ r < p
    BY <1>7, <2>1
  <2>3. ~Worse(h[p], h[r], order)
    BY <1>1, <1>4, <2>1
  <2> HIDE DEF r
  <2>4. r # at /\ r # p /\ g[r] = h[r] /\ h[r] \in X
    BY <1>1, <1>2, <1>3, <2>2
  <2>5. CASE i = at
    BY <1>3, <2>3, <2>4, <2>5 DEF r
  <2>6. CASE i # at
    <3>1. i \in 1 .. n /\ p < i /\ i \in Nat
      BY <1>7, <1>10
    <3>2. g[i] = h[i]
      BY <1>1, <1>3, <2>6, <3>1
    <3>3. ~Worse(h[i], h[p], order)
      BY <1>4, <1>10, <2>6
    <3>4. h[i] # h[p] /\ h[p] # h[r] /\ h[i] # h[r] /\ h[i] \in X
      BY <1>1, <1>2, <2>2, <3>1
    <3>5. ~Worse(h[i], h[r], order)
      BY <1>8, <2>3, <2>4, <3>3, <3>4, NotWorse
    <3> QED BY <2>4, <3>2, <3>5 DEF r
  <2> QED BY <2>5, <2>6
<1>11. HeapButAt(g, order, p)
  BY <1>3, <1>9 DEF HeapButAt
<1>12. Rising(g, p, X, n, order)
  BY <1>1, <1>3, <1>10, <1>11 DEF Rising
<1> QED BY <1>12 DEF g, p

\* The states of a way up.
Risings(X, n, order) == {z \in [heap : Seq(X), at : 1 .. n] : Rising(z.heap, z.at, X, n, order)}

\* The row has come to rest.
RestsAbove(z, order) == z.at = 1 \/ ~Worse(z.heap[z.at], z.heap[z.at \div 2], order)

\* A step on the way up leads up, until the row rests.
LEMMA UpStepFacts ==
  ASSUME NEW X, NEW order, Orders(order, X), NEW n \in Nat, NEW z \in Risings(X, n, order)
  PROVE  /\ UpStep(z, order) \in Risings(X, n, order)
         /\ RestsAbove(z, order) => UpStep(z, order) = z
         /\ ~RestsAbove(z, order) => UpStep(z, order).at < z.at
<1>0. z \in [heap : Seq(X), at : 1 .. n] /\ Rising(z.heap, z.at, X, n, order) /\ z.at \in 1 .. n
  BY DEF Risings
<1>1. CASE RestsAbove(z, order)
  BY <1>1 DEF RestsAbove, UpStep
<1>2. CASE ~RestsAbove(z, order)
  <2> DEFINE p == z.at \div 2
             g == Swapped(z.heap, z.at, p)
  <2>1. UpStep(z, order) = [heap |-> g, at |-> p]
    BY <1>2 DEF RestsAbove, UpStep, Moved
  <2>2. z.at # 1 /\ Worse(z.heap[z.at], z.heap[p], order)
    BY <1>2 DEF RestsAbove
  <2>3. Rising(g, p, X, n, order)
    BY <1>0, <2>2, OneUp
  <2>4. z.at \in Nat /\ z.at >= 2
    BY <1>0, <2>2
  <2>5. p < z.at
    BY <2>4, Halves
  <2> HIDE DEF p, g
  <2>6. g \in Seq(X) /\ p \in 1 .. n
    BY <2>3, ListedFacts DEF Rising
  <2>7. UpStep(z, order) \in Risings(X, n, order)
    BY <2>1, <2>3, <2>6 DEF Risings
  <2> QED BY <1>2, <2>1, <2>5, <2>7
<1> QED BY <1>1, <1>2

\* F is what UpStep makes of a heap.
Lifts(F, h, start, X, order) ==
  /\ F \in [0 .. Len(h) -> Risings(X, Len(h), order)]
  /\ F[0] = [heap |-> h, at |-> start]
  /\ \A n \in 1 .. Len(h) : F[n] = UpStep(F[n - 1], order)
  /\ SiftUp(h, start, order) = F[Len(h)].heap

\* The recursive function in SiftUp is what it says.
LEMMA LiftExists ==
  ASSUME NEW X, NEW order, Orders(order, X), NEW h, NEW start, Rising(h, start, X, Len(h), order)
  PROVE  \E F : Lifts(F, h, start, X, order)
<1> DEFINE N == Len(h)
           D == Risings(X, N, order)
           first == [heap |-> h, at |-> start]
           step == [n \in 1 .. N |-> [z \in D |-> UpStep(z, order)]]
           Is(F) == F = [n \in 0 .. N |->
             IF n = 0 THEN first
             ELSE LET s == F[n - 1]  parent == s.at \div 2
                  IN  IF s.at = 1 \/ ~Worse(s.heap[s.at], s.heap[parent], order) THEN s
                      ELSE Moved(s, parent)]
           C == CHOOSE F : Is(F)
<1>1. N \in Nat /\ h \in Seq(X) /\ start \in 1 .. N
  BY ListedFacts DEF Rising
<1>2. first \in D
  BY <1>1 DEF Risings
<1>3. step \in [1 .. N -> [D -> D]]
  <2> HIDE DEF N
  <2>1. \A z \in D : UpStep(z, order) \in D
    BY <1>1, UpStepFacts
  <2> HIDE DEF D
  <2> QED BY <2>1
<1>4. PICK F : Iterates(F, D, N, first, step)
  <2> HIDE DEF step, N, D, first
  <2> QED BY <1>1, <1>2, <1>3, IterationExists
<1>5. /\ F \in [0 .. N -> D] /\ F[0] = first
      /\ \A n \in 1 .. N : F[n] = UpStep(F[n - 1], order)
  <2>1. F \in [0 .. N -> D] /\ F[0] = first /\ \A n \in 1 .. N : F[n] = step[n][F[n - 1]]
    <3> HIDE DEF step, N, D, first
    <3> QED BY <1>4 DEF Iterates
  <2> HIDE DEF N, D, first
  <2>2. ASSUME NEW n \in 1 .. N PROVE F[n] = UpStep(F[n - 1], order)
    <3>1. n - 1 \in 0 .. N
      BY <1>1
    <3>2. F[n - 1] \in D
      BY <2>1, <3>1
    <3>3. step[n][F[n - 1]] = UpStep(F[n - 1], order)
      BY <3>2
    <3> QED BY <2>1, <3>3
  <2> QED BY <2>1, <2>2
<1>6. Is(F)
  <2> DEFINE e(n) == IF n = 0 THEN first ELSE UpStep(F[n - 1], order)
  <2>1. F = [n \in 0 .. N |-> e(n)]
    <3> HIDE DEF N, D, first
    <3>1. \A n \in 0 .. N : F[n] = e(n)
      BY <1>1, <1>5
    <3> HIDE DEF e
    <3> QED BY <1>5, <3>1
  <2> QED BY <2>1, Zenon DEF UpStep
<1>7. Is(C)
  BY <1>6
<1>8. SiftUp(h, start, order) = C[N].heap
  BY DEF SiftUp
<1> DEFINE f(n) == IF n = 0 THEN first ELSE UpStep(C[n - 1], order)
<1>9. C = [n \in 0 .. N |-> f(n)]
  <2> HIDE DEF C
  <2> QED BY <1>7, Zenon DEF UpStep
<1> HIDE DEF C, N, D, first
<1>10. C = [n \in 0 .. N |-> C[n]] /\ C[0] = first
       /\ \A n \in 1 .. N : C[n] = UpStep(C[n - 1], order)
  <2>1. f(0) = first /\ \A n \in 1 .. N : f(n) = UpStep(C[n - 1], order)
    BY <1>1
  <2>2. 0 \in 0 .. N /\ \A n \in 1 .. N : n \in 0 .. N
    BY <1>1
  <2> HIDE DEF f
  <2> QED BY <1>9, <2>1, <2>2
<1>11. C \in [0 .. N -> D]
  <2>1. \A n \in 1 .. N : C[n - 1] \in D => C[n] \in D
    BY <1>1, <1>10, UpStepFacts DEF D
  <2>2. C[0] \in D
    BY <1>2, <1>10
  <2> QED BY <1>1, <1>10, <2>1, <2>2, RecursionTyped
<1> QED BY <1>8, <1>10, <1>11 DEF Lifts, N, D, first

\* Sifting up makes a heap again.
LEMMA LiftedFacts ==
  ASSUME NEW X, NEW order, Orders(order, X), NEW h, NEW start, Rising(h, start, X, Len(h), order),
         NEW g, g = SiftUp(h, start, order)
  PROVE  Lists(g, X) /\ Len(g) = Len(h) /\ IsHeap(g, order)
<1> DEFINE N == Len(h)
<1>1. N \in Nat /\ start \in 1 .. N
  BY ListedFacts DEF Rising
<1>2. PICK F : Lifts(F, h, start, X, order)
  BY LiftExists
<1>3. /\ F \in [0 .. N -> Risings(X, N, order)]
      /\ \A n \in 1 .. N : F[n] = UpStep(F[n - 1], order)
      /\ F[0].at = start /\ g = F[N].heap
  BY <1>2 DEF Lifts
<1> HIDE DEF N
<1> DEFINE Good == {n \in Nat : n <= N => RestsAbove(F[n], order) \/ F[n].at <= N - n}
<1>4. 0 \in Good
  BY <1>1, <1>3
<1>5. ASSUME NEW n \in Nat, n \in Good PROVE n + 1 \in Good
  <2> SUFFICES ASSUME n + 1 <= N PROVE RestsAbove(F[n + 1], order) \/ F[n + 1].at <= N - (n + 1)
    OBVIOUS
  <2> DEFINE z == F[n]
             y == F[n + 1]
  <2>1. n \in 0 .. N /\ n + 1 \in 1 .. N /\ n + 1 \in 0 .. N /\ (n + 1) - 1 = n
    BY <1>1
  <2>2. z \in Risings(X, N, order) /\ y \in Risings(X, N, order)
    BY <1>3, <2>1
  <2>3. y = UpStep(z, order)
    BY <1>3, <2>1
  <2>4. RestsAbove(z, order) \/ z.at <= N - n
    BY <1>1, <1>5
  <2> HIDE DEF z, y
  <2>5. z.at \in 1 .. N /\ y.at \in 1 .. N
    BY <2>2 DEF Risings
  <2>6. CASE RestsAbove(z, order)
    BY <1>1, <2>2, <2>3, <2>6, UpStepFacts DEF y
  <2>7. CASE ~RestsAbove(z, order)
    <3>1. y.at < z.at
      BY <1>1, <2>2, <2>3, <2>7, UpStepFacts
    <3>2. y.at <= N - (n + 1)
      BY <1>1, <2>4, <2>5, <2>7, <3>1
    <3> QED BY <3>2 DEF y
  <2> QED BY <2>6, <2>7
<1>6. N \in Good
  <2> HIDE DEF Good
  <2> QED BY <1>1, <1>4, <1>5, FromNumberToNumber
<1> DEFINE z == F[N]
<1>7. z \in Risings(X, N, order)
  <2>1. N \in 0 .. N
    BY <1>1
  <2> QED BY <1>3, <2>1
<1>8. RestsAbove(z, order) \/ z.at <= N - N
  BY <1>1, <1>6
<1> HIDE DEF z, Good
<1>9. z.at \in 1 .. N /\ Rising(z.heap, z.at, X, N, order)
  BY <1>7 DEF Risings
<1>10. RestsAbove(z, order)
  BY <1>1, <1>8, <1>9
<1>11. \A i \in 2 .. N : ~Worse(z.heap[i], z.heap[i \div 2], order)
  BY <1>9, <1>10 DEF Rising, HeapButAt, RestsAbove
<1>12. Lists(z.heap, X) /\ Len(z.heap) = N /\ g = z.heap
  BY <1>3, <1>9 DEF Rising, z
<1> QED BY <1>11, <1>12 DEF IsHeap, N

\* A sequence is the function of its elements.
LEMMA SequenceForm ==
  ASSUME NEW D, NEW g \in Seq(D)
  PROVE  g = [i \in 1 .. Len(g) |-> g[i]]
OBVIOUS

\* An element appended is the last.
LEMMA AppendedFacts ==
  ASSUME NEW X, NEW h, Lists(h, X), NEW item, item \notin X, NEW g, g = Append(h, item)
  PROVE  /\ Lists(g, X \union {item}) /\ Len(g) = Len(h) + 1
         /\ g[Len(h) + 1] = item /\ \A i \in 1 .. Len(h) : g[i] = h[i]
<1> DEFINE N == Len(h)
<1>1. /\ N \in Nat /\ h \in Seq(X)
      /\ \A k \in 1 .. N : h[k] \in X
      /\ \A k, l \in 1 .. N : h[k] = h[l] => k = l
      /\ \A x \in X : \E k \in 1 .. N : x = h[k]
  BY ListedFacts
<1>2. g \in Seq(X \union {item}) /\ Len(g) = N + 1 /\ g[N + 1] = item /\ \A i \in 1 .. N : g[i] = h[i]
  <2>1. h \in Seq(X \union {item})
    BY <1>1
  <2> QED BY <2>1
<1> HIDE DEF N
<1>3. g = [i \in 1 .. N + 1 |-> g[i]]
  <2>1. g = [i \in 1 .. Len(g) |-> g[i]]
    BY <1>2, SequenceForm
  <2> QED BY <1>2, <2>1
<1>4. IsSequence(g) /\ DOMAIN g = 1 .. N + 1
  BY <1>1, <1>3, ListFacts
<1>5. ASSUME NEW k \in 1 .. N + 1, NEW l \in 1 .. N + 1, g[k] = g[l] PROVE k = l
  <2>1. \A i \in 1 .. N + 1 : i \in 1 .. N \/ i = N + 1
    BY <1>1
  <2>2. \A i \in 1 .. N : g[i] = h[i] /\ h[i] \in X /\ h[i] # item /\ g[i] # g[N + 1]
    BY <1>1, <1>2
  <2>3. CASE k \in 1 .. N /\ l \in 1 .. N
    BY <1>1, <1>5, <2>2, <2>3
  <2>4. CASE k = N + 1 \/ l = N + 1
    BY <1>5, <2>1, <2>2, <2>4
  <2> QED BY <2>1, <2>3, <2>4
<1>6. ToSet(g) = X \union {item}
  <2>1. \A x : x \in ToSet(g) <=> \E k \in 1 .. N + 1 : x = g[k]
    BY <1>4 DEF ToSet
  <2>2. ASSUME NEW x PROVE x \in ToSet(g) <=> x \in X \union {item}
    <3>1. ASSUME NEW k \in 1 .. N + 1 PROVE g[k] \in X \union {item}
      <4>1. CASE k \in 1 .. N
        BY <1>1, <1>2, <4>1
      <4>2. CASE k = N + 1
        BY <1>2, <4>2
      <4>3. k \in 1 .. N \/ k = N + 1
        BY <1>1
      <4> QED BY <4>1, <4>2, <4>3
    <3>2. ASSUME x \in X PROVE \E k \in 1 .. N + 1 : x = g[k]
      <4>1. PICK k \in 1 .. N : x = h[k]
        BY <1>1, <3>2
      <4>2. k \in 1 .. N + 1 /\ x = g[k]
        BY <1>1, <1>2, <4>1
      <4> QED BY <4>2
    <3>3. N + 1 \in 1 .. N + 1
      BY <1>1
    <3>4. (\E k \in 1 .. N + 1 : x = g[k]) => x \in X \union {item}
      BY <3>1
    <3>5. x = item => \E k \in 1 .. N + 1 : x = g[k]
      BY <1>2, <3>3
    <3> QED BY <2>1, <3>2, <3>4, <3>5
  <2> QED BY <2>2
<1> QED BY <1>2, <1>4, <1>5, <1>6 DEF Lists, N

\* Pushing an item on a heap makes a heap of one element more.
LEMMA PushedFacts ==
  ASSUME NEW X, NEW h, Lists(h, X), NEW item, item \notin X, NEW order, Orders(order, X \union {item}),
         IsHeap(h, order), NEW g, g = PushHeap(h, item, order)
  PROVE  Lists(g, X \union {item}) /\ Len(g) = Len(h) + 1 /\ IsHeap(g, order)
<1> DEFINE N == Len(h)
           a == Append(h, item)
<1>1. N \in Nat
  BY ListedFacts
<1>2. /\ Lists(a, X \union {item}) /\ Len(a) = N + 1
      /\ \A i \in 1 .. N : a[i] = h[i]
  <2>1. a = Append(h, item)
    OBVIOUS
  <2> HIDE DEF a
  <2>2. Lists(a, X \union {item}) /\ Len(a) = N + 1
    BY <2>1, AppendedFacts
  <2>3. ASSUME NEW i \in 1 .. N PROVE a[i] = h[i]
    BY <2>1, <2>3, AppendedFacts
  <2> QED BY <2>2, <2>3
<1>3. g = SiftUp(a, N + 1, order)
  BY DEF PushHeap
<1>4. \A i \in 2 .. N : ~Worse(h[i], h[i \div 2], order)
  BY DEF IsHeap
<1> HIDE DEF N, a
<1>5. HeapButAt(a, order, N + 1)
  <2>1. ASSUME NEW i \in 2 .. N + 1, i # N + 1 PROVE ~Worse(a[i], a[i \div 2], order)
    <3> DEFINE p == i \div 2
    <3>1. i \in 2 .. N /\ i \in 1 .. N
      BY <1>1, <2>1
    <3>2. p \in 1 .. N
      BY <1>1, <3>1, Halves
    <3>3. ~Worse(h[i], h[p], order)
      BY <1>4, <3>1
    <3> HIDE DEF p
    <3>4. a[i] = h[i] /\ a[p] = h[p]
      BY <1>2, <3>1, <3>2
    <3> QED BY <3>3, <3>4 DEF p
  <2> QED BY <1>2, <2>1 DEF HeapButAt
<1>6. ASSUME NEW i \in 2 .. N + 1, i \div 2 = N + 1 PROVE FALSE
  BY <1>1, <1>6, Halves
<1>7. N + 1 \in 1 .. N + 1
  BY <1>1
<1>8. Rising(a, N + 1, X \union {item}, N + 1, order)
  BY <1>2, <1>5, <1>6, <1>7 DEF Rising
<1>9. Rising(a, N + 1, X \union {item}, Len(a), order) /\ Len(a) = N + 1
  BY <1>2, <1>8
<1> QED BY <1>3, <1>9, LiftedFacts DEF N

-----------------------------------------------------------------------------
\* The two places below at.
Below(i, at) == i = 2 * at \/ i = 2 * at + 1

\* What is below a place is at twice its number, or one after.
LEMMA BelowFacts ==
  ASSUME NEW i \in Nat, NEW at \in Nat, i >= 2
  PROVE  i \div 2 = at <=> Below(i, at)
BY DEF Below

\* All but those below a place are not worse than the one above them.
Sinking(h, at, X, n, order) ==
  /\ Lists(h, X) /\ Len(h) = n /\ at \in 1 .. n
  /\ \A i \in 2 .. n : i \div 2 # at => ~Worse(h[i], h[i \div 2], order)
  /\ at > 1 => \A i \in 2 .. n : i \div 2 = at => ~Worse(h[i], h[at \div 2], order)

\* Of a place and those below, the worst is found.
LEMMA WorstFacts ==
  ASSUME NEW X, NEW order, Orders(order, X), NEW h, Lists(h, X), NEW at \in 1 .. Len(h),
         NEW w, w = Worst(h, at, order)
  PROVE  /\ w \in 1 .. Len(h) /\ (w = at \/ Below(w, at))
         /\ w # at => Worse(h[w], h[at], order) /\ w > at
         /\ \A i \in 1 .. Len(h) : Below(i, at) /\ i # w => ~Worse(h[i], h[w], order)
<1> DEFINE n == Len(h)
           left == 2 * at
           half == IF left <= n /\ Worse(h[left], h[at], order) THEN left ELSE at
<1>1. /\ n \in Nat
      /\ \A k \in 1 .. n : h[k] \in X
      /\ \A k, l \in 1 .. n : h[k] = h[l] => k = l
  BY ListedFacts
<1>2. at \in 1 .. n /\ at \in Nat
  BY <1>1
<1>3. w = IF left < n /\ Worse(h[left + 1], h[half], order) THEN left + 1 ELSE half
  BY DEF Worst
<1>4. \A i : Below(i, at) <=> i = left \/ i = left + 1
  BY DEF Below
<1> HIDE DEF n
<1>5. left \in Nat /\ left > at /\ left + 1 # at
  BY <1>2
<1>6. \A a, b \in 1 .. n : a # b => (Worse(h[a], h[b], order) <=> ~Worse(h[b], h[a], order))
  BY <1>1 DEF Orders
<1>7. \A a, b, c \in 1 .. n : a # b /\ b # c /\ Worse(h[a], h[b], order) /\ Worse(h[b], h[c], order)
        => a # c /\ Worse(h[a], h[c], order)
  BY <1>1 DEF Orders
<1>8. CASE left <= n /\ Worse(h[left], h[at], order)
  <2>1. half = left /\ left \in 1 .. n
    BY <1>2, <1>8
  <2> HIDE DEF half, left
  <2>2. CASE left < n /\ Worse(h[left + 1], h[half], order)
    <3>1. w = left + 1 /\ left + 1 \in 1 .. n /\ w # left
      BY <1>1, <1>3, <1>5, <2>2
    <3>2. Worse(h[w], h[left], order)
      BY <2>1, <2>2, <3>1
    <3>3. Worse(h[w], h[at], order) /\ ~Worse(h[left], h[w], order)
      BY <1>2, <1>5, <1>6, <1>7, <1>8, <2>1, <3>1, <3>2
    <3> QED BY <1>2, <1>4, <1>5, <3>1, <3>3 DEF n
  <2>3. CASE ~(left < n /\ Worse(h[left + 1], h[half], order))
    <3>1. w = left
      BY <1>3, <2>1, <2>3
    <3>2. ASSUME NEW i \in 1 .. n, Below(i, at), i # w PROVE ~Worse(h[i], h[w], order)
      <4>1. i = left + 1
        BY <1>4, <3>1, <3>2
      <4>2. left < n
        BY <1>1, <1>5, <4>1
      <4> QED BY <2>1, <2>3, <3>1, <4>1, <4>2
    <3>3. Below(w, at) /\ w > at /\ w \in 1 .. n
      BY <1>4, <1>5, <2>1, <3>1
    <3> QED BY <1>8, <3>1, <3>2, <3>3 DEF n
  <2> QED BY <2>2, <2>3
<1>9. CASE ~(left <= n /\ Worse(h[left], h[at], order))
  <2>1. half = at
    BY <1>9
  <2> HIDE DEF half, left
  <2>2. CASE left < n /\ Worse(h[left + 1], h[half], order)
    <3>1. w = left + 1 /\ left + 1 \in 1 .. n /\ left \in 1 .. n /\ w # left /\ w > at
      BY <1>1, <1>2, <1>3, <1>5, <2>2
    <3>2. Worse(h[w], h[at], order) /\ ~Worse(h[left], h[at], order)
      BY <1>1, <1>5, <1>9, <2>1, <2>2, <3>1
    <3>3. Worse(h[at], h[left], order)
      BY <1>2, <1>5, <1>6, <3>1, <3>2
    <3>4. Worse(h[w], h[left], order)
      BY <1>2, <1>5, <1>7, <3>1, <3>2, <3>3
    <3>5. ~Worse(h[left], h[w], order)
      BY <1>6, <3>1, <3>4
    <3> QED BY <1>4, <3>1, <3>2, <3>5 DEF n
  <2>3. CASE ~(left < n /\ Worse(h[left + 1], h[half], order))
    <3>1. w = at
      BY <1>3, <2>1, <2>3
    <3>2. ASSUME NEW i \in 1 .. n, Below(i, at) PROVE ~Worse(h[i], h[w], order)
      <4>1. CASE i = left
        <5>1. left <= n
          BY <1>1, <1>5, <4>1
        <5> QED BY <1>9, <3>1, <4>1, <5>1
      <4>2. CASE i = left + 1
        <5>1. left < n
          BY <1>1, <1>5, <4>2
        <5> QED BY <2>1, <2>3, <3>1, <4>2, <5>1
      <4> QED BY <1>4, <3>2, <4>1, <4>2
    <3> QED BY <1>2, <3>1, <3>2 DEF n
  <2> QED BY <2>2, <2>3
<1> QED BY <1>8, <1>9

\* A swap on the way down.
DownStep(s, order) == Moved(s, Worst(s.heap, s.at, order))

\* A swap on the way down leaves one place that may be wrong, the one below.
LEMMA OneDown ==
  ASSUME NEW X, NEW order, Orders(order, X), NEW n \in Nat, NEW h, NEW at, Sinking(h, at, X, n, order),
         NEW w, w = Worst(h, at, order), w # at,
         NEW g, g = Swapped(h, at, w)
  PROVE  Sinking(g, w, X, n, order)
<1>1. Lists(h, X) /\ Len(h) = n /\ at \in 1 .. n /\ at \in Nat
  BY DEF Sinking
<1>2. /\ \A k \in 1 .. n : h[k] \in X
      /\ \A k, l \in 1 .. n : h[k] = h[l] => k = l
  BY <1>1, ListedFacts
<1>3. /\ w \in 1 .. n /\ Below(w, at) /\ Worse(h[w], h[at], order) /\ w > at
      /\ \A i \in 1 .. n : Below(i, at) /\ i # w => ~Worse(h[i], h[w], order)
  <2>1. at \in 1 .. Len(h)
    BY <1>1
  <2>2. w \in 1 .. Len(h) /\ Below(w, at) /\ Worse(h[w], h[at], order) /\ w > at
    BY <1>1, <2>1, WorstFacts
  <2>3. ASSUME NEW i \in 1 .. Len(h), Below(i, at), i # w PROVE ~Worse(h[i], h[w], order)
    BY <1>1, <2>1, <2>3, WorstFacts
  <2> QED BY <1>1, <2>2, <2>3
<1>4. /\ Lists(g, X) /\ Len(g) = n /\ g[at] = h[w] /\ g[w] = h[at]
      /\ \A k \in 1 .. n : k # at /\ k # w => g[k] = h[k]
  <2>1. at \in 1 .. Len(h) /\ w \in 1 .. Len(h) /\ Lists(h, X) /\ g = Swapped(h, at, w)
    BY <1>1, <1>3
  <2>2. Lists(g, X) /\ IsSwap(g, h, at, w)
    BY <2>1, SwappedFacts
  <2> QED BY <1>1, <2>2 DEF IsSwap
<1>5. \A i \in 2 .. n : i \div 2 # at => ~Worse(h[i], h[i \div 2], order)
  BY DEF Sinking
<1>6. at > 1 => \A i \in 2 .. n : i \div 2 = at => ~Worse(h[i], h[at \div 2], order)
  BY DEF Sinking
<1>7. \A i \in 2 .. n : /\ i \in Nat /\ i \in 1 .. n /\ i \div 2 \in 1 .. n /\ i \div 2 < i
                        /\ i \div 2 = at <=> Below(i, at)
  <2> TAKE i \in 2 .. n
  <2>1. i \in Nat /\ i >= 2 /\ i \in 1 .. n
    OBVIOUS
  <2>2. i \div 2 \in Nat /\ 1 <= i \div 2 /\ i \div 2 < i
    BY <2>1, Halves
  <2>3. i \div 2 = at <=> Below(i, at)
    BY <1>1, <2>1, BelowFacts
  <2> QED BY <2>1, <2>2, <2>3
<1>8. h[at] # h[w] /\ h[at] \in X /\ h[w] \in X /\ w \in Nat /\ w \in 2 .. n
  BY <1>1, <1>2, <1>3
<1>9. ASSUME NEW i \in 2 .. n, i \div 2 # w PROVE ~Worse(g[i], g[i \div 2], order)
  <2> DEFINE p == i \div 2
  <2>1. i \in Nat /\ i \in 1 .. n /\ p \in 1 .. n /\ p < i /\ (p = at <=> Below(i, at)) /\ p # w
    BY <1>7, <1>9
  <2>2. p # at => ~Worse(h[i], h[p], order)
    BY <1>5
  <2>3. i = at => ~Worse(h[w], h[p], order)
    <3>1. w \in 2 .. n /\ w \div 2 = at
      BY <1>3, <1>7, <1>8
    <3>2. ASSUME i = at PROVE ~Worse(h[w], h[at \div 2], order)
      BY <1>1, <1>6, <3>1, <3>2
    <3> QED BY <3>2
  <2> HIDE DEF p
  <2>4. CASE i = at
    <3>1. g[i] = h[w] /\ g[p] = h[p]
      BY <1>4, <2>1, <2>4
    <3> QED BY <2>3, <2>4, <3>1 DEF p
  <2>5. CASE i = w
    <3>1. p = at
      BY <1>3, <2>1, <2>5
    <3>2. ~Worse(h[at], h[w], order)
      BY <1>3, <1>8 DEF Orders
    <3> QED BY <1>4, <2>5, <3>1, <3>2 DEF p
  <2>6. CASE i # at /\ i # w /\ p = at
    <3>1. g[i] = h[i] /\ g[p] = h[w]
      BY <1>4, <2>1, <2>6
    <3>2. ~Worse(h[i], h[w], order)
      BY <1>3, <2>1, <2>6
    <3> QED BY <3>1, <3>2 DEF p
  <2>7. CASE i # at /\ i # w /\ p # at
    <3>1. g[i] = h[i] /\ g[p] = h[p]
      BY <1>4, <2>1, <2>7
    <3> QED BY <2>2, <2>7, <3>1 DEF p
  <2> QED BY <2>4, <2>5, <2>6, <2>7
<1>10. ASSUME NEW i \in 2 .. n, i \div 2 = w PROVE ~Worse(g[i], g[w \div 2], order)
  <2>1. w \div 2 = at
    BY <1>3, <1>7, <1>8
  <2>2. i \in 1 .. n /\ w < i /\ i # w /\ i # at
    BY <1>1, <1>3, <1>7, <1>8, <1>10
  <2>3. ~Worse(h[i], h[w], order)
    BY <1>3, <1>5, <1>8, <1>10
  <2>4. g[i] = h[i] /\ g[at] = h[w]
    BY <1>4, <2>2
  <2> QED BY <2>1, <2>3, <2>4
<1> QED BY <1>3, <1>4, <1>9, <1>10 DEF Sinking

-----------------------------------------------------------------------------
\* The states of a way down.
Sinkings(X, n, order) == {z \in [heap : Seq(X), at : 1 .. n] : Sinking(z.heap, z.at, X, n, order)}

\* The row has come to rest.
RestsBelow(z, order) == Worst(z.heap, z.at, order) = z.at

\* A step on the way down leads down, until the row rests.
LEMMA DownStepFacts ==
  ASSUME NEW X, NEW order, Orders(order, X), NEW n \in Nat, NEW z \in Sinkings(X, n, order)
  PROVE  /\ DownStep(z, order) \in Sinkings(X, n, order)
         /\ RestsBelow(z, order) => DownStep(z, order) = z
         /\ ~RestsBelow(z, order) => DownStep(z, order).at > z.at
<1> DEFINE w == Worst(z.heap, z.at, order)
           g == Swapped(z.heap, z.at, w)
<1>0. z \in [heap : Seq(X), at : 1 .. n] /\ Sinking(z.heap, z.at, X, n, order) /\ z.at \in 1 .. n
      /\ Lists(z.heap, X) /\ Len(z.heap) = n /\ z.heap \in Seq(X)
  BY DEF Sinkings, Sinking
<1>1. DownStep(z, order) = [heap |-> g, at |-> w]
  BY DEF DownStep, Moved
<1>2. g = Swapped(z.heap, z.at, w) /\ w = Worst(z.heap, z.at, order) /\ (RestsBelow(z, order) <=> w = z.at)
  BY DEF RestsBelow
<1> HIDE DEF w, g
<1>3. CASE w = z.at
  <2>1. g = z.heap
    <3> DEFINE h == z.heap
               i == z.at
    <3>1. i \in 1 .. Len(h) /\ g = Swapped(h, i, i) /\ Lists(h, X)
      BY <1>0, <1>2, <1>3
    <3> HIDE DEF h, i
    <3>2. Lists(g, X) /\ Len(g) = Len(h) /\ g[i] = h[i] /\ \A k \in 1 .. Len(h) : k # i => g[k] = h[k]
      BY <3>1, SwappedFacts DEF IsSwap
    <3>3. g \in Seq(X) /\ h \in Seq(X)
      BY <3>1, <3>2, ListedFacts
    <3>4. g = [k \in 1 .. Len(g) |-> g[k]] /\ h = [k \in 1 .. Len(h) |-> h[k]]
      BY <3>3, SequenceForm
    <3>5. g = h
      BY <3>2, <3>4
    <3> QED BY <3>5 DEF h
  <2>2. DownStep(z, order) = z
    BY <1>0, <1>1, <1>3, <2>1
  <2> QED BY <1>2, <1>3, <2>2
<1>4. CASE w # z.at
  <2>1. Sinking(g, w, X, n, order)
    BY <1>0, <1>2, <1>4, OneDown
  <2>2. g \in Seq(X) /\ w \in 1 .. n
    BY <2>1, ListedFacts DEF Sinking
  <2>3. w > z.at
    <3>1. z.at \in 1 .. Len(z.heap)
      BY <1>0
    <3> QED BY <1>0, <1>2, <1>4, <3>1, WorstFacts
  <2>4. DownStep(z, order) \in Sinkings(X, n, order)
    BY <1>1, <2>1, <2>2 DEF Sinkings
  <2> QED BY <1>1, <1>2, <1>4, <2>3, <2>4
<1> QED BY <1>3, <1>4

\* F is what DownStep makes of a heap.
Sinks(F, h, start, X, order) ==
  /\ F \in [0 .. Len(h) -> Sinkings(X, Len(h), order)]
  /\ F[0] = [heap |-> h, at |-> start]
  /\ \A n \in 1 .. Len(h) : F[n] = DownStep(F[n - 1], order)
  /\ SiftDown(h, start, order) = F[Len(h)].heap

\* The recursive function in SiftDown is what it says.
LEMMA SinkExists ==
  ASSUME NEW X, NEW order, Orders(order, X), NEW h, NEW start, Sinking(h, start, X, Len(h), order)
  PROVE  \E F : Sinks(F, h, start, X, order)
<1> DEFINE N == Len(h)
           D == Sinkings(X, N, order)
           first == [heap |-> h, at |-> start]
           step == [n \in 1 .. N |-> [z \in D |-> DownStep(z, order)]]
           Is(F) == F = [n \in 0 .. N |->
             IF n = 0 THEN first
             ELSE LET s == F[n - 1] IN Moved(s, Worst(s.heap, s.at, order))]
           C == CHOOSE F : Is(F)
<1>1. N \in Nat /\ h \in Seq(X) /\ start \in 1 .. N
  BY ListedFacts DEF Sinking
<1>2. first \in D
  BY <1>1 DEF Sinkings
<1>3. step \in [1 .. N -> [D -> D]]
  <2> HIDE DEF N
  <2>1. \A z \in D : DownStep(z, order) \in D
    BY <1>1, DownStepFacts
  <2> HIDE DEF D
  <2> QED BY <2>1
<1>4. PICK F : Iterates(F, D, N, first, step)
  <2> HIDE DEF step, N, D, first
  <2> QED BY <1>1, <1>2, <1>3, IterationExists
<1>5. /\ F \in [0 .. N -> D] /\ F[0] = first
      /\ \A n \in 1 .. N : F[n] = DownStep(F[n - 1], order)
  <2>1. F \in [0 .. N -> D] /\ F[0] = first /\ \A n \in 1 .. N : F[n] = step[n][F[n - 1]]
    <3> HIDE DEF step, N, D, first
    <3> QED BY <1>4 DEF Iterates
  <2> HIDE DEF N, D, first
  <2>2. ASSUME NEW n \in 1 .. N PROVE F[n] = DownStep(F[n - 1], order)
    <3>1. n - 1 \in 0 .. N
      BY <1>1
    <3>2. F[n - 1] \in D
      BY <2>1, <3>1
    <3>3. step[n][F[n - 1]] = DownStep(F[n - 1], order)
      BY <3>2
    <3> QED BY <2>1, <3>3
  <2> QED BY <2>1, <2>2
<1>6. Is(F)
  <2> DEFINE e(n) == IF n = 0 THEN first ELSE DownStep(F[n - 1], order)
  <2>1. F = [n \in 0 .. N |-> e(n)]
    <3> HIDE DEF N, D, first
    <3>1. \A n \in 0 .. N : F[n] = e(n)
      BY <1>1, <1>5
    <3> HIDE DEF e
    <3> QED BY <1>5, <3>1
  <2> QED BY <2>1, Zenon DEF DownStep
<1>7. Is(C)
  BY <1>6
<1>8. SiftDown(h, start, order) = C[N].heap
  BY DEF SiftDown
<1> DEFINE f(n) == IF n = 0 THEN first ELSE DownStep(C[n - 1], order)
<1>9. C = [n \in 0 .. N |-> f(n)]
  <2> HIDE DEF C
  <2> QED BY <1>7, Zenon DEF DownStep
<1> HIDE DEF C, N, D, first
<1>10. C = [n \in 0 .. N |-> C[n]] /\ C[0] = first
       /\ \A n \in 1 .. N : C[n] = DownStep(C[n - 1], order)
  <2>1. f(0) = first /\ \A n \in 1 .. N : f(n) = DownStep(C[n - 1], order)
    BY <1>1
  <2>2. 0 \in 0 .. N /\ \A n \in 1 .. N : n \in 0 .. N
    BY <1>1
  <2> HIDE DEF f
  <2> QED BY <1>9, <2>1, <2>2
<1>11. C \in [0 .. N -> D]
  <2>1. \A n \in 1 .. N : C[n - 1] \in D => C[n] \in D
    BY <1>1, <1>10, DownStepFacts DEF D
  <2>2. C[0] \in D
    BY <1>2, <1>10
  <2> QED BY <1>1, <1>10, <2>1, <2>2, RecursionTyped
<1> QED BY <1>8, <1>10, <1>11 DEF Sinks, N, D, first

\* Sifting down makes a heap again.
LEMMA SunkFacts ==
  ASSUME NEW X, NEW order, Orders(order, X), NEW h, NEW start, Sinking(h, start, X, Len(h), order),
         NEW g, g = SiftDown(h, start, order)
  PROVE  Lists(g, X) /\ Len(g) = Len(h) /\ IsHeap(g, order)
<1> DEFINE N == Len(h)
<1>1. N \in Nat /\ start \in 1 .. N
  BY ListedFacts DEF Sinking
<1>2. PICK F : Sinks(F, h, start, X, order)
  BY SinkExists
<1>3. /\ F \in [0 .. N -> Sinkings(X, N, order)]
      /\ \A n \in 1 .. N : F[n] = DownStep(F[n - 1], order)
      /\ F[0].at = start /\ g = F[N].heap
  BY <1>2 DEF Sinks
<1> HIDE DEF N
<1> DEFINE Good == {n \in Nat : n <= N => RestsBelow(F[n], order) \/ F[n].at >= n + 1}
<1>4. 0 \in Good
  BY <1>1, <1>3
<1>5. ASSUME NEW n \in Nat, n \in Good PROVE n + 1 \in Good
  <2> SUFFICES ASSUME n + 1 <= N PROVE RestsBelow(F[n + 1], order) \/ F[n + 1].at >= (n + 1) + 1
    OBVIOUS
  <2> DEFINE z == F[n]
             y == F[n + 1]
  <2>1. n \in 0 .. N /\ n + 1 \in 1 .. N /\ n + 1 \in 0 .. N /\ (n + 1) - 1 = n
    BY <1>1
  <2>2. z \in Sinkings(X, N, order) /\ y \in Sinkings(X, N, order)
    BY <1>3, <2>1
  <2>3. y = DownStep(z, order)
    BY <1>3, <2>1
  <2>4. RestsBelow(z, order) \/ z.at >= n + 1
    BY <1>1, <1>5
  <2> HIDE DEF z, y
  <2>5. z.at \in 1 .. N /\ y.at \in 1 .. N
    BY <2>2 DEF Sinkings
  <2>6. CASE RestsBelow(z, order)
    BY <1>1, <2>2, <2>3, <2>6, DownStepFacts DEF y
  <2>7. CASE ~RestsBelow(z, order)
    <3>1. y.at > z.at
      BY <1>1, <2>2, <2>3, <2>7, DownStepFacts
    <3>2. y.at >= (n + 1) + 1
      BY <1>1, <2>4, <2>5, <2>7, <3>1
    <3> QED BY <3>2 DEF y
  <2> QED BY <2>6, <2>7
<1>6. N \in Good
  <2> HIDE DEF Good
  <2> QED BY <1>1, <1>4, <1>5, FromNumberToNumber
<1> DEFINE z == F[N]
<1>7. z \in Sinkings(X, N, order)
  <2>1. N \in 0 .. N
    BY <1>1
  <2> QED BY <1>3, <2>1
<1>8. RestsBelow(z, order) \/ z.at >= N + 1
  BY <1>1, <1>6
<1>9. g = z.heap
  BY <1>3
<1> HIDE DEF z, Good
<1>10. z.at \in 1 .. N /\ Sinking(z.heap, z.at, X, N, order) /\ Lists(z.heap, X) /\ Len(z.heap) = N
  BY <1>7 DEF Sinkings, Sinking
<1>11. RestsBelow(z, order)
  BY <1>1, <1>8, <1>10
<1>12. ASSUME NEW i \in 2 .. N PROVE ~Worse(g[i], g[i \div 2], order)
  <2>1. CASE i \div 2 # z.at
    BY <1>9, <1>10, <2>1 DEF Sinking
  <2>2. CASE i \div 2 = z.at
    <3>1. z.at \in Nat /\ i \in Nat /\ i >= 2 /\ i \in 1 .. N
      BY <1>1, <1>10
    <3>2. Below(i, z.at)
      BY <2>2, <3>1, BelowFacts
    <3>3. z.at = Worst(g, z.at, order) /\ z.at \in 1 .. Len(g) /\ i \in 1 .. Len(g) /\ Lists(g, X)
      BY <1>9, <1>10, <1>11, <3>1 DEF RestsBelow
    <3>4. i # z.at
      BY <3>1, <3>2 DEF Below
    <3>5. ~Worse(g[i], g[z.at], order)
      BY <3>2, <3>3, <3>4, WorstFacts
    <3> QED BY <2>2, <3>5
  <2> QED BY <2>1, <2>2
<1> QED BY <1>9, <1>10, <1>12 DEF IsHeap, N

-----------------------------------------------------------------------------
(* The best rows so far *)

\* A list of different things is as long as they are many.
LEMMA ListedCardinality ==
  ASSUME NEW X, NEW h, Lists(h, X)
  PROVE  IsFiniteSet(X) /\ Cardinality(X) = Len(h)
<1>1. /\ Len(h) \in Nat /\ h \in Seq(X) /\ DOMAIN h = 1 .. Len(h)
      /\ \A i, j \in 1 .. Len(h) : h[i] = h[j] => i = j
      /\ \A x \in X : \E i \in 1 .. Len(h) : x = h[i]
  BY ListedFacts
<1>2. h \in [1 .. Len(h) -> X]
  BY <1>1
<1>3. h \in Bijection(1 .. Len(h), X)
  BY <1>1, <1>2 DEF Bijection, Injection, Surjection, IsInjective
<1>4. IsFiniteSet(1 .. Len(h)) /\ Cardinality(1 .. Len(h)) = Len(h)
  <2>1. PICK n \in Nat : n = Len(h)
    BY <1>1
  <2>2. IsFiniteSet(1 .. n) /\ Cardinality(1 .. n) = IF 1 > n THEN 0 ELSE n - 1 + 1
    BY FS_Interval
  <2>3. Cardinality(1 .. n) = n
    BY <2>2
  <2> QED BY <2>1, <2>2, <2>3
<1>5. ExistsBijection(1 .. Len(h), X)
  BY <1>3 DEF ExistsBijection
<1> QED BY <1>1, <1>4, <1>5, FS_Bijection

\* h is a heap of the best of X.
Topmost(h, X, limit, order) ==
  /\ Lists(h, ToSet(h)) /\ ToSet(h) \subseteq X /\ IsHeap(h, order)
  /\ Len(h) <= limit
  /\ Len(h) < limit => ToSet(h) = X
  /\ \A a \in ToSet(h), b \in X \ ToSet(h) : Worse(b, a, order)

\* In r, item has the place of the root of h.
Replaces(r, h, item) == r = [h EXCEPT ![1] = item]

\* A heap with its root replaced is one on the way down from there.
LEMMA ReplacedFacts ==
  ASSUME NEW T, NEW h, Lists(h, T), Len(h) > 0, NEW item, item \notin T, NEW order, IsHeap(h, order),
         NEW Y, Y = (T \ {h[1]}) \union {item}, NEW r, Replaces(r, h, item)
  PROVE  Sinking(r, 1, Y, Len(h), order)
<1> DEFINE n == Len(h)
<1>1. /\ n \in Nat /\ DOMAIN h = 1 .. n
      /\ \A k \in 1 .. n : h[k] \in T
      /\ \A k, l \in 1 .. n : h[k] = h[l] => k = l
      /\ \A x \in T : \E k \in 1 .. n : x = h[k]
  BY ListedFacts
<1>2. \A i \in 2 .. n : ~Worse(h[i], h[i \div 2], order)
  BY DEF IsHeap
<1>3. n >= 1
  BY <1>1
<1>4. r = [k \in 1 .. n |-> IF k = 1 THEN item ELSE h[k]]
  BY <1>1 DEF Replaces
<1> HIDE DEF n
<1>5. 1 \in 1 .. n
  BY <1>1, <1>3
<1>6. r = [k \in 1 .. n |-> r[k]] /\ r[1] = item /\ \A k \in 1 .. n : k # 1 => r[k] = h[k]
  BY <1>4, <1>5
<1>7. IsSequence(r) /\ Len(r) = n /\ DOMAIN r = 1 .. n
  BY <1>1, <1>6, ListFacts
<1>8. ASSUME NEW k \in 1 .. n, NEW l \in 1 .. n, r[k] = r[l] PROVE k = l
  <2>1. \A i \in 1 .. n : i # 1 => r[i] = h[i] /\ r[i] # r[1]
    BY <1>1, <1>6
  <2>2. CASE k = 1 \/ l = 1
    BY <1>8, <2>1, <2>2
  <2>3. CASE k # 1 /\ l # 1
    BY <1>1, <1>8, <2>1, <2>3
  <2> QED BY <2>2, <2>3
<1>9. ToSet(r) = Y
  <2>1. \A x : x \in ToSet(r) <=> \E k \in 1 .. n : x = r[k]
    BY <1>7 DEF ToSet
  <2>2. ASSUME NEW x PROVE x \in ToSet(r) <=> x \in Y
    <3>0. x \in Y <=> (x \in T /\ x # h[1]) \/ x = item
      OBVIOUS
    <3>1. ASSUME NEW k \in 1 .. n, x = r[k] PROVE x \in Y
      <4>1. CASE k = 1
        BY <1>6, <3>0, <3>1, <4>1
      <4>2. CASE k # 1
        <5>1. x = h[k] /\ h[k] # h[1] /\ h[k] \in T
          BY <1>1, <1>5, <1>6, <3>1, <4>2
        <5> QED BY <3>0, <5>1
      <4> QED BY <4>1, <4>2
    <3>2. ASSUME x \in T, x # h[1] PROVE \E k \in 1 .. n : x = r[k]
      <4>1. PICK k \in 1 .. n : x = h[k]
        BY <1>1, <3>2
      <4>2. k # 1
        BY <3>2, <4>1
      <4>3. x = r[k]
        BY <1>6, <4>1, <4>2
      <4> QED BY <4>3
    <3>3. x = item => \E k \in 1 .. n : x = r[k]
      BY <1>5, <1>6
    <3> QED BY <2>1, <3>0, <3>1, <3>2, <3>3
  <2> QED BY <2>2
<1>10. Lists(r, Y)
  BY <1>7, <1>8, <1>9 DEF Lists
<1>11. ASSUME NEW i \in 2 .. n, i \div 2 # 1 PROVE ~Worse(r[i], r[i \div 2], order)
  <2> DEFINE p == i \div 2
  <2>1. i \in 1 .. n /\ i # 1 /\ p \in 1 .. n /\ p # 1
    BY <1>1, <1>11, Halves
  <2>2. ~Worse(h[i], h[p], order)
    BY <1>2
  <2> HIDE DEF p
  <2>3. r[i] = h[i] /\ r[p] = h[p]
    BY <1>6, <2>1
  <2> QED BY <2>2, <2>3 DEF p
<1>12. Len(r) = n /\ 1 \in 1 .. n /\ ~(1 > 1)
  BY <1>5, <1>7
<1> QED BY <1>10, <1>11, <1>12 DEF Sinking, n

\* Keeping the best of one row more: it takes the place of the worst, if it is better.
LEMMA KeepFacts ==
  ASSUME NEW X, NEW item, item \notin X, NEW order, Orders(order, X \union {item}),
         NEW limit \in Nat, limit >= 1, NEW h, Topmost(h, X, limit, order),
         NEW g, g = Keep(h, item, limit, order)
  PROVE  Topmost(g, X \union {item}, limit, order)
<1> DEFINE T == ToSet(h)
           n == Len(h)
           Z == X \union {item}
<1>1. /\ Lists(h, T) /\ \A a : a \in T => a \in X
      /\ IsHeap(h, order) /\ n <= limit /\ (n < limit => T = X)
      /\ \A a \in T, b \in X \ T : Worse(b, a, order)
  BY DEF Topmost
<1>2. n \in Nat
  BY <1>1, ListedFacts
<1>3. \A b : b \in Z <=> b \in X \/ b = item
  OBVIOUS
<1>4. item \notin T /\ item \in Z
  BY <1>1
<1>5. Orders(order, Z)
  OBVIOUS
<1>6. CASE n < limit
  <2>1. g = PushHeap(h, item, order)
    BY <1>6 DEF Keep
  <2>2. T = X
    BY <1>1, <1>6
  <2> HIDE DEF T, n
  <2>3. Lists(g, X \union {item}) /\ Len(g) = n + 1 /\ IsHeap(g, order)
    BY <1>1, <1>4, <2>1, <2>2, PushedFacts DEF n
  <2>4. ToSet(g) = Z
    BY <2>3 DEF Lists
  <2>5. n + 1 <= limit
    BY <1>2, <1>6
  <2> QED BY <2>3, <2>4, <2>5 DEF Topmost
<1>7. CASE ~(n < limit)
  <2>1. n = limit /\ n > 0
    BY <1>1, <1>2, <1>7
  <2>2. /\ \A k \in 1 .. n : h[k] \in T
        /\ \A k, l \in 1 .. n : h[k] = h[l] => k = l
        /\ \A x \in T : \E k \in 1 .. n : x = h[k]
    BY <1>1, ListedFacts
  <2>3. h[1] \in T /\ h[1] \in Z /\ h[1] # item
    BY <1>1, <1>2, <1>3, <1>4, <2>1, <2>2
  <2>4. Orders(order, T)
    BY <1>1, <1>3, <1>5 DEF Orders
  <2>5. ASSUME NEW a \in T, a # h[1] PROVE Worse(h[1], a, order)
    <3>1. PICK k \in 1 .. n : a = h[k]
      BY <2>2
    <3>2. k \in 2 .. n
      BY <1>2, <2>5, <3>1
    <3>3. \A i \in 2 .. n : Worse(h[1], h[i], order)
      BY <1>1, <2>4, RootIsWorst
    <3> QED BY <3>1, <3>2, <3>3
  <2>6. CASE Worse(h[1], item, order)
    <3> DEFINE r == [h EXCEPT ![1] = item]
               Y == (T \ {h[1]}) \union {item}
    <3>1. g = SiftDown(r, 1, order)
      BY <1>7, <2>6 DEF Keep
    <3>2. Sinking(r, 1, Y, n, order)
      BY <1>1, <1>4, <2>1, ReplacedFacts DEF Replaces
    <3>3. \A a : a \in Y <=> (a \in T /\ a # h[1]) \/ a = item
      OBVIOUS
    <3> HIDE DEF r, Y, T, n
    <3>4. Sinking(r, 1, Y, Len(r), order) /\ Len(r) = n
      BY <3>2 DEF Sinking
    <3>5. Orders(order, Y)
      BY <1>1, <1>3, <1>5, <3>3 DEF Orders
    <3>6. Lists(g, Y) /\ Len(g) = n /\ IsHeap(g, order)
      BY <3>1, <3>4, <3>5, SunkFacts
    <3>7. ToSet(g) = Y
      BY <3>6 DEF Lists
    <3>8. Y \subseteq Z
      BY <1>1, <1>3, <3>3
    <3>9. ASSUME NEW a \in Y, NEW b \in Z \ Y PROVE Worse(b, a, order)
      <4>1. b = h[1] \/ b \in X \ T
        BY <1>3, <3>3, <3>9
      <4>2. a \in Z /\ b \in Z /\ a # b /\ a # h[1]
        BY <2>3, <3>3, <3>8, <3>9
      <4>3. Worse(h[1], a, order)
        BY <2>5, <2>6, <3>3, <3>9
      <4>4. b \in X \ T => b # h[1] /\ Worse(b, h[1], order)
        BY <1>1, <2>3
      <4> QED BY <1>5, <2>3, <4>1, <4>2, <4>3, <4>4 DEF Orders
    <3> QED BY <2>1, <3>6, <3>7, <3>8, <3>9 DEF Topmost
  <2>7. CASE ~Worse(h[1], item, order)
    <3>1. g = h
      BY <1>7, <2>7 DEF Keep
    <3>2. Worse(item, h[1], order)
      BY <1>4, <1>5, <2>3, <2>7 DEF Orders
    <3>3. ASSUME NEW a \in T, NEW b \in Z \ T PROVE Worse(b, a, order)
      <4>1. CASE b = item
        <5>1. CASE a = h[1]
          BY <3>2, <4>1, <5>1
        <5>2. CASE a # h[1]
          <6>1. Worse(h[1], a, order) /\ a \in Z
            BY <1>1, <1>3, <2>5, <5>2
          <6> QED BY <1>4, <1>5, <2>3, <3>2, <4>1, <5>2, <6>1 DEF Orders
        <5> QED BY <5>1, <5>2
      <4>2. CASE b # item
        BY <1>1, <1>3, <3>3, <4>2
      <4> QED BY <4>1, <4>2
    <3>4. T \subseteq Z
      BY <1>1, <1>3
    <3> HIDE DEF Z, n, T
    <3>5. /\ Lists(h, T) /\ T \subseteq Z /\ IsHeap(h, order) /\ n <= limit /\ ~(n < limit)
          /\ \A a \in T, b \in Z \ T : Worse(b, a, order)
      BY <1>1, <1>7, <3>3, <3>4
    <3>6. Topmost(h, Z, limit, order)
      BY <3>5 DEF Topmost, T, n
    <3> QED BY <3>1, <3>6 DEF Z
  <2> QED BY <2>6, <2>7
<1> QED BY <1>6, <1>7

\* The first n elements of a list.
Seen(list, n) == {list[i] : i \in 1 .. n}

\* Reading a list sees one element more with each step.
LEMMA SeenFacts ==
  ASSUME NEW X, NEW list, Lists(list, X)
  PROVE  /\ Seen(list, 0) = {} /\ Seen(list, Len(list)) = X
         /\ \A n \in 1 .. Len(list) : /\ list[n] \in X /\ list[n] \notin Seen(list, n - 1)
                                      /\ Seen(list, n) = Seen(list, n - 1) \union {list[n]}
                                      /\ Seen(list, n) \subseteq X
<1> DEFINE N == Len(list)
<1>1. /\ N \in Nat
      /\ \A k \in 1 .. N : list[k] \in X
      /\ \A k, l \in 1 .. N : list[k] = list[l] => k = l
      /\ \A x \in X : \E k \in 1 .. N : x = list[k]
  BY ListedFacts
<1>2. \A n, x : x \in Seen(list, n) <=> \E i \in 1 .. n : x = list[i]
  BY DEF Seen
<1> HIDE DEF N
<1>3. Seen(list, 0) = {}
  BY <1>2
<1>4. Seen(list, N) = X
  BY <1>1, <1>2
<1>5. ASSUME NEW n \in 1 .. N
      PROVE  /\ list[n] \in X /\ list[n] \notin Seen(list, n - 1)
             /\ Seen(list, n) = Seen(list, n - 1) \union {list[n]}
             /\ Seen(list, n) \subseteq X
  <2>1. n \in Nat /\ \A i \in 1 .. n - 1 : i \in 1 .. n /\ i \in 1 .. N /\ i # n
    BY <1>1
  <2>2. \A i \in 1 .. n : i \in 1 .. N /\ (i = n \/ i \in 1 .. n - 1)
    BY <1>1
  <2>3. list[n] \in X /\ list[n] \notin Seen(list, n - 1)
    BY <1>1, <1>2, <2>1
  <2>4. ASSUME NEW x PROVE x \in Seen(list, n) <=> x \in Seen(list, n - 1) \/ x = list[n]
    <3>1. n \in 1 .. n
      BY <2>1
    <3> QED BY <1>2, <2>1, <2>2, <3>1
  <2>5. Seen(list, n) \subseteq X
    BY <1>1, <1>2, <2>2
  <2> QED BY <2>3, <2>4, <2>5
<1> QED BY <1>3, <1>4, <1>5 DEF N

\* F is what the rows kept are, after each row.
Keeps(F, list, X, limit, order) ==
  /\ F = [n \in 0 .. Len(list) |-> F[n]]
  /\ F[0] = <<>>
  /\ \A n \in 1 .. Len(list) : F[n] = Keep(F[n - 1], list[n], limit, order)

\* At first nothing is kept of nothing.
LEMMA NothingKept == ASSUME NEW limit \in Nat, NEW order PROVE Topmost(<<>>, {}, limit, order)
<1>1. ToSet(<<>>) = {} /\ <<>> \in Seq({}) /\ Len(<<>>) = 0 /\ DOMAIN <<>> = {}
  <2>1. DOMAIN <<>> = {} /\ <<>> \in Seq({}) /\ Len(<<>>) = 0
    OBVIOUS
  <2> QED BY <2>1 DEF ToSet
<1>2. Lists(<<>>, {})
  BY <1>1 DEF Lists, IsSequence
<1>3. IsHeap(<<>>, order)
  BY <1>1 DEF IsHeap
<1>4. 0 <= limit
  OBVIOUS
<1> QED BY <1>1, <1>2, <1>3, <1>4 DEF Topmost

\* After each row the heap has the best rows so far.
LEMMA KeptAreTopmost ==
  ASSUME NEW X, NEW list, Lists(list, X), NEW order, Orders(order, X), NEW limit \in Nat, limit >= 1,
         NEW F, Keeps(F, list, X, limit, order)
  PROVE  \A n \in 0 .. Len(list) : Topmost(F[n], Seen(list, n), limit, order)
<1> DEFINE N == Len(list)
           Good == {n \in Nat : n <= N => Topmost(F[n], Seen(list, n), limit, order)}
<1>1. N \in Nat
  BY ListedFacts
<1>2. F[0] = <<>> /\ \A n \in 1 .. N : F[n] = Keep(F[n - 1], list[n], limit, order)
  BY DEF Keeps
<1>3. /\ Seen(list, 0) = {}
      /\ \A n \in 1 .. N : /\ list[n] \in X /\ list[n] \notin Seen(list, n - 1)
                           /\ Seen(list, n) = Seen(list, n - 1) \union {list[n]}
                           /\ Seen(list, n) \subseteq X
  BY SeenFacts
<1> HIDE DEF N
<1>4. 0 \in Good
  BY <1>2, <1>3, NothingKept
<1>5. ASSUME NEW n \in Nat, n \in Good PROVE n + 1 \in Good
  <2> SUFFICES ASSUME n + 1 <= N PROVE Topmost(F[n + 1], Seen(list, n + 1), limit, order)
    OBVIOUS
  <2>1. n + 1 \in 1 .. N /\ (n + 1) - 1 = n /\ n <= N
    BY <1>1
  <2>2. Topmost(F[n], Seen(list, n), limit, order)
    BY <1>5, <2>1
  <2> DEFINE S == Seen(list, n)
             item == list[n + 1]
             T == Seen(list, n + 1)
  <2>3. item \notin S /\ T = S \union {item} /\ T \subseteq X /\ F[n + 1] = Keep(F[n], item, limit, order)
    BY <1>2, <1>3, <2>1
  <2> HIDE DEF S, item, T
  <2>4. Orders(order, S \union {item})
    BY <2>3 DEF Orders
  <2>5. Topmost(F[n], S, limit, order)
    BY <2>2 DEF S
  <2>6. Topmost(F[n + 1], S \union {item}, limit, order)
    BY <2>3, <2>4, <2>5, KeepFacts
  <2> QED BY <2>3, <2>6 DEF T
<1>6. ASSUME NEW n \in 0 .. N PROVE Topmost(F[n], Seen(list, n), limit, order)
  <2>1. n \in Good
    <3> HIDE DEF Good
    <3> QED BY <1>1, <1>4, <1>5, FromNumberToNumber
  <2> QED BY <1>1, <2>1
<1> QED BY <1>6 DEF N

\* The recursive function in TopK is what it says.
LEMMA KeepsExists ==
  ASSUME NEW X, NEW list, Lists(list, X), NEW order, Orders(order, X), NEW limit \in Nat, limit >= 1
  PROVE  \E F : Keeps(F, list, X, limit, order)
<1> DEFINE N == Len(list)
           D == Seq(X)
           Is(n, h) == Topmost(h, Seen(list, n - 1), limit, order)
           step == [n \in 1 .. N |-> [h \in D |-> IF Is(n, h) THEN Keep(h, list[n], limit, order) ELSE h]]
<1>1. N \in Nat
  BY ListedFacts
<1>2. /\ Seen(list, 0) = {}
      /\ \A n \in 1 .. N : /\ list[n] \in X /\ list[n] \notin Seen(list, n - 1)
                           /\ Seen(list, n) = Seen(list, n - 1) \union {list[n]}
                           /\ Seen(list, n) \subseteq X
  BY SeenFacts
<1> HIDE DEF N
<1>3. ASSUME NEW n \in 1 .. N, NEW h \in D, Is(n, h)
      PROVE  /\ Topmost(Keep(h, list[n], limit, order), Seen(list, n), limit, order)
             /\ Keep(h, list[n], limit, order) \in D
  <2> DEFINE S == Seen(list, n - 1)
             item == list[n]
             T == Seen(list, n)
             g == Keep(h, item, limit, order)
  <2>1. item \notin S /\ T = S \union {item} /\ T \subseteq X /\ Topmost(h, S, limit, order)
    BY <1>2, <1>3
  <2>2. g = Keep(h, item, limit, order)
    OBVIOUS
  <2> HIDE DEF S, item, T, g
  <2>3. Orders(order, S \union {item})
    BY <2>1 DEF Orders
  <2>4. Topmost(g, S \union {item}, limit, order)
    BY <2>1, <2>2, <2>3, KeepFacts
  <2>5. Topmost(g, T, limit, order)
    BY <2>1, <2>4
  <2>6. g \in Seq(ToSet(g)) /\ ToSet(g) \subseteq X
    BY <2>1, <2>5, ListedFacts DEF Topmost
  <2>7. g \in D
    BY <2>6
  <2> QED BY <2>5, <2>7 DEF g, T, item
<1>4. step \in [1 .. N -> [D -> D]]
  <2> DEFINE next(n, h) == Keep(h, list[n], limit, order)
  <2>1. \A n \in 1 .. N, h \in D : Is(n, h) => next(n, h) \in D
    BY <1>3
  <2>2. step = [n \in 1 .. N |-> [h \in D |-> IF Is(n, h) THEN next(n, h) ELSE h]]
    OBVIOUS
  <2> HIDE DEF Is, D, next, step
  <2> QED BY <2>1, <2>2
<1>5. <<>> \in D
  OBVIOUS
<1>6. PICK F : Iterates(F, D, N, <<>>, step)
  <2> HIDE DEF step, D
  <2> QED BY <1>1, <1>4, <1>5, IterationExists
<1>7. /\ F \in [0 .. N -> D] /\ F[0] = <<>>
      /\ \A n \in 1 .. N : F[n - 1] \in D /\ F[n] = IF Is(n, F[n - 1]) THEN Keep(F[n - 1], list[n], limit, order) ELSE F[n - 1]
  <2>1. F \in [0 .. N -> D] /\ F[0] = <<>> /\ \A n \in 1 .. N : F[n] = step[n][F[n - 1]]
    <3> HIDE DEF step, D
    <3> QED BY <1>6 DEF Iterates
  <2>2. ASSUME NEW n \in 1 .. N
        PROVE  /\ F[n - 1] \in D
               /\ F[n] = IF Is(n, F[n - 1]) THEN Keep(F[n - 1], list[n], limit, order) ELSE F[n - 1]
    <3>1. n - 1 \in 0 .. N
      BY <1>1
    <3>2. F[n - 1] \in D
      BY <2>1, <3>1
    <3>3. F[n] = step[n][F[n - 1]]
      BY <2>1
    <3> HIDE DEF D, Is
    <3> QED BY <3>2, <3>3
  <2> QED BY <2>1, <2>2
<1> HIDE DEF D, step
<1> DEFINE Good == {n \in Nat : n <= N => Is(n + 1, F[n])}
<1>8. 0 \in Good
  <2>1. Topmost(<<>>, {}, limit, order)
    BY NothingKept
  <2>2. Is(0 + 1, F[0])
    BY <1>2, <1>7, <2>1
  <2> QED BY <2>2
<1>9. ASSUME NEW n \in Nat, n \in Good PROVE n + 1 \in Good
  <2> SUFFICES ASSUME n + 1 <= N PROVE Is((n + 1) + 1, F[n + 1])
    OBVIOUS
  <2>1. n + 1 \in 1 .. N /\ (n + 1) - 1 = n /\ n <= N /\ ((n + 1) + 1) - 1 = n + 1
    BY <1>1
  <2>2. Is(n + 1, F[n])
    BY <1>9, <2>1
  <2>3. F[n] \in D /\ F[n + 1] = Keep(F[n], list[n + 1], limit, order)
    <3> HIDE DEF Is
    <3>1. F[(n + 1) - 1] \in D
          /\ F[n + 1] = IF Is(n + 1, F[(n + 1) - 1]) THEN Keep(F[(n + 1) - 1], list[n + 1], limit, order)
                        ELSE F[(n + 1) - 1]
      BY <1>7, <2>1
    <3> QED BY <2>1, <2>2, <3>1
  <2>4. Topmost(F[n + 1], Seen(list, n + 1), limit, order)
    <3> HIDE DEF Is
    <3> QED BY <1>3, <2>1, <2>2, <2>3
  <2> QED BY <2>1, <2>4
<1>10. ASSUME NEW n \in 1 .. N PROVE F[n] = Keep(F[n - 1], list[n], limit, order)
  <2>1. \A m \in Nat : m \in Good
    <3> HIDE DEF Good
    <3> QED BY <1>8, <1>9, FromNumberToNumber
  <2>2. n - 1 \in Nat /\ n - 1 <= N /\ (n - 1) + 1 = n
    BY <1>1
  <2>3. Is(n, F[n - 1])
    BY <2>1, <2>2
  <2> HIDE DEF Is
  <2> QED BY <1>7, <2>3
<1>11. F = [n \in 0 .. N |-> F[n]]
  BY <1>7
<1> QED BY <1>7, <1>10, <1>11 DEF Keeps, N

\* The bounded heap has the best of all rows, as many as were asked for.
LEMMA TopKFacts ==
  ASSUME NEW X, NEW list, Lists(list, X), NEW order, Orders(order, X), NEW limit \in Nat, limit >= 1
  PROVE  Topmost(TopK(list, limit, order), X, limit, order)
<1> DEFINE N == Len(list)
           Is(F) == F = [n \in 0 .. N |-> IF n = 0 THEN <<>> ELSE Keep(F[n - 1], list[n], limit, order)]
           C == CHOOSE F : Is(F)
<1>1. N \in Nat /\ Seen(list, N) = X
  BY ListedFacts, SeenFacts
<1>2. PICK F : Keeps(F, list, X, limit, order)
  BY KeepsExists
<1>3. Is(F)
  <2> DEFINE e(n) == IF n = 0 THEN <<>> ELSE Keep(F[n - 1], list[n], limit, order)
  <2>1. F = [n \in 0 .. N |-> F[n]] /\ F[0] = <<>>
        /\ \A n \in 1 .. N : F[n] = Keep(F[n - 1], list[n], limit, order)
    BY <1>2 DEF Keeps
  <2>2. F = [n \in 0 .. N |-> e(n)]
    <3> HIDE DEF N
    <3>1. ASSUME NEW n \in 0 .. N PROVE F[n] = e(n)
      <4>1. n = 0 \/ n \in 1 .. N
        BY <1>1
      <4>2. n \in 1 .. N => n # 0
        OBVIOUS
      <4> QED BY <2>1, <4>1, <4>2
    <3> HIDE DEF e
    <3> QED BY <2>1, <3>1
  <2> QED BY <2>2, Zenon
<1>4. Is(C)
  BY <1>3
<1>5. TopK(list, limit, order) = C[N]
  BY DEF TopK
<1> DEFINE f(n) == IF n = 0 THEN <<>> ELSE Keep(C[n - 1], list[n], limit, order)
<1>6. C = [n \in 0 .. N |-> f(n)]
  <2> HIDE DEF C
  <2> QED BY <1>4, Zenon
<1> HIDE DEF C, N
<1>7. C = [n \in 0 .. N |-> C[n]] /\ C[0] = <<>>
      /\ \A n \in 1 .. N : C[n] = Keep(C[n - 1], list[n], limit, order)
  <2>1. f(0) = <<>> /\ \A n \in 1 .. N : f(n) = Keep(C[n - 1], list[n], limit, order)
    BY <1>1
  <2>2. 0 \in 0 .. N /\ \A n \in 1 .. N : n \in 0 .. N
    BY <1>1
  <2> HIDE DEF f
  <2> QED BY <1>6, <2>1, <2>2
<1>8. Keeps(C, list, X, limit, order)
  BY <1>7 DEF Keeps, N
<1>9. N \in 0 .. N
  BY <1>1
<1>10. Topmost(C[N], Seen(list, N), limit, order)
  BY <1>8, <1>9, KeptAreTopmost DEF N
<1> QED BY <1>1, <1>5, <1>10

-----------------------------------------------------------------------------
(* Sorts *)

\* A row with its place in the input of a sort.
Item(list, i) == [row |-> list[i], inputIndex |-> i]

\* The items a sort orders.
SortItems(list) == {Item(list, i) : i \in DOMAIN list}

\* The order of a sort.
SortOrder(o, t) == [by |-> o.orderBy, shape |-> t]

\* A sort of rows of shape s.
Sorts(o, s) ==
  /\ IsSequence(o.orderBy)
  /\ \A k \in DOMAIN o.orderBy : IsKey(o.orderBy[k], s)
  /\ o.limit = None \/ (o.limit \in Nat /\ o.limit >= 1)

\* The places of the rows that come before row i.
PlacesBefore(list, order, i) ==
  {j \in DOMAIN list \ {i} : Worse(Item(list, i), Item(list, j), order)}

\* How many rows a sort of n rows leaves.
Remaining(o, n) == IF o.limit # None /\ o.limit < n THEN o.limit ELSE n

\* The rows of sorted are the first ones of list in this order.
SortedAs(o, list, order, sorted) ==
  /\ IsSequence(sorted)
  /\ Len(sorted) = Remaining(o, Len(list))
  /\ \A n \in 1 .. Len(sorted) : \E i \in DOMAIN list :
       sorted[n] = list[i] /\ Cardinality(PlacesBefore(list, order, i)) = n - 1

\* As many rows as items come before one.
LEMMA PlacesOfItems ==
  ASSUME NEW list, NEW order, NEW i \in DOMAIN list, IsFiniteSet(SortItems(list))
  PROVE  Cardinality(PlacesBefore(list, order, i))
           = Cardinality({other \in SortItems(list) \ {Item(list, i)} : Worse(Item(list, i), other, order)})
<1> DEFINE P == PlacesBefore(list, order, i)
           Q == {other \in SortItems(list) \ {Item(list, i)} : Worse(Item(list, i), other, order)}
           f == [j \in P |-> Item(list, j)]
           g == [q \in Q |-> q.inputIndex]
<1>1. \A j : Item(list, j).inputIndex = j
  BY DEF Item
<1>2. \A j : j \in P <=> j \in DOMAIN list /\ j # i /\ Worse(Item(list, i), Item(list, j), order)
  BY DEF PlacesBefore
<1>3. \A q : q \in Q <=> /\ \E j \in DOMAIN list : q = Item(list, j)
                         /\ q # Item(list, i) /\ Worse(Item(list, i), q, order)
  BY DEF SortItems
<1>4. IsFiniteSet(Q)
  <2>1. Q \in SUBSET SortItems(list)
    OBVIOUS
  <2> HIDE DEF Q
  <2> QED BY <2>1, FS_Subset
<1> HIDE DEF P, Q
<1>5. \A q \in Q : q.inputIndex \in P /\ q = Item(list, q.inputIndex)
  BY <1>1, <1>2, <1>3
<1>6. \A j \in P : Item(list, j) \in Q
  BY <1>1, <1>2, <1>3
<1>7. g \in [Q -> P] /\ (\A q, r \in Q : g[q] = g[r] => q = r)
  BY <1>5
<1>8. \A j \in P : \E q \in Q : g[q] = j
  BY <1>1, <1>6
<1>9. g \in Bijection(Q, P)
  <2> HIDE DEF g
  <2> QED BY <1>7, <1>8, Fun_IsBij
<1>10. ExistsBijection(Q, P)
  BY <1>9 DEF ExistsBijection
<1>11. Cardinality(P) = Cardinality(Q)
  BY <1>4, <1>10, FS_Bijection
<1> QED BY <1>11 DEF P, Q

\* Rows whose sort does not throw can be compared.
LEMMA ItemsCanBeSorted ==
  ASSUME NEW s, NEW t, NEW list, Shaped(s, t, list), NEW o, Sorts(o, s),
         SortRows(o, list, t) # Throws
  PROVE  CanBeSorted(SortOrder(o, t), s, SortItems(list))
<1> DEFINE order == SortOrder(o, t)
           items == SortItems(list)
           decorated == [i \in DOMAIN list |-> [row |-> list[i], inputIndex |-> i]]
<1>1. IsSequence(list) /\ IsShape(s) /\ SameFields(s, t) /\ \A i \in DOMAIN list : Fits(list[i], s)
  BY DEF Shaped
<1>2. Len(list) \in Nat /\ DOMAIN list = 1 .. Len(list)
  BY <1>1, SequenceFacts
<1>3. order.by = o.orderBy /\ order.shape = t
  BY DEF SortOrder
<1>4. \A a : a \in items <=> \E i \in DOMAIN list : a = Item(list, i)
  BY DEF SortItems
<1>5. \A i : Item(list, i).inputIndex = i /\ Item(list, i).row = list[i]
  BY DEF Item
<1>6. ToSet(decorated) = items
  BY DEF ToSet, SortItems, Item
<1>7. ~\E a, b \in ToSet(decorated) : a # b /\ CompareRows(a, b, [by |-> o.orderBy, shape |-> t]) = Throws
  <2>1. SortRows(o, list, t) = Throws \/ ~\E a, b \in ToSet(decorated) : a # b /\ CompareRows(a, b, [by |-> o.orderBy, shape |-> t]) = Throws
    BY Zenon DEF SortRows
  <2> QED BY <2>1
<1>8. [by |-> o.orderBy, shape |-> t] = order
  BY DEF SortOrder
<1>9. \A a, b \in items : a # b => CompareRows(a, b, order) # Throws
  <2> HIDE DEF items, order, decorated
  <2> QED BY <1>6, <1>7, <1>8
<1> HIDE DEF items, order, decorated
<1>10. \A k \in DOMAIN order.by : /\ IsKey(order.by[k], s)
                                  /\ order.shape[order.by[k].field].type = s[order.by[k].field].type
  BY <1>1, <1>3 DEF Sorts, IsKey, SameFields
<1>11. \A a \in items : Fits(a.row, s) /\ a.inputIndex \in Int
  BY <1>1, <1>2, <1>4, <1>5
<1>12. SortsItems(order, s, items)
  BY <1>1, <1>3, <1>10, <1>11 DEF SortsItems, Sorts
<1>13. \A a, b \in items : a # b => a.inputIndex # b.inputIndex
  BY <1>4, <1>5
<1> QED BY <1>9, <1>12, <1>13 DEF CanBeSorted, items, order

\* A sort leaves the first rows of its order, limited or not: the nth has n - 1
\* rows before it.
LEMMA SortFacts ==
  ASSUME NEW s, NEW t, NEW list, Shaped(s, t, list), NEW o, Sorts(o, s),
         SortRows(o, list, t) # Throws
  PROVE  SortedAs(o, list, SortOrder(o, t), SortRows(o, list, t))
<1> DEFINE order == SortOrder(o, t)
           items == SortItems(list)
           decorated == [i \in DOMAIN list |-> [row |-> list[i], inputIndex |-> i]]
           kept == IF o.limit = None \/ o.limit >= Len(list) THEN decorated
                   ELSE TopK(decorated, o.limit, order)
           K == ToSet(kept)
           sorted == InOrder(K, order)
           N == Len(list)
           result == SortRows(o, list, t)
<1>1. CanBeSorted(order, s, items)
  BY ItemsCanBeSorted
<1>2. Orders(order, items)
  BY <1>1, ItemsAreOrdered
<1>3. N \in Nat /\ DOMAIN list = 1 .. N
  BY SequenceFacts DEF Shaped
<1>4. o.limit = None \/ (o.limit \in Nat /\ o.limit >= 1)
  BY DEF Sorts
<1>5. \A i \in 1 .. N : decorated[i] = Item(list, i)
  BY <1>3 DEF Item
<1>6. \A i : Item(list, i).inputIndex = i /\ Item(list, i).row = list[i]
  BY DEF Item
<1>7. decorated = [i \in 1 .. N |-> decorated[i]]
  BY <1>3
<1>8. \A a : a \in items <=> \E i \in 1 .. N : a = Item(list, i)
  BY <1>3 DEF SortItems
<1>9. result = [n \in DOMAIN sorted |-> sorted[n].row]
  <2>1. order = [by |-> o.orderBy, shape |-> t]
    BY DEF SortOrder
  <2>2. result = Throws \/ result = [n \in DOMAIN sorted |-> sorted[n].row]
    <3>1. result = IF \E a, b \in ToSet(decorated) : a # b /\ CompareRows(a, b, order) = Throws
                   THEN Throws ELSE [n \in DOMAIN sorted |-> sorted[n].row]
      BY Zenon DEF SortRows, SortOrder, Undecorated
    <3> HIDE DEF sorted, decorated, order, result
    <3> QED BY <3>1
  <2> QED BY <2>2
<1> HIDE DEF order, items, decorated, N, result
<1>10. Lists(decorated, items) /\ Len(decorated) = N
  <2>1. IsSequence(decorated) /\ Len(decorated) = N /\ DOMAIN decorated = 1 .. N
    BY <1>3, <1>7, ListFacts
  <2>2. ToSet(decorated) = items
    <3>1. \A a : a \in ToSet(decorated) <=> \E i \in 1 .. N : a = decorated[i]
      BY <2>1 DEF ToSet
    <3>2. \A a : a \in ToSet(decorated) <=> a \in items
      BY <1>5, <1>8, <3>1
    <3> QED BY <3>2
  <2>3. \A i, j \in 1 .. N : decorated[i] = decorated[j] => i = j
    BY <1>5, <1>6
  <2> QED BY <2>1, <2>2, <2>3 DEF Lists
<1>11. IsFiniteSet(items) /\ Cardinality(items) = N
  BY <1>10, ListedCardinality
<1>12. /\ Lists(kept, K) /\ K \subseteq items
       /\ Len(kept) = Remaining(o, N)
       /\ \A a \in K, b \in items \ K : Worse(b, a, order)
  <2>1. CASE o.limit = None \/ o.limit >= N
    <3>1. kept = decorated
      BY <2>1 DEF N
    <3>2. Remaining(o, N) = N
      BY <1>3, <1>4, <2>1 DEF Remaining
    <3>3. K = items
      BY <1>10, <3>1 DEF Lists
    <3> HIDE DEF kept, K
    <3> QED BY <1>10, <3>1, <3>2, <3>3
  <2>2. CASE ~(o.limit = None \/ o.limit >= N)
    <3>1. kept = TopK(decorated, o.limit, order)
      BY <2>2 DEF N
    <3>2. o.limit \in Nat /\ o.limit >= 1 /\ o.limit < N /\ Remaining(o, N) = o.limit
      BY <1>3, <1>4, <2>2 DEF Remaining
    <3>3. K = ToSet(kept)
      OBVIOUS
    <3> HIDE DEF kept, K
    <3>4. Topmost(kept, items, o.limit, order)
      BY <1>2, <1>10, <3>1, <3>2, TopKFacts
    <3>5. /\ Lists(kept, K) /\ K \subseteq items /\ Len(kept) <= o.limit
          /\ Len(kept) < o.limit => K = items
          /\ \A a \in K, b \in items \ K : Worse(b, a, order)
      BY <3>3, <3>4 DEF Topmost
    <3>6. Cardinality(K) = Len(kept) /\ Len(kept) \in Nat
      BY <3>5, ListedCardinality, ListedFacts
    <3>7. Len(kept) = o.limit
      BY <1>3, <1>11, <3>2, <3>5, <3>6
    <3> QED BY <3>2, <3>5, <3>7
  <2> QED BY <2>1, <2>2
<1>13. IsFiniteSet(K) /\ Cardinality(K) = Remaining(o, N) /\ Len(kept) \in Nat
  <2> HIDE DEF kept, K
  <2> QED BY <1>12, ListedCardinality, ListedFacts
<1>14. Orders(order, K)
  <2> HIDE DEF K
  <2>1. \A a : a \in K => a \in items
    BY <1>12
  <2> QED BY <1>2, <2>1 DEF Orders
<1> HIDE DEF K
<1>15. /\ IsSequence(sorted) /\ Len(sorted) = Cardinality(K)
       /\ \A n \in 1 .. Cardinality(K) :
            /\ sorted[n] \in K
            /\ Cardinality({other \in K \ {sorted[n]} : Worse(sorted[n], other, order)}) = n - 1
  BY <1>13, <1>14, InOrderFacts
<1> DEFINE M == Cardinality(K)
<1>16. M \in Nat
  BY <1>12, <1>13
<1> HIDE DEF sorted, M, kept
<1>17. DOMAIN sorted = 1 .. M
  BY <1>15, SequenceFacts DEF M
<1>18. IsSequence(result) /\ Len(result) = M /\ \A n \in 1 .. M : result[n] = sorted[n].row
  <2>1. result = [n \in 1 .. M |-> sorted[n].row]
    BY <1>9, <1>17
  <2>2. result = [n \in 1 .. M |-> result[n]] /\ \A n \in 1 .. M : result[n] = sorted[n].row
    BY <2>1
  <2> QED BY <1>16, <2>2, ListFacts
<1>19. ASSUME NEW n \in 1 .. M
       PROVE  \E i \in DOMAIN list : result[n] = list[i] /\ Cardinality(PlacesBefore(list, order, i)) = n - 1
  <2> DEFINE x == sorted[n]
             A == {other \in K \ {x} : Worse(x, other, order)}
             B == {other \in items \ {x} : Worse(x, other, order)}
  <2>1. x \in K /\ x \in items /\ Cardinality(A) = n - 1
    BY <1>12, <1>15 DEF M
  <2>2. PICK i \in 1 .. N : x = Item(list, i)
    BY <1>8, <2>1
  <2>3. result[n] = list[i]
    BY <1>6, <1>18, <2>2
  <2>4. A = B
    <3> HIDE DEF x
    <3>1. ASSUME NEW other \in items, other # x, Worse(x, other, order) PROVE other \in K
      <4>1. ~Worse(other, x, order)
        BY <1>2, <2>1, <3>1 DEF Orders
      <4> QED BY <1>12, <2>1, <3>1, <4>1
    <3>2. \A other \in K : other \in items
      BY <1>12
    <3> QED BY <3>1, <3>2
  <2>5. Cardinality(PlacesBefore(list, order, i))
          = Cardinality({other \in items \ {Item(list, i)} : Worse(Item(list, i), other, order)})
    BY <1>3, <1>11, PlacesOfItems DEF items
  <2>6. Cardinality(PlacesBefore(list, order, i)) = n - 1
    BY <2>1, <2>2, <2>4, <2>5
  <2> QED BY <1>3, <2>3, <2>6
<1> QED BY <1>13, <1>18, <1>19 DEF SortedAs, M, N, order, result
=============================================================================
