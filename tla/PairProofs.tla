----------------------------- MODULE PairProofs -----------------------------
(***************************************************************************)
(* The pairs of lanes: the loop that CORR unrolls and the walk that COEFF  *)
(* takes (Pair, NextPair) visit the pairs in the order of the closed-form  *)
(* index by which results are looked up (TwiceIndex), for every N.  The    *)
(* last lemma is about the coefficient of a pair.                          *)
(***************************************************************************)
EXTENDS CorrParameters, WellFoundedInduction, TLAPS

(* Every non-empty set of naturals has a least element. *)
LEMMA LeastNatural ==
    ASSUME NEW T, T \subseteq Nat, T # {}
    PROVE  \E m \in T : \A k \in T : m <= k
<1>1. IsWellFoundedOn(OpToRel(<, Nat), Nat)
  BY NatLessThanWellFounded
<1>2. \E m \in T : \A k \in T : ~ (<<k, m>> \in OpToRel(<, Nat))
  BY <1>1, WFMin
<1>3. \A k, m \in Nat : ~(<<k, m>> \in OpToRel(<, Nat)) => m <= k
  BY DEF OpToRel
<1> QED BY <1>2, <1>3

(* Induction over the naturals, for a set in place of a predicate. *)
LEMMA SetInduction ==
    ASSUME NEW S, 0 \in S, \A n \in Nat : n \in S => n + 1 \in S
    PROVE  Nat \subseteq S
<1> SUFFICES ASSUME Nat \ S # {} PROVE FALSE
  OBVIOUS
<1>1. PICK m \in Nat \ S : \A k \in Nat \ S : m <= k
  BY LeastNatural
<1>2. m # 0 /\ m - 1 \in Nat /\ m - 1 \notin Nat \ S
  BY <1>1
<1> QED BY <1>1, <1>2
-----------------------------------------------------------------------------
(* The index of a pair is within the P pairs, and the P-th is the last. *)
LEMMA IndexRange ==
    ASSUME NEW r \in Lanes, NEW c \in Lanes, r < c
    PROVE  /\ TwiceIndex(r, c) \in Nat
           /\ TwiceIndex(r, c) <= 2 * P - 2
           /\ TwiceIndex(r, c) = 2 * P - 2 <=> r = N - 2 /\ c = N - 1
<1> DEFINE k == N - 1 - r
<1>1. N \in Nat /\ P \in Nat /\ 2 * P = N * (N - 1) /\ k \in Nat /\ k >= 1
      /\ r \in Nat /\ c \in Nat /\ c < N
  BY ParameterAssumption DEF Lanes
<1>2. r * (2 * N - r - 1) = N * (N - 1) - k * (k + 1)
  <2>1. r = N - 1 - k BY <1>1
  <2>2. (N - 1 - k) * (2 * N - (N - 1 - k) - 1) = N * (N - 1) - k * (k + 1)
    BY <1>1
  <2> QED BY <2>1, <2>2
<1>3. TwiceIndex(r, c) = 2 * P - k * (k + 1) + 2 * (c - r - 1)
  BY <1>1, <1>2 DEF TwiceIndex
<1>4. c - r - 1 <= k - 1 /\ c - r - 1 >= 0
  BY <1>1
<1>5. k * (k + 1) - 2 * (k - 1) >= 2 /\ (k * (k + 1) - 2 * (k - 1) = 2 <=> k = 1)
  <2>1. k * (k + 1) - 2 * (k - 1) = k * (k - 1) + 2
    BY <1>1
  <2>2. k * (k - 1) >= 0 /\ (k * (k - 1) = 0 <=> k = 1)
    <3>1. CASE k = 1 BY <3>1
    <3>2. CASE k >= 2
      <4>1. k * (k - 1) >= k BY <1>1, <3>2
      <4> QED BY <4>1, <3>2, <1>1
    <3> QED BY <3>1, <3>2, <1>1
  <2>3. k * (k - 1) \in Int /\ k * (k + 1) \in Int BY <1>1
  <2> HIDE DEF k
  <2> QED BY <2>1, <2>2, <2>3, <1>1
<1>6. TwiceIndex(r, c) >= 0
  <2>1. 2 * N - r - 1 >= 0 BY <1>1
  <2>2. r * (2 * N - r - 1) >= 0 BY <1>1, <2>1
  <2> QED BY <2>2, <1>4, <1>1 DEF TwiceIndex
<1>7. k * (k + 1) \in Int BY <1>1
<1>8. k = 1 <=> r = N - 2 BY <1>1
<1>9. r = N - 2 => c = N - 1 BY <1>1
<1> HIDE DEF k
<1>10. TwiceIndex(r, c) \in Int BY <1>3, <1>7, <1>1
<1>11. TwiceIndex(r, c) <= 2 * P - 2 BY <1>3, <1>4, <1>5, <1>7, <1>1
<1>12. TwiceIndex(r, c) = 2 * P - 2 => k = 1 BY <1>3, <1>4, <1>5, <1>7, <1>1
<1>13. k = 1 /\ c = N - 1 => TwiceIndex(r, c) = 2 * P - 2
  BY <1>3, <1>7, <1>8, <1>1
<1> QED BY <1>6, <1>10, <1>11, <1>12, <1>13, <1>8, <1>9

(* A step of the walk goes from the pair of one index to the pair of the   *)
(* next.                                                                   *)
LEMMA WalkStep ==
    ASSUME NEW r \in Lanes, NEW c \in Lanes, r < c,
           TwiceIndex(r, c) < 2 * P - 2
    PROVE  LET q == NextPair(r, c) IN
           /\ q[1] \in Lanes /\ q[2] \in Lanes /\ q[1] < q[2]
           /\ TwiceIndex(q[1], q[2]) = TwiceIndex(r, c) + 2
<1>1. N \in Nat /\ r \in Nat /\ c \in Nat /\ c < N
  BY ParameterAssumption DEF Lanes
<1>2. CASE c + 1 = N
  <2>1. r # N - 2 BY IndexRange, <1>1, <1>2, ParameterAssumption
  <2>2. NextPair(r, c) = <<r + 1, r + 2>> BY <1>2 DEF NextPair
  <2>3. (r + 1) * (2 * N - (r + 1) - 1) = r * (2 * N - r - 1) + 2 * (N - r - 1)
    BY <1>1
  <2>4. TwiceIndex(r + 1, r + 2) = TwiceIndex(r, c) + 2
    BY <1>1, <1>2, <2>3 DEF TwiceIndex
  <2> QED BY <1>1, <1>2, <2>1, <2>2, <2>4 DEF Lanes
<1>3. CASE c + 1 # N
  <2>1. NextPair(r, c) = <<r, c + 1>> BY <1>3 DEF NextPair
  <2>2. r * (2 * N - r - 1) \in Int BY <1>1
  <2>3. TwiceIndex(r, c + 1) = TwiceIndex(r, c) + 2
    BY <1>1, <2>2 DEF TwiceIndex
  <2> QED BY <1>1, <1>3, <2>1, <2>3 DEF Lanes
<1> QED BY <1>2, <1>3

(* Different pairs have different indices. *)
LEMMA IndexInjective ==
    ASSUME NEW r \in Lanes, NEW c \in Lanes, r < c,
           NEW r2 \in Lanes, NEW c2 \in Lanes, r2 < c2,
           TwiceIndex(r, c) = TwiceIndex(r2, c2)
    PROVE  r = r2 /\ c = c2
<1> DEFINE base(i) == i * (2 * N - i - 1)
<1>1. N \in Nat /\ r \in Nat /\ c \in Nat /\ c < N /\ r2 \in Nat /\ c2 \in Nat /\ c2 < N
  BY ParameterAssumption DEF Lanes
<1>2. ASSUME NEW a \in Nat, NEW b \in Nat, NEW d \in Nat, NEW e \in Nat,
             a < d, d < N, b < N, a < b, d < e
      PROVE  TwiceIndex(a, b) < TwiceIndex(d, e)
  <2>1. base(d) - base(a) = (d - a) * (2 * N - 1 - a - d)
    BY <1>1, <1>2
  <2>2. (d - a) * (2 * N - 1 - a - d) >= 2 * N - 1 - a - d
    <3>1. 2 * N - 1 - a - d >= 0 /\ d - a >= 1 BY <1>1, <1>2
    <3>2. \A m, n \in Nat : m >= 1 => m * n >= n OBVIOUS
    <3>3. d - a \in Nat /\ 2 * N - 1 - a - d \in Nat BY <3>1, <1>1, <1>2
    <3> QED BY <3>1, <3>2, <3>3
  <2>3. (d - a) * (2 * N - 1 - a - d) >= 2 * (b - a - 1) + 2
    <3>1. CASE d = a + 1 BY <3>1, <1>1, <1>2
    <3>2. CASE d >= a + 2
      <4>1. d - a \in Nat /\ d - a >= 2
            /\ 2 * N - 1 - a - d \in Nat /\ 2 * N - 1 - a - d >= N - a
        BY <3>2, <1>1, <1>2
      <4>2. \A m, n \in Nat : m >= 2 => m * n >= 2 * n OBVIOUS
      <4>3. (d - a) * (2 * N - 1 - a - d) >= 2 * (2 * N - 1 - a - d)
        BY <4>1, <4>2
      <4> QED BY <4>1, <4>3, <1>1, <1>2
    <3> QED BY <3>1, <3>2, <1>2
  <2>4. base(d) \in Int /\ base(a) \in Int /\ (d - a) * (2 * N - 1 - a - d) \in Int
    BY <1>1, <1>2
  <2>5. TwiceIndex(a, b) = base(a) + 2 * (b - a - 1)
        /\ TwiceIndex(d, e) = base(d) + 2 * (e - d - 1)
    BY DEF TwiceIndex
  <2> HIDE DEF base
  <2> QED BY <2>1, <2>3, <2>4, <2>5, <1>1, <1>2
<1>3. TwiceIndex(r, c) \in Nat /\ TwiceIndex(r2, c2) \in Nat
  BY IndexRange
<1>4. r = r2
  BY <1>1, <1>2, <1>3
<1>5. base(r) \in Int BY <1>1
<1>6. TwiceIndex(r, c) = base(r) + 2 * (c - r - 1)
      /\ TwiceIndex(r2, c2) = base(r) + 2 * (c2 - r - 1)
  BY <1>4 DEF TwiceIndex
<1> HIDE DEF base
<1> QED BY <1>1, <1>4, <1>5, <1>6
-----------------------------------------------------------------------------
(* The walk starts at index 0. *)
LEMMA FirstPair == 0 \in Pairs /\ IsPair(0, 0, 1)
<1>1. N \in Nat /\ N >= 2 /\ P \in Nat /\ 2 * P = N * (N - 1)
  BY ParameterAssumption
<1>2. N * (N - 1) >= 1
  <2>1. \A m, n \in Nat : m >= 1 /\ n >= 1 => m * n >= 1 OBVIOUS
  <2> QED BY <1>1, <2>1
<1>3. P >= 1 BY <1>1, <1>2
<1>4. TwiceIndex(0, 1) = 0 BY <1>1 DEF TwiceIndex
<1> QED BY <1>1, <1>3, <1>4 DEF IsPair, Lanes, Pairs

(* One step of the walk, by index. *)
LEMMA PairStep ==
    ASSUME NEW i \in Nat, i + 1 \in Pairs, NEW r, NEW c, IsPair(i, r, c)
    PROVE  IsPair(i + 1, NextPair(r, c)[1], NextPair(r, c)[2])
<1>1. TwiceIndex(r, c) < 2 * P - 2
  BY ParameterAssumption DEF IsPair, Pairs
<1> QED BY <1>1, WalkStep DEF IsPair

(* The walk reaches the last row exactly with the step from the P-th pair. *)
LEMMA WalkEndsAtP ==
    ASSUME NEW i \in Nat, i < P, NEW r, NEW c, IsPair(i, r, c)
    PROVE  LET q == NextPair(r, c) IN
           /\ i + 1 = P => q[1] + 1 = N
           /\ i + 1 # P => q[1] + 1 # N /\ i + 1 \in Pairs /\ IsPair(i + 1, q[1], q[2])
<1>1. N \in Nat /\ N >= 2 /\ P \in Nat
  BY ParameterAssumption
<1>2. CASE i + 1 = P
  <2>1. r = N - 2 /\ c = N - 1
    BY <1>1, <1>2, IndexRange DEF IsPair
  <2>2. NextPair(r, c)[1] = N - 1
    BY <2>1, <1>1 DEF NextPair
  <2> QED BY <2>2, <1>1, <1>2
<1>3. CASE i + 1 # P
  <2>1. i + 1 \in Pairs BY <1>1, <1>3 DEF Pairs
  <2>2. IsPair(i + 1, NextPair(r, c)[1], NextPair(r, c)[2])
    BY <2>1, PairStep
  <2>3. NextPair(r, c)[1] + 1 # N
    BY <2>2, <1>1 DEF IsPair, Lanes
  <2> QED BY <1>3, <2>1, <2>2, <2>3
<1> QED BY <1>2, <1>3

(* Every index up to P is that of a pair. *)
LEMMA PairExists ==
    ASSUME NEW i \in Pairs
    PROVE  \E q \in Lanes \X Lanes : IsPair(i, q[1], q[2])
<1> DEFINE Reached == {n \in Nat : n \in Pairs =>
                         \E q \in Lanes \X Lanes : IsPair(n, q[1], q[2])}
<1>1. 0 \in Reached
  <2>1. <<0, 1>> \in Lanes \X Lanes BY FirstPair DEF IsPair
  <2> QED BY <2>1, FirstPair
<1>2. ASSUME NEW n \in Nat, n \in Reached, n + 1 \in Pairs
      PROVE  \E q \in Lanes \X Lanes : IsPair(n + 1, q[1], q[2])
  <2>1. n \in Pairs BY <1>2, ParameterAssumption DEF Pairs
  <2>2. PICK q \in Lanes \X Lanes : IsPair(n, q[1], q[2]) BY <1>2, <2>1
  <2>3. IsPair(n + 1, NextPair(q[1], q[2])[1], NextPair(q[1], q[2])[2])
    BY <2>2, <1>2, PairStep
  <2>4. <<NextPair(q[1], q[2])[1], NextPair(q[1], q[2])[2]>> \in Lanes \X Lanes
    BY <2>3 DEF IsPair
  <2> QED BY <2>3, <2>4
<1>3. \A n \in Nat : n \in Reached => n + 1 \in Reached
  BY <1>2
<1> HIDE DEF Reached
<1>4. Nat \subseteq Reached
  BY <1>1, <1>3, SetInduction
<1>5. i \in Nat BY ParameterAssumption DEF Pairs
<1> QED BY <1>4, <1>5 DEF Reached

(* The recursive definition of Pair has a solution: the pairs by index. *)
LEMMA PairRecursion ==
    Pair = [i \in Pairs |-> IF i = 0 THEN <<0, 1>>
                            ELSE NextPair(Pair[i - 1][1], Pair[i - 1][2])]
<1> DEFINE g == [i \in Pairs |-> CHOOSE q \in Lanes \X Lanes : IsPair(i, q[1], q[2])]
<1>1. \A i \in Pairs : g[i] \in Lanes \X Lanes /\ IsPair(i, g[i][1], g[i][2])
  BY PairExists
<1>2. \A i \in Pairs : g[i] = IF i = 0 THEN <<0, 1>>
                               ELSE NextPair(g[i - 1][1], g[i - 1][2])
  <2> SUFFICES ASSUME NEW i \in Pairs
               PROVE  g[i] = IF i = 0 THEN <<0, 1>>
                             ELSE NextPair(g[i - 1][1], g[i - 1][2])
    OBVIOUS
  <2> HIDE DEF g
  <2>1. CASE i = 0
    <3>1. IsPair(0, g[0][1], g[0][2]) /\ g[0] \in Lanes \X Lanes BY <1>1, <2>1
    <3>2. g[0][1] = 0 /\ g[0][2] = 1 BY <3>1, FirstPair, IndexInjective DEF IsPair
    <3> QED BY <3>1, <3>2, <2>1
  <2>2. CASE i # 0
    <3>1. i - 1 \in Pairs /\ i - 1 \in Nat /\ (i - 1) + 1 = i
      BY <2>2, ParameterAssumption DEF Pairs
    <3> DEFINE q == NextPair(g[i - 1][1], g[i - 1][2])
    <3>2. IsPair(i - 1, g[i - 1][1], g[i - 1][2]) BY <3>1, <1>1
    <3>3. IsPair(i, q[1], q[2]) BY <3>1, <3>2, PairStep
    <3>4. IsPair(i, g[i][1], g[i][2]) /\ g[i] \in Lanes \X Lanes BY <1>1
    <3>5. q = <<q[1], q[2]>> BY DEF NextPair
    <3>6. g[i] = <<g[i][1], g[i][2]>> BY <3>4
    <3> HIDE DEF q
    <3>7. g[i][1] = q[1] /\ g[i][2] = q[2]
      BY <3>3, <3>4, IndexInjective DEF IsPair
    <3>8. g[i] = q BY <3>5, <3>6, <3>7
    <3> QED BY <3>8, <2>2 DEF q
  <2> QED BY <2>1, <2>2
<1>3. g = [i \in Pairs |-> IF i = 0 THEN <<0, 1>>
                            ELSE NextPair(g[i - 1][1], g[i - 1][2])]
  <2>1. g = [i \in Pairs |-> g[i]] OBVIOUS
  <2> HIDE DEF g
  <2> QED BY <2>1, <1>2
<1> HIDE DEF g
<1> QED BY <1>3 DEF Pair

(* The pair the unrolled loop of CORR multiplies at index i is the pair    *)
(* whose closed-form index is i.                                           *)
THEOREM PairHasItsIndex == \A i \in Pairs : IsPair(i, Pair[i][1], Pair[i][2])
<1> DEFINE Good == {n \in Nat : n \in Pairs => IsPair(n, Pair[n][1], Pair[n][2])}
<1>1. 0 \in Good
  <2>1. Pair[0] = <<0, 1>> BY PairRecursion, FirstPair
  <2> QED BY <2>1, FirstPair
<1>2. ASSUME NEW n \in Nat, n \in Good, n + 1 \in Pairs
      PROVE  IsPair(n + 1, Pair[n + 1][1], Pair[n + 1][2])
  <2>1. n \in Pairs BY <1>2, ParameterAssumption DEF Pairs
  <2>2. IsPair(n, Pair[n][1], Pair[n][2]) BY <1>2, <2>1
  <2>3. n + 1 # 0 /\ (n + 1) - 1 = n OBVIOUS
  <2>4. Pair[n + 1] = NextPair(Pair[n][1], Pair[n][2])
    <3>1. Pair[n + 1] = IF n + 1 = 0 THEN <<0, 1>>
                        ELSE NextPair(Pair[(n + 1) - 1][1], Pair[(n + 1) - 1][2])
      BY <1>2, PairRecursion
    <3> QED BY <3>1, <2>3
  <2> QED BY <1>2, <2>2, <2>4, PairStep
<1>3. \A n \in Nat : n \in Good => n + 1 \in Good
  BY <1>2
<1> HIDE DEF Good
<1>4. Nat \subseteq Good
  BY <1>1, <1>3, SetInduction
<1> QED BY <1>4, ParameterAssumption DEF Good, Pairs
-----------------------------------------------------------------------------
(* A coefficient of words is made of words. *)
LEMMA CoefficientType ==
    /\ ZeroCoeff \in Coeffs
    /\ \A n \in Counts, e1, e2, sq1, sq2, p \in Words :
          Coefficient(n, e1, e2, sq1, sq2, p) \in Coeffs
<1>1. 0 \in Words /\ \A k \in Int : k % W \in Words
  BY ParameterAssumption DEF Words
<1>2. \A n \in Counts, s, a, b \in Words : n * s - a * b \in Int
  BY DEF Words, Counts
<1>3. ZeroCoeff \in Coeffs
  BY <1>1 DEF ZeroCoeff, Coeffs
<1> SUFFICES ASSUME NEW n \in Counts, NEW e1 \in Words, NEW e2 \in Words,
                    NEW sq1 \in Words, NEW sq2 \in Words, NEW p \in Words
             PROVE  Coefficient(n, e1, e2, sq1, sq2, p) \in Coeffs
  BY <1>3
<1> DEFINE num == (n * p - e1 * e2) % W
           d1  == (n * sq1 - e1 * e1) % W
           d2  == (n * sq2 - e2 * e2) % W
<1>4. num \in Words /\ d1 \in Words /\ d2 \in Words
  BY <1>1, <1>2
<1>5. Coefficient(n, e1, e2, sq1, sq2, p)
        = IF d1 # 0 /\ d2 # 0
          THEN [numerator |-> num, denominator1 |-> d1, denominator2 |-> d2] ELSE ZeroCoeff
  BY DEF Coefficient
<1> HIDE DEF num, d1, d2
<1>6. [numerator |-> num, denominator1 |-> d1, denominator2 |-> d2] \in Coeffs
  BY <1>4 DEF Coeffs
<1> QED BY <1>3, <1>5, <1>6
=============================================================================
