--------------------------- MODULE CorrParameters ---------------------------
(***************************************************************************)
(* What the two processes of the correlation kernel share: the template    *)
(* parameters of hls/class_method, the machine words, the order in which   *)
(* pairs of lanes are visited, and the arithmetic of the sums and of one   *)
(* coefficient.  An item is one input line: a value for each of N lanes.   *)
(***************************************************************************)
EXTENDS Integers

CONSTANTS
    N,          \* lanes of an input line
    P,          \* pairs of lanes, N*(N-1)/2
    W,          \* 2^R, the modulus of the result type ap_uint<R>
    U,          \* 2^32, the modulus of the sample counter (unsigned)
    Depth,      \* capacity of an hls::stream
    Items       \* the input lines the environment may send

Lanes == 0 .. N - 1
Pairs == 0 .. P - 1
F     == 2 * N + P      \* sums of a batch: N elements, N squares, P products
Words  == 0 .. W - 1
Counts == 0 .. U - 1

(* accu1 and accu2 hold P/2 entries each, so P is even. *)
ASSUME ParameterAssumption ==
    /\ N \in Nat /\ N >= 2
    /\ P \in Nat /\ 2 * P = N * (N - 1) /\ P % 2 = 0
    /\ W \in Nat \ {0} /\ U \in Nat \ {0}
    /\ Depth \in Nat \ {0}
    /\ Items \subseteq [Lanes -> Words]

(* A step of the (row, col) walk over the pairs of lanes.  (An operator    *)
(* named "Bug..." is a deliberate slip that model checking has to catch    *)
(* when it stands in for the operator after it.)                           *)
BugWalkPastLastLane(row, col) == IF col = N THEN <<row + 1, row + 2>>
                                            ELSE <<row, col + 1>>
NextPair(row, col) == IF col + 1 = N THEN <<row + 1, row + 2>>
                                     ELSE <<row, col + 1>>

(* The pair whose product sits at index i: the walk taken i times. *)
Pair[i \in Pairs] ==
    IF i = 0 THEN <<0, 1>> ELSE NextPair(Pair[i - 1][1], Pair[i - 1][2])

(***************************************************************************)
(* Twice the index of the pair (r, c), r < c, in the closed form by which  *)
(* the test bench and the hosts look a result up                           *)
(* (correlation_tb.cpp: i*N-(i*(i+1))/2+j-i-1), doubled to avoid dividing. *)
(***************************************************************************)
TwiceIndex(r, c) == r * (2 * N - r - 1) + 2 * (c - r - 1)

(* r, c is the pair of lanes whose index is i. *)
IsPair(i, r, c) == r \in Lanes /\ c \in Lanes /\ r < c /\ TwiceIndex(r, c) = 2 * i

(* What item x adds to a sum of squares and to a sum of products. *)
Square(x, lane) == (x[lane] * x[lane]) % W
Product(x, i)   == (x[Pair[i][1]] * x[Pair[i][2]]) % W

(***************************************************************************)
(* A coefficient is kept as the three words it is a function of: the       *)
(* result is numerator * denominator1^-0.5 * denominator2^-0.5.  The value *)
(* 0.0f that replaces it when a denominator is zero is ZeroCoeff.          *)
(***************************************************************************)
ZeroCoeff == [numerator |-> 0, denominator1 |-> 0, denominator2 |-> 0]
Coeffs    == [numerator : Words, denominator1 : Words, denominator2 : Words]

Coefficient(n, sum_e1, sum_e2, sum_sq1, sum_sq2, sum_p) ==
    LET d1 == (n * sum_sq1 - sum_e1 * sum_e1) % W
        d2 == (n * sum_sq2 - sum_e2 * sum_e2) % W
    IN  IF d1 # 0 /\ d2 # 0
        THEN [numerator    |-> (n * sum_p - sum_e1 * sum_e2) % W,
              denominator1 |-> d1,
              denominator2 |-> d2]
        ELSE ZeroCoeff
=============================================================================
