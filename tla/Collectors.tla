------------------------------ MODULE Collectors ------------------------------
(***************************************************************************)
(* The arithmetic of baselines/cpp/src/amnes.hpp: AmnesCollector, in words *)
(* that wrap.  Two collectors get the items before and after a split; they *)
(* are merged and the numerators and denominators computed.  (A word is    *)
(* given by how many values it has, 2 ^ w for w bits.)                     *)
(***************************************************************************)
EXTENDS Integers, SequencesExt

CONSTANTS
    Streams, ItemLists, \* streams, and lists of items, one value a stream
    ProductValues,      \* values of a product of two TD, 2 ^ 32 (2 ^ 31 of 16 bit
                        \* values, whose product is signed and undefined from there on)
    AccValues,          \* values of TR, 2 ^ 32 of 8 and 16 bit values, otherwise 2 ^ 64
    WideValues          \* values of size_t times TR, 2 ^ 64

ASSUME CollectorsAssumption ==
    /\ Streams \in Nat \ {0, 1} /\ {ProductValues, AccValues, WideValues} \subseteq Nat \ {0}
    /\ ItemLists \subseteq Seq([0 .. Streams - 1 -> Nat])

VARIABLES items, split, collected, first, second, stage
collectorVars == <<items, split, collected, first, second, stage>>

Stream == 0 .. Streams - 1
Pairs  == {p \in Stream \X Stream : p[1] < p[2]}
Acc(x) == x % AccValues

Clean == [elms |-> [j \in Stream |-> 0], sqrs |-> [j \in Stream |-> 0],
          prds |-> [p \in Pairs |-> 0]]

(* A product is computed in 32 bits and then added to a wider sum.         *)
Times(a, b) == (a * b) % ProductValues
CollectItem(c, x) ==
    [elms |-> [j \in Stream |-> Acc(c.elms[j] + x[j])],
     sqrs |-> [j \in Stream |-> Acc(c.sqrs[j] + Times(x[j], x[j]))],
     prds |-> [p \in Pairs |-> Acc(c.prds[p] + Times(x[p[1]], x[p[2]]))]]

(* (Operators named "Bug..." are deliberate slips that model checking has  *)
(* to catch when they stand in for the operator after them.)               *)
BugSquaresNotMerged(c, d) ==
    [elms |-> [j \in Stream |-> Acc(c.elms[j] + d.elms[j])], sqrs |-> c.sqrs,
     prds |-> [p \in Pairs |-> Acc(c.prds[p] + d.prds[p])]]
Merged(c, d) ==
    [elms |-> [j \in Stream |-> Acc(c.elms[j] + d.elms[j])],
     sqrs |-> [j \in Stream |-> Acc(c.sqrs[j] + d.sqrs[j])],
     prds |-> [p \in Pairs |-> Acc(c.prds[p] + d.prds[p])]]

(* get_pcc_coefficients: the product of two sums is still a TR, however    *)
(* wide the rest; the differences are those of unsigned words, and as they *)
(* are only then made 128 bits wide, they are never negative.              *)
SumTimesSum(c, i, j) == Acc(c.elms[i] * c.elms[j])
Numerator(c, n, p) == (n * c.prds[p] - SumTimesSum(c, p[1], p[2])) % WideValues
Denominator(c, n, j) == (n * c.sqrs[j] - SumTimesSum(c, j, j)) % WideValues
-----------------------------------------------------------------------------
CollectorsInit ==
    /\ items \in ItemLists /\ split \in 0 .. Len(items)
    /\ collected = 0 /\ first = Clean /\ second = Clean /\ stage = "collect"

Collect ==
    /\ stage = "collect" /\ collected < Len(items)
    /\ LET x == items[collected + 1] IN
       IF collected < split THEN first' = CollectItem(first, x) /\ UNCHANGED second
                            ELSE second' = CollectItem(second, x) /\ UNCHANGED first
    /\ collected' = collected + 1 /\ UNCHANGED <<items, split, stage>>
Merge ==
    /\ stage = "collect" /\ collected = Len(items)
    /\ first' = Merged(first, second) /\ stage' = "coefficients"
    /\ UNCHANGED <<items, split, collected, second>>

CollectorsNext == Collect \/ Merge
CollectorsSpec == CollectorsInit /\ [][CollectorsNext]_collectorVars
-----------------------------------------------------------------------------
(* The exact sums of the first n items, and of all of them.                *)
SumsOf(values) ==
    LET upTo[n \in 0 .. Len(items)] == IF n = 0 THEN 0 ELSE upTo[n - 1] + values[n] IN upTo
Sums(j)     == SumsOf([n \in 1 .. Len(items) |-> items[n][j]])
Sums2(j, k) == SumsOf([n \in 1 .. Len(items) |-> items[n][j] * items[n][k]])
SumOf(j)     == Sums(j)[Len(items)]
SumOf2(j, k) == Sums2(j, k)[Len(items)]
Exact(j, k) == Len(items) * SumOf2(j, k) - SumOf(j) * SumOf(k)

(* No product and no sum is too long for its word.                         *)
Fits ==
    /\ \A n \in DOMAIN items : \A j, k \in Stream : items[n][j] * items[n][k] < ProductValues
    /\ \A j, k \in Stream :
          /\ SumOf(j) < AccValues /\ SumOf2(j, k) < AccValues
          /\ SumOf(j) * SumOf(k) < AccValues /\ Len(items) * SumOf2(j, k) < WideValues

(* As long as nothing is too long, however the items are split: what a     *)
(* coefficient is computed from are the covariance and the two variances   *)
(* of all items, except that a negative covariance comes out as a huge     *)
(* positive number (amnes.hpp:169, unsigned subtraction).  With 8 or 16    *)
(* bit values the product of two sums is too long as soon as the sums of   *)
(* two streams reach 2 ^ 16.                                               *)
CovarianceUpToItsSign ==
    stage = "coefficients" /\ Fits =>
        \A p \in Pairs :
            LET cov == Exact(p[1], p[2]) IN
            /\ Numerator(first, Len(items), p) = IF cov >= 0 THEN cov ELSE cov + WideValues
            /\ \A j \in {p[1], p[2]} : Denominator(first, Len(items), j) = Exact(j, j)
=============================================================================
