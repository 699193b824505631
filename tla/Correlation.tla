----------------------------- MODULE Correlation -----------------------------
(***************************************************************************)
(* What the correlation kernel promises its host: it answers every batch   *)
(* of numberItems items with P coefficients, in the order of the pairs of  *)
(* lanes, the final one flagged last; the coefficients are those of the    *)
(* items of that very batch, and none is sent before its batch is whole.   *)
(* It does not promise with which sample count they were computed.         *)
(***************************************************************************)
EXTENDS CorrParameters, Sequences

VARIABLES
    numberItems,    \* items of a batch
    sent,           \* items sent to the kernel
    received        \* coefficients received from it

cvars == <<numberItems, sent, received>>

(* v[1] + ... + v[m] *)
Total(v, m) == LET s[j \in 0 .. m] == IF j = 0 THEN 0 ELSE s[j - 1] + v[j] IN s[m]

(* The sum of f(x) over the items x of batch b, b = 0, 1, ... *)
BatchSum(b, f(_)) ==
    Total([j \in 1 .. numberItems |-> f(sent[b * numberItems + j])], numberItems) % W

(* The coefficient of lanes r and c of batch b, for sample count n. *)
Pearson(b, r, c, n) ==
    LET e1  == BatchSum(b, LAMBDA x : x[r])
        e2  == BatchSum(b, LAMBDA x : x[c])
        sq1 == BatchSum(b, LAMBDA x : x[r] * x[r])
        sq2 == BatchSum(b, LAMBDA x : x[c] * x[c])
        p   == BatchSum(b, LAMBDA x : x[r] * x[c])
    IN  Coefficient(n, e1, e2, sq1, sq2, p)

(* The batch and the pair the k-th coefficient answers. *)
BatchOf(k) == (k - 1) \div P
PairOf(k)  == (k - 1) % P

CInit == sent = << >> /\ received = << >>

Request == /\ \E item \in Items : sent' = Append(sent, item)
           /\ UNCHANGED <<numberItems, received>>

Answer ==
    LET k == Len(received) + 1 IN
    /\ (BatchOf(k) + 1) * numberItems <= Len(sent)
    /\ UNCHANGED <<numberItems, sent>>
    /\ \E n \in Counts :
          received' = Append(received,
              [last |-> PairOf(k) = P - 1,
               val  |-> Pearson(BatchOf(k), Pair[PairOf(k)][1], Pair[PairOf(k)][2], n)])

CNext == Request \/ Answer

CSpec == CInit /\ [][CNext]_cvars
=============================================================================
