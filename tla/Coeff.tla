-------------------------------- MODULE Coeff --------------------------------
(***************************************************************************)
(* The process COEFF of hls/class_method/coefficients.hpp.  It stores the  *)
(* F sums of a batch as they arrive, waits two invocations, computes the P *)
(* coefficients one per invocation, and streams them out.  One action is   *)
(* one invocation of acc_coeff().  The sample count is the variable CORR   *)
(* writes, read afresh by each invocation.                                 *)
(***************************************************************************)
EXTENDS CorrParameters, Sequences

VARIABLES
    src,                \* stream of sums, with their last flag
    dst,                \* stream of coefficients, with their last flag
    samples_number,     \* shared with CORR, only read here
    state, counter, counter_rd, row, col, index,
    mem_e, mem_sq, mem_p,
    coeff, coeff_value,
    last, write

coeffState == <<state, counter, counter_rd, row, col, index,
                mem_e, mem_sq, mem_p, coeff, coeff_value, last, write>>

SumFlit   == [last : BOOLEAN, val : Words]
CoeffFlit == [last : BOOLEAN, val : Coeffs]

(* Types of the variables.  Each bound on an index says that no access to  *)
(* an array is outside it; row and col are only used while below N.        *)
CoeffTypeOK ==
    /\ src \in Seq(SumFlit)
    /\ dst \in Seq(CoeffFlit)
    /\ samples_number \in Counts
    /\ state \in {"FEED", "SETTLE1", "SETTLE2", "COMPUTE", "READOUT"}
    /\ counter \in 0 .. F - 1 /\ counter_rd \in Pairs
    /\ row \in Lanes /\ col \in Lanes /\ index \in Pairs
    /\ mem_e \in [Lanes -> Words] /\ mem_sq \in [Lanes -> Words]
    /\ mem_p \in [Pairs -> Words]
    /\ coeff \in [Pairs -> Coeffs] /\ coeff_value \in Coeffs
    /\ last \in BOOLEAN /\ write \in BOOLEAN

(* COEFF is a global object: its arrays start zeroed. *)
CoeffInit ==
    /\ state = "FEED"
    /\ counter = 0 /\ counter_rd = 0 /\ row = 0 /\ col = 1 /\ index = 0
    /\ mem_e = [i \in Lanes |-> 0] /\ mem_sq = [i \in Lanes |-> 0]
    /\ mem_p = [i \in Pairs |-> 0]
    /\ coeff = [i \in Pairs |-> ZeroCoeff] /\ coeff_value = ZeroCoeff
    /\ last = FALSE /\ write = FALSE
-----------------------------------------------------------------------------
(* An operator named "Bug..." is a deliberate slip that model checking has *)
(* to catch when it stands in for the operator after it.                   *)

(* Every invocation first writes out the coefficient read by the previous  *)
(* one, and then lowers write and last.                                    *)
Flush ==
    /\ write => Len(dst) < Depth
    /\ dst' = IF write THEN Append(dst, [last |-> last, val |-> coeff_value])
                       ELSE dst
FlushedLast == IF write THEN FALSE ELSE last

(* The sums numbered N to 2N-1 are the sums of squares. *)
BugSquaresFromNPlus1 == counter \in N + 1 .. 2 * N - 1
InSquares == counter \in N .. 2 * N - 1

(* FEED with a sum to read: its place is told by how many came before it. *)
FeedSum ==
    /\ state = "FEED" /\ src # << >>
    /\ Flush /\ write' = FALSE /\ last' = FlushedLast
    /\ LET x == Head(src) IN
       /\ mem_e'  = IF counter < N THEN [mem_e EXCEPT ![counter] = x.val]
                                   ELSE mem_e
       /\ mem_sq' = IF InSquares
                    THEN [mem_sq EXCEPT ![counter - N] = x.val] ELSE mem_sq
       /\ mem_p'  = IF counter >= 2 * N
                    THEN [mem_p EXCEPT ![counter - 2 * N] = x.val] ELSE mem_p
       /\ IF x.last THEN state' = "SETTLE1" /\ counter' = 0
                    ELSE state' = state /\ counter' = counter + 1
    /\ src' = Tail(src)
    /\ UNCHANGED <<samples_number, counter_rd, row, col, index, coeff, coeff_value>>

FeedIdle ==
    /\ state = "FEED" /\ src = << >>
    /\ Flush /\ write' = FALSE /\ last' = FlushedLast
    /\ UNCHANGED <<src, samples_number, state, counter, counter_rd, row, col, index,
                   mem_e, mem_sq, mem_p, coeff, coeff_value>>

Settle ==
    /\ state \in {"SETTLE1", "SETTLE2"}
    /\ Flush /\ write' = FALSE /\ last' = FlushedLast
    /\ state' = IF state = "SETTLE1" THEN "SETTLE2" ELSE "COMPUTE"
    /\ UNCHANGED <<src, samples_number, counter, counter_rd, row, col, index,
                   mem_e, mem_sq, mem_p, coeff, coeff_value>>

(* The coefficient of the pair (row, col). *)
BugSameSquareTwice ==
    Coefficient(samples_number, mem_e[row], mem_e[col],
                mem_sq[row], mem_sq[row], mem_p[index])
PairCoefficient ==
    Coefficient(samples_number, mem_e[row], mem_e[col],
                mem_sq[row], mem_sq[col], mem_p[index])

(* All pairs are done when row reaches the last lane. *)
BugDoneTooLate(r) == r = N
Done(r) == r + 1 = N

(* One coefficient and the walk to the next pair; at the end of the walk   *)
(* it is rewound and the read-out begins.                                  *)
BugNoRewind ==
    /\ state = "COMPUTE"
    /\ Flush /\ write' = FALSE /\ last' = FlushedLast
    /\ coeff' = IF index < P THEN [coeff EXCEPT ![index] = PairCoefficient] ELSE coeff
    /\ row' = IF index < P THEN NextPair(row, col)[1] ELSE row
    /\ col' = IF index < P THEN NextPair(row, col)[2] ELSE col
    /\ index' = IF index < P THEN index + 1 ELSE index
    /\ state' = IF Done(row') THEN "READOUT" ELSE state
    /\ UNCHANGED <<src, samples_number, counter, counter_rd,
                   mem_e, mem_sq, mem_p, coeff_value>>

Compute ==
    /\ state = "COMPUTE"
    /\ Flush /\ write' = FALSE /\ last' = FlushedLast
    /\ coeff' = IF index < P THEN [coeff EXCEPT ![index] = PairCoefficient] ELSE coeff
    /\ LET walk == IF index < P THEN NextPair(row, col) ELSE <<row, col>>
           done == Done(walk[1])
       IN
       /\ row' = IF done THEN 0 ELSE walk[1]
       /\ col' = IF done THEN 1 ELSE walk[2]
       /\ index' = IF done THEN 0 ELSE IF index < P THEN index + 1 ELSE index
       /\ state' = IF done THEN "READOUT" ELSE state
    /\ UNCHANGED <<src, samples_number, counter, counter_rd,
                   mem_e, mem_sq, mem_p, coeff_value>>

Readout ==
    /\ state = "READOUT"
    /\ Flush
    /\ coeff_value' = coeff[counter_rd]
    /\ last' = (counter_rd + 1 = P)
    /\ write' = TRUE
    /\ IF last' THEN state' = "FEED" /\ counter_rd' = 0
                ELSE state' = state /\ counter_rd' = counter_rd + 1
    /\ UNCHANGED <<src, samples_number, counter, row, col, index,
                   mem_e, mem_sq, mem_p, coeff>>

AccCoeff == FeedSum \/ FeedIdle \/ Settle \/ Compute \/ Readout
=============================================================================
