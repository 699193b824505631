---------------------------- MODULE CoeffCorrect ----------------------------
(* What must hold of COEFF between its neighbours.                         *)
EXTENDS CoeffSpec

(* Sum i of a batch, where COEFF stores it. *)
Stored(i) == IF i < N THEN mem_e[i]
             ELSE IF i < 2 * N THEN mem_sq[i - N]
             ELSE mem_p[i - 2 * N]

(* The coefficient computed from the stored sums of lanes r and c and sum  *)
(* of products k, with sample count n.                                     *)
FromStored(n, r, c, k) ==
    Coefficient(n, mem_e[r], mem_e[c], mem_sq[r], mem_sq[c], mem_p[k])

(* The stream is framed as COEFF counts: the flit that brings the F-th sum *)
(* of a batch is the one flagged last, and CORR is as far ahead of COEFF   *)
(* as the stream is long.                                                  *)
StreamIsFramed ==
    /\ state # "FEED" => counter = 0
    /\ \A j \in 1 .. Len(src) : src[j].last <=> counter + j = F
    /\ sent = IF counter + Len(src) < F THEN counter + Len(src)
                                       ELSE counter + Len(src) - F

(* The memories are being filled with the sums of one batch b, whose       *)
(* others are still in the stream, followed by those of the next batch.    *)
FillsWithOneBatch ==
    \E b \in Batches :
        /\ state = "FEED" => \A i \in 0 .. counter - 1 : Stored(i) = b[i]
        /\ \A j \in 1 .. Len(src) :
              src[j].val = IF counter + j <= F THEN b[counter + j - 1]
                                               ELSE batch[counter + j - 1 - F]
        /\ counter + Len(src) < F => b = batch

(* Once a batch is complete and until the next one starts to be stored,    *)
(* the memories hold the sums of one batch, each in its place: what        *)
(* arrives while the coefficients are computed waits in the stream.        *)
MemoriesHoldOneBatch ==
    state # "FEED" => \E b \in Batches : \A i \in 0 .. F - 1 : Stored(i) = b[i]

(* The walk of (row, col) and the running index stay in step: index is     *)
(* where a reader looks for the pair (row, col), and they start every      *)
(* batch at the first pair.                                                *)
WalkAgreesWithIndex ==
    /\ IsPair(index, row, col)
    /\ state # "COMPUTE" => row = 0 /\ col = 1 /\ index = 0

(* The first m coefficients are of the lanes their index stands for. *)
CoefficientsUpTo(m) ==
    \A k \in Pairs, r, c \in Lanes :
        k < m /\ IsPair(k, r, c) => \E n \in Counts : coeff[k] = FromStored(n, r, c, k)

(* Every coefficient that is read out belongs to the two lanes a reader of *)
(* the results takes it for, and to the sum of their products, whatever    *)
(* the sample count was at the time.                                       *)
CoefficientsAtTheirIndex ==
    /\ state = "COMPUTE" => CoefficientsUpTo(index)
    /\ state = "READOUT" => CoefficientsUpTo(P)

(* last is up only while the P-th coefficient waits to be written.         *)
LastMarksTheFinalCoefficient ==
    /\ last => write /\ state = "FEED"
    /\ write /\ state = "FEED" => last

(* COEFF answers batch after batch: it keeps coming to its final           *)
(* coefficient as long as sums arrive and coefficients are taken.          *)
KeepsAnswering == []<>(write /\ last)
=============================================================================
