---------------------------- MODULE KernelCorrect ----------------------------
(* What must hold of the whole kernel.                                     *)
EXTENDS Kernel

Service == INSTANCE Correlation

(* The kernel answers every batch with its own coefficients, whole and in  *)
(* order: however its processes interleave and stall each other, no batch  *)
(* overtakes, tears or drops another.                                      *)
ImplementsCorrelation == Service!CSpec

(* A batch sent whole is answered whole: the processes never stall each    *)
(* other for good.                                                         *)
EveryBatchIsAnswered ==
    \A b \in 1 .. MaxBatches :
        Len(sent) >= b * numberItems ~> Len(received) >= b * P

(* CORR and COEFF agree where a batch begins: COEFF stores the k-th sum of *)
(* a batch only if k - 1 sums of it were sent before, so that the position *)
(* CORR has reached, less what is in flight, is where COEFF has got to.    *)
InFlight == Len(sums) + IF corr_write THEN 1 ELSE 0
CorrPosition == CASE corr_state = "COMPUTE"    -> 0
                  [] corr_state = "READOUT_S"  -> idx_s
                  [] corr_state = "READOUT_SQ" -> N + idx_sq
                  [] corr_state = "READOUT_P"  -> 2 * N + output_index
SumsAreAligned == (counter + InFlight - CorrPosition) % F = 0

(* correlation_tb.cpp:173 expects ITEMS*SUMPRODS - sum_e1*sum_e2: each     *)
(* coefficient is computed with the number of items of its batch.          *)
CoefficientsUseTheirSampleCount ==
    \A k \in 1 .. Len(received) :
        LET p == Pair[Service!PairOf(k)] IN
        received[k].val = Service!Pearson(Service!BatchOf(k), p[1], p[2], numberItems)
=============================================================================
