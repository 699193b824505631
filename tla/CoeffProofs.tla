----------------------------- MODULE CoeffProofs -----------------------------
(***************************************************************************)
(* COEFF stores the sums of one batch at a time, and every coefficient it  *)
(* reads out is that of the pair of lanes its index stands for, for every  *)
(* N, word width and stream depth below the number of sums of a batch.     *)
(***************************************************************************)
EXTENDS CoeffCorrect, PairProofs, SequenceTheorems

CoeffInv == /\ CoeffTypeOK
            /\ batch \in Batches /\ sent \in 0 .. F - 1 /\ Len(src) <= Depth
            /\ StreamIsFramed /\ FillsWithOneBatch /\ MemoriesHoldOneBatch
            /\ WalkAgreesWithIndex /\ CoefficientsAtTheirIndex
            /\ LastMarksTheFinalCoefficient

USE ParameterAssumption, BatchesAssumption

LEMMA CoeffSizes ==
    /\ N \in Nat /\ N >= 2 /\ P \in Nat /\ P >= 1 /\ W \in Nat /\ W >= 1 /\ U \in Nat /\ U >= 1
    /\ F \in Nat /\ F = 2 * N + P /\ Depth \in Nat /\ Depth < F
    /\ 0 \in Lanes /\ 1 \in Lanes /\ 0 \in Pairs /\ 0 \in Words /\ 0 \in Counts
  BY FirstPair DEF F, Lanes, Pairs, Words, Counts

LEMMA BatchValues ==
    \A b \in Batches, i \in 0 .. F - 1 : b[i] \in Words
  OBVIOUS

(* An invocation's first step: the pending coefficient goes out. *)
LEMMA CoeffFlushType ==
    ASSUME CoeffTypeOK, Flush
    PROVE  dst' \in Seq(CoeffFlit)
<1>1. [last |-> last, val |-> coeff_value] \in CoeffFlit
  BY DEF CoeffTypeOK, CoeffFlit
<1>2. dst \in Seq(CoeffFlit)
  BY DEF CoeffTypeOK
<1> QED BY <1>1, <1>2, AppendProperties DEF Flush

LEMMA FlushLowersLast ==
    ASSUME CoeffInv PROVE FlushedLast = FALSE
  BY DEF CoeffInv, LastMarksTheFinalCoefficient, FlushedLast, CoeffTypeOK
-----------------------------------------------------------------------------
LEMMA InitCoeffInv == Init => CoeffInv
<1> SUFFICES ASSUME Init PROVE CoeffInv
  OBVIOUS
<1> USE DEF Init, CoeffInit
<1>1. CoeffTypeOK
  <2>1. src \in Seq(SumFlit) /\ dst \in Seq(CoeffFlit)
    BY EmptySeq
  <2>2. coeff \in [Pairs -> Coeffs] /\ coeff_value \in Coeffs
    BY CoefficientType
  <2>3. counter \in 0 .. F - 1
    BY CoeffSizes
  <2> QED BY <2>1, <2>2, <2>3, CoeffSizes DEF CoeffTypeOK
<1>2. batch \in Batches /\ sent \in 0 .. F - 1 /\ Len(src) <= Depth
  BY CoeffSizes
<1>3. StreamIsFramed /\ FillsWithOneBatch
  BY CoeffSizes DEF StreamIsFramed, FillsWithOneBatch
<1>4. MemoriesHoldOneBatch /\ CoefficientsAtTheirIndex /\ LastMarksTheFinalCoefficient
  BY DEF MemoriesHoldOneBatch, CoefficientsAtTheirIndex, LastMarksTheFinalCoefficient
<1>5. WalkAgreesWithIndex
  BY FirstPair DEF WalkAgreesWithIndex
<1> QED BY <1>1, <1>2, <1>3, <1>4, <1>5 DEF CoeffInv

(* FEED stores the sum it reads at position counter and nowhere else. *)
LEMMA FeedSumStores ==
    ASSUME CoeffTypeOK, FeedSum
    PROVE  /\ \A i \in 0 .. F - 1 :
                Stored(i)' = IF i = counter THEN Head(src).val ELSE Stored(i)
           /\ mem_e' \in [Lanes -> Words] /\ mem_sq' \in [Lanes -> Words]
           /\ mem_p' \in [Pairs -> Words]
<1>1. Head(src).val \in Words
  <2>1. Head(src) \in SumFlit
    BY HeadTailProperties DEF CoeffTypeOK, FeedSum
  <2> QED BY <2>1 DEF SumFlit
<1>2. counter \in 0 .. F - 1 /\ mem_e \in [Lanes -> Words] /\ mem_sq \in [Lanes -> Words]
      /\ mem_p \in [Pairs -> Words]
  BY DEF CoeffTypeOK
<1>3. CASE counter < N
  <2>1. mem_e' = [mem_e EXCEPT ![counter] = Head(src).val] /\ mem_sq' = mem_sq /\ mem_p' = mem_p
        /\ counter \in Lanes
    BY <1>2, <1>3, CoeffSizes DEF FeedSum, InSquares, Lanes
  <2> HIDE DEF FeedSum
  <2> QED BY <2>1, <1>1, <1>2, <1>3, CoeffSizes DEF Stored, Lanes
<1>4. CASE counter \in N .. 2 * N - 1
  <2>1. mem_sq' = [mem_sq EXCEPT ![counter - N] = Head(src).val] /\ mem_e' = mem_e /\ mem_p' = mem_p
        /\ counter - N \in Lanes
    BY <1>2, <1>4, CoeffSizes DEF FeedSum, InSquares, Lanes
  <2> HIDE DEF FeedSum
  <2> QED BY <2>1, <1>1, <1>2, <1>4, CoeffSizes DEF Stored, Lanes
<1>5. CASE counter >= 2 * N
  <2>1. mem_p' = [mem_p EXCEPT ![counter - 2 * N] = Head(src).val] /\ mem_e' = mem_e /\ mem_sq' = mem_sq
        /\ counter - 2 * N \in Pairs
    BY <1>2, <1>5, CoeffSizes DEF FeedSum, InSquares, Pairs
  <2> HIDE DEF FeedSum
  <2> QED BY <2>1, <1>1, <1>2, <1>5, CoeffSizes DEF Stored, Lanes, Pairs
<1> QED BY <1>2, <1>3, <1>4, <1>5, CoeffSizes

LEMMA FeedSumCoeffInv ==
    ASSUME CoeffInv, FeedSum, UNCHANGED <<batch, sent>>
    PROVE  CoeffInv'
<1> DEFINE h == Head(src)
<1>1. /\ CoeffTypeOK /\ counter \in 0 .. F - 1 /\ state = "FEED"
      /\ src \in Seq(SumFlit) /\ src # << >> /\ Len(src) \in Nat \ {0} /\ Len(src) <= Depth
  BY DEF CoeffInv, CoeffTypeOK, FeedSum
<1>2. /\ src' = Tail(src) /\ src' \in Seq(SumFlit) /\ Len(src') = Len(src) - 1
      /\ h = src[1] /\ h \in SumFlit
      /\ \A j \in 1 .. Len(src) - 1 : src'[j] = src[j + 1]
  BY <1>1, HeadTailProperties DEF FeedSum
<1>3. h.last <=> counter + 1 = F
  BY <1>1, <1>2 DEF CoeffInv, StreamIsFramed
<1>4. counter + 1 = F => state' = "SETTLE1" /\ counter' = 0
  BY <1>3 DEF FeedSum
<1>5. counter + 1 # F => state' = "FEED" /\ counter' = counter + 1
  BY <1>1, <1>3 DEF FeedSum
<1>6. counter' \in 0 .. F - 1
  BY <1>1, <1>4, <1>5, CoeffSizes
<1>7. last' = FALSE /\ write' = FALSE /\ UNCHANGED <<samples_number, counter_rd, row, col,
                                                     index, coeff, coeff_value>>
  BY FlushLowersLast DEF FeedSum
<1>8. CoeffTypeOK'
  <2>1. state' \in {"FEED", "SETTLE1"} BY <1>4, <1>5
  <2>2. dst' \in Seq(CoeffFlit) BY <1>1, CoeffFlushType DEF FeedSum
  <2> QED BY <1>1, <1>2, <1>6, <1>7, <2>1, <2>2, FeedSumStores DEF CoeffTypeOK
<1>9. StreamIsFramed'
  <2>1. sent = IF counter + Len(src) < F THEN counter + Len(src) ELSE counter + Len(src) - F
    BY DEF CoeffInv, StreamIsFramed
  <2>2. \A j \in 1 .. Len(src) : src[j].last <=> counter + j = F
    BY DEF CoeffInv, StreamIsFramed
  <2>3. \A j \in 1 .. Len(src') : src'[j].last <=> counter' + j = F
    <3> SUFFICES ASSUME NEW j \in 1 .. Len(src') PROVE src'[j].last <=> counter' + j = F
      OBVIOUS
    <3>1. j + 1 \in 1 .. Len(src) /\ src'[j] = src[j + 1] BY <1>1, <1>2
    <3>2. src'[j].last <=> counter + (j + 1) = F BY <2>2, <3>1
    <3>3. counter + 1 = F => counter' + j # F /\ counter + (j + 1) # F
      BY <1>1, <1>2, <1>4, CoeffSizes
    <3>4. counter + 1 # F => (counter' + j = F <=> counter + (j + 1) = F)
      BY <1>1, <1>2, <1>5, CoeffSizes
    <3> QED BY <3>2, <3>3, <3>4
  <2>4. sent' = IF counter' + Len(src') < F THEN counter' + Len(src') ELSE counter' + Len(src') - F
    <3>1. CASE counter + 1 = F
      BY <3>1, <1>1, <1>2, <1>4, <2>1, CoeffSizes
    <3>2. CASE counter + 1 # F
      BY <3>2, <1>1, <1>2, <1>5, <2>1, CoeffSizes
    <3> QED BY <3>1, <3>2
  <2>5. state' # "FEED" => counter' = 0 BY <1>4, <1>5
  <2> QED BY <2>3, <2>4, <2>5 DEF StreamIsFramed
<1>10. PICK b \in Batches :
          /\ \A i \in 0 .. counter - 1 : Stored(i) = b[i]
          /\ \A j \in 1 .. Len(src) :
                src[j].val = IF counter + j <= F THEN b[counter + j - 1]
                                                 ELSE batch[counter + j - 1 - F]
          /\ counter + Len(src) < F => b = batch
  BY <1>1 DEF CoeffInv, FillsWithOneBatch
<1>11. h.val = b[counter]
  <2>1. 1 \in 1 .. Len(src) /\ counter + 1 <= F /\ counter + 1 - 1 = counter
    BY <1>1, CoeffSizes
  <2>2. src[1].val = b[counter + 1 - 1]
    BY <1>10, <2>1
  <2> QED BY <2>1, <2>2, <1>2
<1>12. \A i \in 0 .. counter : Stored(i)' = b[i]
  <2> SUFFICES ASSUME NEW i \in 0 .. counter PROVE Stored(i)' = b[i]
    OBVIOUS
  <2>1. i \in 0 .. F - 1 /\ (i # counter => i \in 0 .. counter - 1)
    BY <1>1, CoeffSizes
  <2>2. i # counter => Stored(i) = b[i]
    BY <1>10, <2>1
  <2>3. Stored(i)' = IF i = counter THEN h.val ELSE Stored(i)
    BY <1>1, <2>1, FeedSumStores
  <2> QED BY <2>2, <2>3, <1>11
<1>13. \A j \in 1 .. Len(src') : src'[j] = src[j + 1] /\ j + 1 \in 1 .. Len(src)
  BY <1>1, <1>2
<1>14. FillsWithOneBatch' /\ MemoriesHoldOneBatch'
  <2>1. CASE counter + 1 = F
    <3>1. \A i \in 0 .. F - 1 : Stored(i)' = b[i] BY <1>12, <1>1, <2>1
    <3>2. \A j \in 1 .. Len(src') : src'[j].val = batch[j - 1]
      <4> SUFFICES ASSUME NEW j \in 1 .. Len(src') PROVE src'[j].val = batch[j - 1]
        OBVIOUS
      <4>1. src'[j].val = batch[counter + (j + 1) - 1 - F]
        <5>1. src[j + 1].val = IF counter + (j + 1) <= F THEN b[counter + (j + 1) - 1]
                                                         ELSE batch[counter + (j + 1) - 1 - F]
          BY <1>10, <1>13
        <5>2. ~(counter + (j + 1) <= F) BY <2>1, <1>1, <1>2, CoeffSizes
        <5> QED BY <5>1, <5>2, <1>13
      <4>2. counter + (j + 1) - 1 - F = j - 1 BY <2>1, <1>1
      <4> QED BY <4>1, <4>2
    <3>3. \A j \in 1 .. Len(src') : counter' + j <= F /\ counter' + j - 1 = j - 1
      BY <1>1, <1>2, <1>4, <2>1, CoeffSizes
    <3>4. FillsWithOneBatch'
      <4>1. batch \in Batches /\ batch' = batch BY DEF CoeffInv
      <4>2. state' # "FEED" BY <1>4, <2>1
      <4>3. \A j \in 1 .. Len(src') :
               src'[j].val = IF counter' + j <= F THEN batch[counter' + j - 1]
                                                  ELSE batch'[counter' + j - 1 - F]
        BY <3>2, <3>3
      <4> QED BY <4>1, <4>2, <4>3 DEF FillsWithOneBatch
    <3> QED BY <3>1, <3>4 DEF MemoriesHoldOneBatch
  <2>2. CASE counter + 1 # F
    <3>1. counter' = counter + 1 /\ state' = "FEED" BY <1>5, <2>2
    <3>2. \A i \in 0 .. counter' - 1 : Stored(i)' = b[i] BY <1>12, <3>1, <1>1
    <3>3. \A j \in 1 .. Len(src') :
             src'[j].val = IF counter' + j <= F THEN b[counter' + j - 1]
                                                ELSE batch[counter' + j - 1 - F]
      <4> SUFFICES ASSUME NEW j \in 1 .. Len(src')
                   PROVE  src'[j].val = IF counter' + j <= F THEN b[counter' + j - 1]
                                                             ELSE batch[counter' + j - 1 - F]
        OBVIOUS
      <4>1. src'[j].val = IF counter + (j + 1) <= F THEN b[counter + (j + 1) - 1]
                                                    ELSE batch[counter + (j + 1) - 1 - F]
        BY <1>10, <1>13
      <4>2. counter + (j + 1) = counter' + j
            /\ counter + (j + 1) - 1 = counter' + j - 1
            /\ counter + (j + 1) - 1 - F = counter' + j - 1 - F
        BY <3>1, <1>1, <1>2, CoeffSizes
      <4> QED BY <4>1, <4>2
    <3>4. counter' + Len(src') < F => b = batch BY <1>1, <1>2, <1>10, <3>1
    <3>5. batch' = batch OBVIOUS
    <3>6. FillsWithOneBatch' BY <3>2, <3>3, <3>4, <3>5 DEF FillsWithOneBatch
    <3> QED BY <3>1, <3>6 DEF MemoriesHoldOneBatch
  <2> QED BY <2>1, <2>2
<1>15. WalkAgreesWithIndex' /\ CoefficientsAtTheirIndex' /\ LastMarksTheFinalCoefficient'
  <2>1. state' # "COMPUTE" /\ state' # "READOUT" BY <1>4, <1>5
  <2> QED BY <1>1, <1>7, <2>1
          DEF CoeffInv, WalkAgreesWithIndex, IsPair, TwiceIndex, CoefficientsAtTheirIndex,
              LastMarksTheFinalCoefficient
<1> QED BY <1>2, <1>1, <1>8, <1>9, <1>14, <1>15, CoeffSizes DEF CoeffInv
-----------------------------------------------------------------------------
(* The part of the invariant about the stream and the memories survives a  *)
(* step that touches neither and leaves FEED alone.                        *)
LEMMA StreamInvFrame ==
    ASSUME CoeffInv, state' = "FEED" => state = "FEED", counter' = counter,
           state # "FEED" \/ state' = "FEED",
           UNCHANGED <<src, mem_e, mem_sq, mem_p, batch, sent>>
    PROVE  /\ batch' \in Batches /\ sent' \in 0 .. F - 1 /\ Len(src') <= Depth
           /\ StreamIsFramed' /\ FillsWithOneBatch' /\ MemoriesHoldOneBatch'
  BY DEF CoeffInv, StreamIsFramed, FillsWithOneBatch, MemoriesHoldOneBatch, Stored

LEMMA FeedIdleCoeffInv ==
    ASSUME CoeffInv, FeedIdle, UNCHANGED <<batch, sent>>
    PROVE  CoeffInv'
<1>1. dst' \in Seq(CoeffFlit)
  BY CoeffFlushType DEF CoeffInv, FeedIdle
<1>2. last' = FALSE
  BY FlushLowersLast DEF FeedIdle
<1>3. CoeffTypeOK'
  BY <1>1, <1>2 DEF CoeffInv, CoeffTypeOK, FeedIdle
<1>4. /\ batch' \in Batches /\ sent' \in 0 .. F - 1 /\ Len(src') <= Depth
      /\ StreamIsFramed' /\ FillsWithOneBatch' /\ MemoriesHoldOneBatch'
  BY StreamInvFrame DEF FeedIdle
<1>5. WalkAgreesWithIndex' /\ CoefficientsAtTheirIndex' /\ LastMarksTheFinalCoefficient'
  BY <1>2 DEF CoeffInv, FeedIdle, WalkAgreesWithIndex, IsPair, TwiceIndex,
              CoefficientsAtTheirIndex, LastMarksTheFinalCoefficient
<1> QED BY <1>3, <1>4, <1>5 DEF CoeffInv

LEMMA SettleCoeffInv ==
    ASSUME CoeffInv, Settle, UNCHANGED <<batch, sent>>
    PROVE  CoeffInv'
<1>1. dst' \in Seq(CoeffFlit)
  BY CoeffFlushType DEF CoeffInv, Settle
<1>2. last' = FALSE
  BY FlushLowersLast DEF Settle
<1>3. CoeffTypeOK'
  BY <1>1, <1>2 DEF CoeffInv, CoeffTypeOK, Settle
<1>4. /\ batch' \in Batches /\ sent' \in 0 .. F - 1 /\ Len(src') <= Depth
      /\ StreamIsFramed' /\ FillsWithOneBatch' /\ MemoriesHoldOneBatch'
  BY StreamInvFrame DEF Settle
<1>5. WalkAgreesWithIndex' /\ row = 0 /\ col = 1 /\ index = 0
  BY DEF CoeffInv, Settle, WalkAgreesWithIndex, IsPair, TwiceIndex
<1>6. CoefficientsAtTheirIndex' /\ LastMarksTheFinalCoefficient'
  <2>1. \A k \in Pairs : ~(k < index') BY <1>5 DEF Settle, Pairs
  <2> QED BY <1>2, <2>1 DEF Settle, CoefficientsAtTheirIndex, CoefficientsUpTo,
                            LastMarksTheFinalCoefficient
<1> QED BY <1>3, <1>4, <1>5, <1>6 DEF CoeffInv

(* The coefficient of this invocation, and the ones before it. *)
LEMMA ComputeCoefficients ==
    ASSUME CoeffInv, Compute
    PROVE  \A k \in Pairs, r, c \in Lanes :
              k <= index /\ IsPair(k, r, c)
                => \E n \in Counts : coeff'[k] = FromStored(n, r, c, k)
<1> SUFFICES ASSUME NEW k \in Pairs, NEW r \in Lanes, NEW c \in Lanes,
                    k <= index, IsPair(k, r, c)
             PROVE  \E n \in Counts : coeff'[k] = FromStored(n, r, c, k)
  OBVIOUS
<1>1. index \in Pairs /\ index < P /\ IsPair(index, row, col) /\ samples_number \in Counts
      /\ coeff \in [Pairs -> Coeffs]
  BY CoeffSizes DEF CoeffInv, CoeffTypeOK, WalkAgreesWithIndex, Pairs
<1>2. coeff' = [coeff EXCEPT ![index] = PairCoefficient]
  BY <1>1 DEF Compute
<1>3. CASE k < index
  <2>1. \E n \in Counts : coeff[k] = FromStored(n, r, c, k)
    BY <1>3 DEF CoeffInv, CoefficientsAtTheirIndex, CoefficientsUpTo, Compute
  <2>2. coeff'[k] = coeff[k] BY <1>1, <1>2, <1>3 DEF Pairs
  <2> QED BY <2>1, <2>2
<1>4. CASE k = index
  <2>1. r = row /\ c = col BY <1>1, <1>4, IndexInjective DEF IsPair
  <2>2. coeff'[k] = FromStored(samples_number, r, c, k)
    BY <1>1, <1>2, <1>4, <2>1 DEF PairCoefficient, FromStored
  <2> QED BY <1>1, <2>2
<1> QED BY <1>1, <1>3, <1>4 DEF Pairs

LEMMA PairCoefficientType ==
    ASSUME CoeffTypeOK PROVE PairCoefficient \in Coeffs
<1>1. /\ samples_number \in Counts /\ mem_e[row] \in Words /\ mem_e[col] \in Words
      /\ mem_sq[row] \in Words /\ mem_sq[col] \in Words /\ mem_p[index] \in Words
  BY DEF CoeffTypeOK
<1> QED BY <1>1, CoefficientType DEF PairCoefficient

(* The walk ends exactly with the last index. *)
LEMMA WalkEnds ==
    ASSUME CoeffInv
    PROVE  LET q == NextPair(row, col) IN
           /\ index + 1 = P => Done(q[1])
           /\ index + 1 # P => ~Done(q[1]) /\ index + 1 \in Pairs /\ IsPair(index + 1, q[1], q[2])
<1>1. index \in Nat /\ index < P /\ IsPair(index, row, col)
  BY CoeffSizes DEF CoeffInv, CoeffTypeOK, WalkAgreesWithIndex, Pairs
<1> QED BY <1>1, WalkEndsAtP DEF Done

LEMMA ComputeCoeffInv ==
    ASSUME CoeffInv, Compute, UNCHANGED <<batch, sent>>
    PROVE  CoeffInv'
<1> DEFINE q == NextPair(row, col)
<1>1. index \in Nat /\ index < P /\ CoeffTypeOK /\ state = "COMPUTE"
  BY CoeffSizes DEF CoeffInv, CoeffTypeOK, Pairs, Compute
<1>2. dst' \in Seq(CoeffFlit)
  BY CoeffFlushType DEF CoeffInv, Compute
<1>3. last' = FALSE /\ write' = FALSE
  BY FlushLowersLast DEF Compute
<1>4. coeff' \in [Pairs -> Coeffs]
  BY <1>1, PairCoefficientType DEF Compute, CoeffTypeOK
<1>5. /\ index + 1 = P => row' = 0 /\ col' = 1 /\ index' = 0 /\ state' = "READOUT"
      /\ index + 1 # P => row' = q[1] /\ col' = q[2] /\ index' = index + 1 /\ state' = "COMPUTE"
  BY <1>1, WalkEnds DEF Compute
<1>6. IsPair(index', row', col') /\ index' \in Pairs
  BY <1>1, <1>5, WalkEnds, FirstPair, CoeffSizes
<1>7. CoeffTypeOK'
  <2>1. row' \in Lanes /\ col' \in Lanes /\ state' \in {"COMPUTE", "READOUT"}
    BY <1>5, <1>6 DEF IsPair
  <2> QED BY <1>2, <1>3, <1>4, <1>6, <2>1 DEF CoeffInv, CoeffTypeOK, Compute
<1>8. /\ batch' \in Batches /\ sent' \in 0 .. F - 1 /\ Len(src') <= Depth
      /\ StreamIsFramed' /\ FillsWithOneBatch' /\ MemoriesHoldOneBatch'
  BY <1>5, StreamInvFrame DEF Compute
<1>9. WalkAgreesWithIndex'
  BY <1>5, <1>6 DEF WalkAgreesWithIndex
<1>10. \A k \in Pairs, r, c \in Lanes :
          k <= index /\ IsPair(k, r, c)
            => \E n \in Counts : coeff'[k] = FromStored(n, r, c, k)
  BY ComputeCoefficients
<1>11. \A n, r, c, k : FromStored(n, r, c, k)' = FromStored(n, r, c, k)
  BY DEF FromStored, Compute
<1>12. CoefficientsAtTheirIndex'
  <2>1. state' = "COMPUTE" => CoefficientsUpTo(index)'
    <3>1. state' = "COMPUTE" => \A k \in Pairs : k < index' => k <= index
      BY <1>1, <1>5 DEF Pairs
    <3> QED BY <3>1, <1>10 DEF CoefficientsUpTo, FromStored, Compute
  <2>2. state' = "READOUT" => CoefficientsUpTo(P)'
    <3>1. state' = "READOUT" => \A k \in Pairs : k <= index
      BY <1>1, <1>5, CoeffSizes DEF Pairs
    <3> QED BY <3>1, <1>10 DEF CoefficientsUpTo, FromStored, Compute
  <2> QED BY <2>1, <2>2 DEF CoefficientsAtTheirIndex
<1>13. LastMarksTheFinalCoefficient'
  BY <1>3 DEF LastMarksTheFinalCoefficient
<1> QED BY <1>7, <1>8, <1>9, <1>12, <1>13 DEF CoeffInv

LEMMA ReadoutCoeffInv ==
    ASSUME CoeffInv, Readout, UNCHANGED <<batch, sent>>
    PROVE  CoeffInv'
<1>1. dst' \in Seq(CoeffFlit)
  BY CoeffFlushType DEF CoeffInv, Readout
<1>2. counter_rd \in 0 .. P - 1 /\ P \in Nat
  BY DEF CoeffInv, CoeffTypeOK, Pairs
<1>3. /\ counter_rd + 1 = P => state' = "FEED" /\ counter_rd' = 0 /\ last' = TRUE
      /\ counter_rd + 1 # P => state' = "READOUT" /\ counter_rd' = counter_rd + 1 /\ last' = FALSE
  BY DEF Readout
<1>4. counter_rd' \in Pairs
  BY <1>2, <1>3, CoeffSizes DEF Pairs
<1>5. CoeffTypeOK'
  BY <1>1, <1>3, <1>4 DEF CoeffInv, CoeffTypeOK, Readout
<1>6. /\ batch' \in Batches /\ sent' \in 0 .. F - 1 /\ Len(src') <= Depth
      /\ StreamIsFramed' /\ MemoriesHoldOneBatch'
  BY <1>3 DEF CoeffInv, Readout, StreamIsFramed, MemoriesHoldOneBatch, Stored
<1>7. counter = 0
  BY DEF CoeffInv, StreamIsFramed, Readout
<1>8. FillsWithOneBatch'
  BY <1>7 DEF CoeffInv, Readout, FillsWithOneBatch
<1>9. WalkAgreesWithIndex' /\ LastMarksTheFinalCoefficient'
  BY <1>3 DEF CoeffInv, Readout, WalkAgreesWithIndex, IsPair, TwiceIndex,
              LastMarksTheFinalCoefficient
<1>10. CoefficientsAtTheirIndex'
  BY <1>3 DEF CoeffInv, Readout, CoefficientsAtTheirIndex, CoefficientsUpTo, FromStored
<1> QED BY <1>5, <1>6, <1>8, <1>9, <1>10 DEF CoeffInv
-----------------------------------------------------------------------------
(* CORR sends the next sum. *)
LEMMA FeedCoeffInv ==
    ASSUME CoeffInv, Feed
    PROVE  CoeffInv'
<1> DEFINE f == [last |-> sent + 1 = F, val |-> batch[sent]]
           n == Len(src)
<1>1. /\ CoeffTypeOK /\ counter \in 0 .. F - 1 /\ sent \in 0 .. F - 1 /\ batch \in Batches
      /\ src \in Seq(SumFlit) /\ n \in Nat /\ n < Depth
  BY DEF CoeffInv, CoeffTypeOK, Feed
<1>2. f \in SumFlit
  BY <1>1, BatchValues DEF SumFlit
<1>3. /\ src' = Append(src, f) /\ src' \in Seq(SumFlit) /\ Len(src') = n + 1
      /\ src'[n + 1] = f
      /\ \A j \in 1 .. n : src'[j] = src[j]
  BY <1>1, <1>2, AppendProperties DEF Feed
<1>4. /\ sent + 1 = F => sent' = 0 /\ batch' \in Batches
      /\ sent + 1 # F => sent' = sent + 1 /\ batch' = batch
  BY DEF Feed
<1>5. UNCHANGED <<dst, samples_number, coeffState>>
  BY DEF Feed
<1>6. sent = IF counter + n < F THEN counter + n ELSE counter + n - F
  BY DEF CoeffInv, StreamIsFramed
<1>7. CoeffTypeOK' /\ sent' \in 0 .. F - 1 /\ batch' \in Batches /\ Len(src') <= Depth
  BY <1>1, <1>3, <1>4, <1>5, CoeffSizes DEF CoeffTypeOK, coeffState
<1>8. \A j \in 1 .. Len(src') : j \in 1 .. n \/ j = n + 1
  BY <1>1, <1>3
<1>9. StreamIsFramed'
  <2>1. \A j \in 1 .. n : src[j].last <=> counter + j = F
    BY DEF CoeffInv, StreamIsFramed
  <2>2. f.last <=> counter + (n + 1) = F
    BY <1>1, <1>6, CoeffSizes
  <2>3. \A j \in 1 .. Len(src') : src'[j].last <=> counter + j = F
    BY <1>3, <1>8, <2>1, <2>2
  <2>4. sent' = IF counter + (n + 1) < F THEN counter + (n + 1) ELSE counter + (n + 1) - F
    BY <1>1, <1>4, <1>6, CoeffSizes
  <2> QED BY <1>3, <1>5, <2>3, <2>4 DEF CoeffInv, StreamIsFramed, coeffState
<1>10. FillsWithOneBatch'
  <2>1. PICK b \in Batches :
          /\ state = "FEED" => \A i \in 0 .. counter - 1 : Stored(i) = b[i]
          /\ \A j \in 1 .. n :
                src[j].val = IF counter + j <= F THEN b[counter + j - 1]
                                                 ELSE batch[counter + j - 1 - F]
          /\ counter + n < F => b = batch
    BY DEF CoeffInv, FillsWithOneBatch
  <2>2. state' = "FEED" => \A i \in 0 .. counter' - 1 : Stored(i)' = b[i]
    BY <1>5, <2>1 DEF Stored, coeffState
  <2>3. f.val = IF counter + (n + 1) <= F THEN b[counter + (n + 1) - 1]
                                          ELSE batch[counter + (n + 1) - 1 - F]
    <3>1. CASE counter + n < F
      <4>1. counter + (n + 1) <= F /\ counter + (n + 1) - 1 = sent /\ b = batch
        BY <3>1, <1>1, <1>6, <2>1, CoeffSizes
      <4> QED BY <4>1
    <3>2. CASE ~(counter + n < F)
      <4>1. ~(counter + (n + 1) <= F) /\ counter + (n + 1) - 1 - F = sent
        BY <3>2, <1>1, <1>6, CoeffSizes
      <4> QED BY <4>1
    <3> QED BY <3>1, <3>2
  <2>4. \A j \in 1 .. Len(src') :
           src'[j].val = IF counter + j <= F THEN b[counter + j - 1]
                                             ELSE batch[counter + j - 1 - F]
    BY <1>3, <1>8, <2>1, <2>3
  <2>5. \A j \in 1 .. Len(src') : counter + j <= F \/ batch' = batch
    BY <1>1, <1>3, <1>4, <1>6, CoeffSizes
  <2>6. counter + (n + 1) < F => b = batch /\ batch' = batch
    BY <1>1, <1>4, <1>6, <2>1, CoeffSizes
  <2>7. counter' = counter BY <1>5 DEF coeffState
  <2>8. \A j \in 1 .. Len(src') :
           src'[j].val = IF counter' + j <= F THEN b[counter' + j - 1]
                                              ELSE batch'[counter' + j - 1 - F]
    BY <2>4, <2>5, <2>7
  <2> QED BY <1>3, <2>2, <2>6, <2>7, <2>8 DEF FillsWithOneBatch
<1>11. /\ MemoriesHoldOneBatch' /\ WalkAgreesWithIndex' /\ CoefficientsAtTheirIndex'
       /\ LastMarksTheFinalCoefficient'
  BY <1>5 DEF CoeffInv, coeffState, MemoriesHoldOneBatch, Stored, WalkAgreesWithIndex, IsPair,
              TwiceIndex, CoefficientsAtTheirIndex, CoefficientsUpTo, FromStored,
              LastMarksTheFinalCoefficient
<1> QED BY <1>7, <1>9, <1>10, <1>11 DEF CoeffInv

(* The other neighbours, and stuttering. *)
LEMMA EnvironmentCoeffInv ==
    ASSUME CoeffInv, SetSamples \/ Drain \/ UNCHANGED vars
    PROVE  CoeffInv'
<1>1. UNCHANGED <<src, coeffState, batch, sent>>
  BY DEF SetSamples, Drain, vars
<1>2. dst' \in Seq(CoeffFlit) /\ samples_number' \in Counts
  <2>1. dst \in Seq(CoeffFlit) /\ samples_number \in Counts
    BY DEF CoeffInv, CoeffTypeOK
  <2>2. CASE Drain BY <2>1, <2>2, HeadTailProperties DEF Drain
  <2>3. CASE SetSamples BY <2>1, <2>3 DEF SetSamples
  <2>4. CASE UNCHANGED vars BY <2>1, <2>4 DEF vars
  <2> QED BY <2>2, <2>3, <2>4
<1>3. CoeffTypeOK'
  BY <1>1, <1>2 DEF CoeffInv, CoeffTypeOK, coeffState
<1>4. batch' \in Batches /\ sent' \in 0 .. F - 1 /\ Len(src') <= Depth /\ StreamIsFramed'
  BY <1>1 DEF CoeffInv, coeffState, StreamIsFramed
<1>5. FillsWithOneBatch' /\ MemoriesHoldOneBatch'
  BY <1>1 DEF CoeffInv, coeffState, FillsWithOneBatch, MemoriesHoldOneBatch, Stored
<1>6. WalkAgreesWithIndex' /\ LastMarksTheFinalCoefficient'
  BY <1>1 DEF CoeffInv, coeffState, WalkAgreesWithIndex, IsPair, TwiceIndex,
              LastMarksTheFinalCoefficient
<1>7. CoefficientsAtTheirIndex'
  BY <1>1 DEF CoeffInv, coeffState, CoefficientsAtTheirIndex, CoefficientsUpTo, FromStored
<1> QED BY <1>3, <1>4, <1>5, <1>6, <1>7 DEF CoeffInv

LEMMA NextCoeffInv == CoeffInv /\ [Next]_vars => CoeffInv'
  BY FeedSumCoeffInv, FeedIdleCoeffInv, SettleCoeffInv, ComputeCoeffInv, ReadoutCoeffInv,
     FeedCoeffInv, EnvironmentCoeffInv
  DEF Next, AccCoeff

(* COEFF's inductive invariant holds in every reachable state. *)
THEOREM CoeffInvariant == Spec => []CoeffInv
  BY InitCoeffInv, NextCoeffInv, PTL DEF Spec

(* Type correctness: no index of COEFF ever leaves its array. *)
THEOREM CoeffTypeCorrect == Spec => []CoeffTypeOK
<1>1. CoeffInv => CoeffTypeOK BY DEF CoeffInv
<1> QED BY <1>1, CoeffInvariant, PTL

(* The sums of two batches are never mixed in the memories. *)
THEOREM MemoriesCorrect == Spec => []MemoriesHoldOneBatch
<1>1. CoeffInv => MemoriesHoldOneBatch BY DEF CoeffInv
<1> QED BY <1>1, CoeffInvariant, PTL

(* The walk over the pairs keeps in step with the index of the results. *)
THEOREM WalkCorrect == Spec => []WalkAgreesWithIndex
<1>1. CoeffInv => WalkAgreesWithIndex BY DEF CoeffInv
<1> QED BY <1>1, CoeffInvariant, PTL

(* Every coefficient read out is that of the lanes its index stands for. *)
THEOREM CoefficientsCorrect == Spec => []CoefficientsAtTheirIndex
<1>1. CoeffInv => CoefficientsAtTheirIndex BY DEF CoeffInv
<1> QED BY <1>1, CoeffInvariant, PTL
=============================================================================
