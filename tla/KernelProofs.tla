---------------------------- MODULE KernelProofs ----------------------------
(***************************************************************************)
(* The kernel as a whole, for every N, word width, stream depth and number *)
(* of items, and with nothing assumed of what COEFF is fed.  Two results.  *)
(*                                                                         *)
(* CORR and COEFF agree where a batch begins: the last flag that CORR      *)
(* raises and the count that COEFF takes back stay F sums apart however    *)
(* the four processes interleave (InStep).                                 *)
(*                                                                         *)
(* The kernel implements Correlation, which knows neither streams nor      *)
(* pipelines.  KernelInv follows every item and every sum through the five *)
(* streams: which items CORR has summed, which sums are on the way, which  *)
(* of them COEFF holds, and which coefficients have been returned.         *)
(***************************************************************************)
EXTENDS KernelCorrect, PairProofs, SequenceTheorems

LEMMA SumsOfABatch ==
    /\ N \in Nat /\ N >= 2 /\ P \in Nat /\ P >= 1
    /\ F \in Nat /\ F = 2 * N + P /\ F >= 1
    /\ 0 \in Pairs /\ Pairs = 0 .. P - 1 /\ Lanes = 0 .. N - 1
  BY ParameterAssumption, FirstPair DEF F, Lanes, Pairs

-----------------------------------------------------------------------------
(* Multiples of F.                                                         *)
LEMMA Multiple ==
    ASSUME NEW a \in Int
    PROVE  a % F = 0 <=> \E q \in Int : a = q * F
<1> USE SumsOfABatch
<1> HIDE DEF F
<1> DEFINE d == a \div F
           m == a % F
<1>1. a = F * d + m /\ m \in 0 .. F - 1 /\ d \in Int
    BY Z3
<1>2. a % F = 0 => a = d * F /\ d \in Int
    BY <1>1
<1>3. ASSUME NEW q \in Int, a = q * F PROVE m = 0
  <2>1. F * (q - d) = m
      BY <1>1, <1>3
  <2>2. q - d = 0
    <3> SUFFICES ASSUME q - d # 0 PROVE FALSE
        OBVIOUS
    <3>1. CASE q - d >= 1
      <4>1. q - d - 1 \in Nat /\ F * (q - d) = F * (q - d - 1) + F
          BY <1>1, <3>1
      <4>2. F * (q - d - 1) >= 0
          BY <4>1
      <4>3. F * (q - d) >= F
          BY <4>1, <4>2
      <4> QED BY <1>1, <2>1, <4>3
    <3>2. CASE q - d <= -1
      <4>1. F * (q - d) <= -F
          BY <1>1, <3>2
      <4>2. m <= -F /\ m >= 0 /\ F >= 1
          BY <1>1, <2>1, <4>1
      <4>3. F \in Nat /\ m \in Int BY <1>1
      <4> QED BY ONLY <4>2, <4>3
    <3> QED BY <1>1, <3>1, <3>2
  <2> QED BY <1>1, <2>1, <2>2
<1> QED BY <1>2, <1>3

LEMMA MultipleSum ==
    ASSUME NEW a \in Int, NEW b \in Int, a % F = 0
    PROVE  (a + b) % F = 0 <=> b % F = 0
<1> USE SumsOfABatch
<1> HIDE DEF F
<1>1. PICK q \in Int : a = q * F
    BY Multiple
<1>2. ASSUME NEW r \in Int, b = r * F PROVE a + b = (q + r) * F
    BY <1>1, <1>2
<1>3. ASSUME NEW r \in Int, a + b = r * F PROVE b = (r - q) * F
  <2>1. (r - q) * F = r * F - q * F
      OBVIOUS
  <2> QED BY <1>1, <1>3, <2>1
<1>4. b % F = 0 => (a + b) % F = 0
  <2> SUFFICES ASSUME b % F = 0 PROVE (a + b) % F = 0
      OBVIOUS
  <2>1. PICK r \in Int : b = r * F
      BY Multiple
  <2>2. a + b = (q + r) * F /\ q + r \in Int /\ a + b \in Int
      BY <1>2, <2>1
  <2> QED BY <2>2, Multiple
<1>5. (a + b) % F = 0 => b % F = 0
  <2> SUFFICES ASSUME (a + b) % F = 0 PROVE b % F = 0
      OBVIOUS
  <2>1. a + b \in Int
      OBVIOUS
  <2>2. PICK r \in Int : a + b = r * F
      BY <2>1, Multiple
  <2>3. b = (r - q) * F /\ r - q \in Int
      BY <1>3, <2>2
  <2> QED BY <2>3, Multiple
<1> QED BY <1>4, <1>5

LEMMA MultipleOfF ==
    /\ F % F = 0
    /\ (-F) % F = 0
    /\ \A b \in 0 .. F - 1 : b % F = 0 <=> b = 0
<1> USE SumsOfABatch
<1> HIDE DEF F
<1>1. F = 1 * F /\ F \in Int
    OBVIOUS
<1>2. -F = (-1) * F /\ -F \in Int /\ -1 \in Int
    OBVIOUS
<1>3. ASSUME NEW b \in 0 .. F - 1 PROVE b % F = b
    BY <1>3
<1> QED BY <1>1, <1>2, <1>3, Multiple

(* A step back to the beginning counts as a step on.                       *)
LEMMA WrapAround ==
    ASSUME NEW a \in Int
    PROVE  (a - F) % F = 0 <=> a % F = 0
<1>1. (-F) \in Int /\ (-F) + a = a - F
    BY SumsOfABatch
<1> QED BY <1>1, MultipleOfF, MultipleSum
-----------------------------------------------------------------------------
(* The invariant.  Beyond SumsAreAligned itself it says that a last flag   *)
(* in the stream, or waiting in CORR, marks the sum that completes what    *)
(* COEFF counts to, so that COEFF's count never passes F - 1.              *)
IsSequence(s) == \E S : s \in Seq(S)

CorrTypes ==
    /\ corr_state \in {"COMPUTE", "READOUT_S", "READOUT_SQ", "READOUT_P"}
    /\ corr_write \in BOOLEAN /\ corr_last \in BOOLEAN
    /\ idx_s \in 0 .. N - 1 /\ idx_sq \in 0 .. N - 1 /\ output_index \in 0 .. P - 1

CorrAtRest ==
    /\ corr_state # "READOUT_S"  => idx_s = 0
    /\ corr_state # "READOUT_SQ" => idx_sq = 0
    /\ corr_state # "READOUT_P"  => output_index = 0
    /\ corr_state # "COMPUTE" => ~corr_last
    /\ corr_write => (corr_last <=> CorrPosition = 0)

LastEndsTheCount ==
    \A k \in 1 .. Len(sums) : sums[k].last <=> (counter + k) % F = 0

AlignInv == /\ IsSequence(sums) /\ CorrTypes /\ CorrAtRest
            /\ counter \in 0 .. F - 1 /\ SumsAreAligned /\ LastEndsTheCount

LEMMA InitAlignInv == Init => AlignInv
<1> SUFFICES ASSUME Init PROVE AlignInv
    OBVIOUS
<1> USE SumsOfABatch
<1>1. sums = << >> /\ counter = 0 /\ corr_state = "COMPUTE" /\ idx_s = 0 /\ idx_sq = 0
      /\ output_index = 0 /\ corr_write = FALSE /\ corr_last = FALSE
    BY DEF Init, CORR!CorrInit, COEFF!CoeffInit
<1>2. IsSequence(sums) /\ Len(sums) = 0
  <2>1. sums \in Seq({})
      BY <1>1
  <2> QED BY <1>1, <2>1 DEF IsSequence
<1>3. CorrPosition = 0 /\ InFlight = 0
    BY <1>1, <1>2 DEF CorrPosition, InFlight
<1>4. (counter + InFlight - CorrPosition) % F = 0
  <2>1. counter + InFlight - CorrPosition = 0
      BY <1>1, <1>3
  <2>2. 0 % F = 0
      BY MultipleOfF
  <2> QED BY <2>1, <2>2
<1>5. CorrTypes /\ counter \in 0 .. F - 1
  <2>1. corr_write \in BOOLEAN /\ corr_last \in BOOLEAN
      BY <1>1
  <2>2. counter \in 0 .. F - 1 /\ idx_s \in 0 .. N - 1 /\ idx_sq \in 0 .. N - 1
        /\ output_index \in 0 .. P - 1
      BY <1>1
  <2> QED BY <1>1, <2>1, <2>2 DEF CorrTypes
<1>6. CorrAtRest
    BY <1>1 DEF CorrAtRest
<1>7. LastEndsTheCount
    BY <1>2 DEF LastEndsTheCount
<1> QED BY <1>2, <1>4, <1>5, <1>6, <1>7 DEF AlignInv, SumsAreAligned

(* What an invocation of CORR does to its position: it writes what is      *)
(* waiting, and then one more sum is waiting, or none is.                  *)
Moved == /\ CorrTypes' /\ CorrAtRest'
         /\ CorrPosition' = IF corr_write'
                            THEN IF CorrPosition + 1 = F THEN 0 ELSE CorrPosition + 1
                            ELSE CorrPosition

LEMMA PositionInRange == ASSUME CorrTypes PROVE CorrPosition \in 0 .. F - 1
<1> USE SumsOfABatch DEF CorrTypes
<1>1. CASE corr_state = "COMPUTE"
    BY <1>1 DEF CorrPosition
<1>2. CASE corr_state = "READOUT_S"
    BY <1>2 DEF CorrPosition
<1>3. CASE corr_state = "READOUT_SQ"
    BY <1>3 DEF CorrPosition
<1>4. CASE corr_state = "READOUT_P"
    BY <1>4 DEF CorrPosition
<1> QED BY <1>1, <1>2, <1>3, <1>4

LEMMA ComputeMoves ==
    ASSUME CorrTypes, CorrAtRest, CORR!ComputeItem \/ CORR!ComputeIdle PROVE Moved
<1> USE SumsOfABatch
<1>1. /\ corr_state = "COMPUTE" /\ corr_state' \in {"COMPUTE", "READOUT_S"}
      /\ corr_write' = FALSE /\ corr_last' = FALSE
      /\ idx_s' = idx_s /\ idx_sq' = idx_sq /\ output_index' = output_index
    BY DEF CORR!ComputeItem, CORR!ComputeIdle
<1>2. idx_s = 0 /\ idx_sq = 0 /\ output_index = 0
    BY <1>1 DEF CorrAtRest
<1>3. CorrPosition = 0 /\ CorrPosition' = 0
    BY <1>1, <1>2 DEF CorrPosition
<1>4. CorrTypes' /\ CorrAtRest'
    BY <1>1, <1>2 DEF CorrTypes, CorrAtRest
<1> QED BY <1>1, <1>3, <1>4 DEF Moved

LEMMA ReadoutSMoves ==
    ASSUME CorrTypes, CorrAtRest, CORR!ReadoutS PROVE Moved
<1> USE SumsOfABatch
<1>1. /\ corr_state = "READOUT_S" /\ corr_write' = TRUE /\ corr_last' = corr_last
      /\ idx_s' = IF idx_s + 1 = N THEN 0 ELSE idx_s + 1
      /\ corr_state' = IF idx_s + 1 = N THEN "READOUT_SQ" ELSE corr_state
      /\ idx_sq' = idx_sq /\ output_index' = output_index
    BY DEF CORR!ReadoutS, CORR!Advance, CORR!StateAfter
<1>2. idx_sq = 0 /\ output_index = 0 /\ ~corr_last /\ idx_s \in 0 .. N - 1
    BY <1>1 DEF CorrAtRest, CorrTypes
<1>3. CorrPosition = idx_s /\ CorrPosition' = idx_s + 1
    BY <1>1, <1>2 DEF CorrPosition
<1>4. CorrTypes'
    BY <1>1, <1>2 DEF CorrTypes
<1>5. CorrAtRest'
    BY <1>1, <1>2, <1>3 DEF CorrAtRest
<1> QED BY <1>1, <1>2, <1>3, <1>4, <1>5 DEF Moved

LEMMA ReadoutSQMoves ==
    ASSUME CorrTypes, CorrAtRest, CORR!ReadoutSQ PROVE Moved
<1> USE SumsOfABatch
<1>1. /\ corr_state = "READOUT_SQ" /\ corr_write' = TRUE /\ corr_last' = corr_last
      /\ idx_sq' = IF idx_sq + 1 = N THEN 0 ELSE idx_sq + 1
      /\ corr_state' = IF idx_sq + 1 = N THEN "READOUT_P" ELSE corr_state
      /\ idx_s' = idx_s /\ output_index' = output_index
    BY DEF CORR!ReadoutSQ, CORR!Advance, CORR!StateAfter
<1>2. idx_s = 0 /\ output_index = 0 /\ ~corr_last /\ idx_sq \in 0 .. N - 1
    BY <1>1 DEF CorrAtRest, CorrTypes
<1>3. CorrPosition = N + idx_sq /\ CorrPosition' = N + idx_sq + 1
  <2>1. CorrPosition = N + idx_sq
      BY <1>1 DEF CorrPosition
  <2>2. CASE idx_sq + 1 = N
    <3>1. corr_state' = "READOUT_P" /\ output_index' = 0
        BY <1>1, <1>2, <2>2
    <3>2. CorrPosition' = 2 * N
        BY <3>1 DEF CorrPosition
    <3> QED BY <1>2, <2>1, <2>2, <3>2
  <2>3. CASE idx_sq + 1 # N
    <3>1. corr_state' = "READOUT_SQ" /\ idx_sq' = idx_sq + 1
        BY <1>1, <2>3
    <3>2. CorrPosition' = N + (idx_sq + 1)
        BY <3>1 DEF CorrPosition
    <3> QED BY <1>2, <2>1, <3>2
  <2> QED BY <2>2, <2>3
<1>4. CorrTypes'
    BY <1>1, <1>2 DEF CorrTypes
<1>5. CorrAtRest'
    BY <1>1, <1>2, <1>3 DEF CorrAtRest
<1> QED BY <1>1, <1>2, <1>3, <1>4, <1>5 DEF Moved

LEMMA ReadoutPMoves ==
    ASSUME CorrTypes, CorrAtRest, CORR!ReadoutP PROVE Moved
<1> USE SumsOfABatch
<1>1. /\ corr_state = "READOUT_P" /\ corr_write' = TRUE
      /\ corr_last' <=> output_index + 1 = P
      /\ corr_last' \in BOOLEAN
      /\ output_index' = IF output_index + 1 = P THEN 0 ELSE output_index + 1
      /\ corr_state' = IF output_index + 1 = P THEN "COMPUTE" ELSE corr_state
      /\ idx_s' = idx_s /\ idx_sq' = idx_sq
    BY DEF CORR!ReadoutP, CORR!Advance, CORR!FinalProduct
<1>2. idx_s = 0 /\ idx_sq = 0 /\ output_index \in 0 .. P - 1
    BY <1>1 DEF CorrAtRest, CorrTypes
<1>3. /\ CorrPosition = 2 * N + output_index
      /\ CorrPosition' = IF output_index + 1 = P THEN 0 ELSE 2 * N + output_index + 1
    BY <1>1, <1>2 DEF CorrPosition
<1>4. CorrTypes'
    BY <1>1, <1>2 DEF CorrTypes
<1>5. CorrAtRest'
  <2>1. CASE output_index + 1 = P
      BY <1>1, <1>2, <1>3, <2>1 DEF CorrAtRest
  <2>2. CASE output_index + 1 # P
      BY <1>1, <1>2, <1>3, <2>2 DEF CorrAtRest
  <2> QED BY <2>1, <2>2
<1> QED BY <1>1, <1>2, <1>3, <1>4, <1>5 DEF Moved

(* A sum joins the stream and the next one is read behind it.              *)
LEMMA AccumulateAlignInv ==
    ASSUME AlignInv, Accumulate PROVE AlignInv'
<1> USE SumsOfABatch
<1>1. CORR!Accumulate /\ counter' = counter /\ counter \in 0 .. F - 1 /\ CorrTypes /\ CorrAtRest
    BY DEF Accumulate, coeffVars, AlignInv
<1>2. Moved
    BY <1>1, ComputeMoves, ReadoutSMoves, ReadoutSQMoves, ReadoutPMoves DEF CORR!Accumulate
<1>3. sums' = IF corr_write THEN Append(sums, [last |-> corr_last, val |-> top_result])
                            ELSE sums
    BY <1>1 DEF CORR!Accumulate, CORR!ComputeItem, CORR!ComputeIdle, CORR!ReadoutS,
                CORR!ReadoutSQ, CORR!ReadoutP, CORR!Flush
<1>4. PICK S : sums \in Seq(S)
    BY DEF AlignInv, IsSequence
<1> DEFINE sum == [last |-> corr_last, val |-> top_result]
           S1  == S \cup {sum}
<1>5. sums \in Seq(S1)
    BY <1>4, SeqMonotonic
<1>6. sums' \in Seq(S1) /\ Len(sums) \in Nat /\ Len(sums') = InFlight /\ InFlight \in Nat
    BY <1>1, <1>3, <1>5 DEF InFlight, CorrTypes
<1>7. CorrPosition \in 0 .. F - 1 /\ CorrPosition' \in 0 .. F - 1
    BY <1>1, <1>2, PositionInRange DEF Moved
<1> DEFINE a == counter + InFlight - CorrPosition
<1>8. a \in Int /\ a % F = 0
    BY <1>1, <1>6, <1>7 DEF AlignInv, SumsAreAligned
<1>9. SumsAreAligned'
  <2>1. InFlight' = InFlight + IF corr_write' THEN 1 ELSE 0
      BY <1>6 DEF InFlight
  <2>2. CASE ~corr_write'
    <3>1. counter' + InFlight' - CorrPosition' = a
        BY <1>1, <1>2, <1>6, <2>1, <2>2 DEF Moved
    <3> QED BY <1>8, <3>1 DEF SumsAreAligned
  <2>3. CASE corr_write' /\ CorrPosition + 1 # F
    <3>1. counter' + InFlight' - CorrPosition' = a
        BY <1>1, <1>2, <1>6, <1>7, <2>1, <2>3 DEF Moved
    <3> QED BY <1>8, <3>1 DEF SumsAreAligned
  <2>4. CASE corr_write' /\ CorrPosition + 1 = F
    <3>1. counter' + InFlight' - CorrPosition' = F + a
        BY <1>1, <1>2, <1>6, <1>7, <2>1, <2>4 DEF Moved
    <3>2. (F + a) % F = 0
      <4>1. a \in Int /\ a % F = 0 /\ F \in Int /\ F % F = 0
          BY <1>8, MultipleOfF
      <4> HIDE DEF a
      <4> QED BY <4>1, MultipleSum
    <3> QED BY <3>1, <3>2 DEF SumsAreAligned
  <2> QED BY <1>1, <2>2, <2>3, <2>4
<1>10. LastEndsTheCount'
  <2> SUFFICES ASSUME NEW k \in 1 .. Len(sums')
               PROVE  sums'[k].last <=> (counter + k) % F = 0
      BY <1>1 DEF LastEndsTheCount
  <2>1. CASE k <= Len(sums)
    <3>1. sums'[k] = sums[k] /\ k \in 1 .. Len(sums)
        BY <1>3, <1>5, <1>6, <2>1
    <3> QED BY <3>1 DEF AlignInv, LastEndsTheCount
  <2>2. CASE ~(k <= Len(sums))
    <3>1. corr_write /\ k = Len(sums) + 1 /\ k = InFlight /\ sums'[k] = sum
        BY <1>1, <1>3, <1>5, <1>6, <2>2 DEF InFlight
    <3>2. counter + k = a + CorrPosition
        BY <1>1, <1>6, <1>7, <3>1
    <3>3. (counter + k) % F = 0 <=> CorrPosition % F = 0
      <4>1. a \in Int /\ a % F = 0 /\ CorrPosition \in Int
          BY <1>7, <1>8
      <4> HIDE DEF a
      <4>2. (a + CorrPosition) % F = 0 <=> CorrPosition % F = 0
          BY <4>1, MultipleSum
      <4> QED BY <3>2, <4>2
    <3>4. (counter + k) % F = 0 <=> CorrPosition = 0
        BY <1>7, <3>3, MultipleOfF
    <3> QED BY <1>1, <3>1, <3>4 DEF CorrAtRest
  <2> QED BY <2>1, <2>2
<1>11. IsSequence(sums)'
    BY <1>6 DEF IsSequence
<1> QED BY <1>1, <1>2, <1>9, <1>10, <1>11 DEF AlignInv, Moved

(* COEFF takes a sum: its count goes on as the stream gets shorter.        *)
LEMMA FeedSumAlignInv ==
    ASSUME AlignInv, COEFF!FeedSum, UNCHANGED corrVars PROVE AlignInv'
<1> USE SumsOfABatch
<1>1. /\ sums # << >> /\ sums' = Tail(sums)
      /\ counter' = IF Head(sums).last THEN 0 ELSE counter + 1
      /\ counter \in 0 .. F - 1
    BY DEF COEFF!FeedSum, AlignInv
<1>2. PICK S : sums \in Seq(S)
    BY DEF AlignInv, IsSequence
<1>3. /\ sums' \in Seq(S) /\ Len(sums) \in Nat \ {0} /\ Len(sums') = Len(sums) - 1
      /\ \A k \in 1 .. Len(sums') : sums'[k] = sums[k + 1]
      /\ Head(sums) = sums[1]
    BY <1>1, <1>2
<1>4. Head(sums).last <=> (counter + 1) % F = 0
    BY <1>3 DEF AlignInv, LastEndsTheCount
<1>5. Head(sums).last <=> counter + 1 = F
  <2>1. CASE counter + 1 = F
      BY <1>4, <2>1, MultipleOfF
  <2>2. CASE counter + 1 # F
    <3>1. counter + 1 \in 0 .. F - 1 /\ counter + 1 # 0
        BY <1>1, <2>2
    <3>2. ~((counter + 1) % F = 0)
        BY <3>1, MultipleOfF
    <3> QED BY <1>4, <2>2, <3>2
  <2> QED BY <2>1, <2>2
<1>6. counter' \in 0 .. F - 1
      /\ counter' = IF counter + 1 = F THEN counter + 1 - F ELSE counter + 1
    BY <1>1, <1>5
<1>7. UNCHANGED <<corr_state, corr_write, corr_last, idx_s, idx_sq, output_index>>
    BY DEF corrVars
<1>8. CorrTypes' /\ CorrAtRest' /\ CorrPosition' = CorrPosition /\ CorrPosition \in 0 .. F - 1
    BY <1>7, PositionInRange DEF AlignInv, CorrTypes, CorrAtRest, CorrPosition
(* What is k sums behind the count is now k - 1 behind it.                 *)
<1>9. ASSUME NEW b \in Int
      PROVE  (counter' + b) % F = 0 <=> (counter + 1 + b) % F = 0
  <2>1. counter + 1 + b \in Int
      BY <1>1
  <2>2. CASE counter + 1 = F
    <3>1. counter' + b = (counter + 1 + b) - F
        BY <1>1, <1>6, <2>2
    <3> QED BY <2>1, <3>1, WrapAround
  <2>3. CASE counter + 1 # F
      BY <1>6, <2>3
  <2> QED BY <2>2, <2>3
<1>10. SumsAreAligned'
  <2>1. InFlight' = InFlight - 1 /\ InFlight \in Int
      BY <1>3, <1>7 DEF InFlight
  <2> DEFINE b == InFlight - 1 - CorrPosition
  <2>2. b \in Int
      BY <1>8, <2>1
  <2>3. counter + 1 + b = counter + InFlight - CorrPosition
      BY <1>1, <1>8, <2>1
  <2>4. (counter + 1 + b) % F = 0
      BY <2>3 DEF AlignInv, SumsAreAligned
  <2>5. (counter' + b) % F = 0
      BY <1>9, <2>2, <2>4
  <2>6. counter' + InFlight' - CorrPosition' = counter' + b
      BY <1>6, <1>8, <2>1
  <2> QED BY <2>5, <2>6 DEF SumsAreAligned
<1>11. LastEndsTheCount'
  <2> SUFFICES ASSUME NEW k \in 1 .. Len(sums')
               PROVE  sums'[k].last <=> (counter' + k) % F = 0
      BY DEF LastEndsTheCount
  <2>1. sums'[k] = sums[k + 1] /\ k + 1 \in 1 .. Len(sums) /\ k \in Int
      BY <1>3
  <2>2. sums[k + 1].last <=> (counter + (k + 1)) % F = 0
      BY <2>1 DEF AlignInv, LastEndsTheCount
  <2>3. counter + (k + 1) = counter + 1 + k
      BY <1>1, <2>1
  <2> QED BY <1>9, <2>1, <2>2, <2>3
<1> QED BY <1>3, <1>6, <1>8, <1>10, <1>11 DEF AlignInv, IsSequence

(* Nothing else touches the stream of sums or the places in it.            *)
LEMMA OtherAlignInv ==
    ASSUME AlignInv, UNCHANGED <<sums, counter, corrVars>> PROVE AlignInv'
  BY DEF AlignInv, IsSequence, CorrTypes, CorrAtRest, CorrPosition, SumsAreAligned, InFlight,
         LastEndsTheCount, corrVars

LEMMA NextAlignInv == AlignInv /\ [Next]_vars => AlignInv'
<1> SUFFICES ASSUME AlignInv, [Next]_vars PROVE AlignInv'
    OBVIOUS
<1>1. CASE Accumulate
    BY <1>1, AccumulateAlignInv
<1>2. CASE AccCoeff
  <2>1. CASE COEFF!FeedSum
      BY <1>2, <2>1, FeedSumAlignInv DEF AccCoeff
  <2>2. CASE ~COEFF!FeedSum
    <3>1. UNCHANGED <<sums, counter, corrVars>>
        BY <1>2, <2>2 DEF AccCoeff, COEFF!AccCoeff, COEFF!FeedIdle, COEFF!Settle,
                          COEFF!Compute, COEFF!Readout
    <3> QED BY <3>1, OtherAlignInv
  <2> QED BY <2>1, <2>2
<1>3. CASE Send \/ Receive \/ ConvertDataIn \/ ConvertDataOut \/ UNCHANGED vars
  <2>1. UNCHANGED <<sums, counter, corrVars>>
      BY <1>3 DEF Send, Receive, ConvertDataIn, ConvertDataOut, vars, streams, coeffVars
  <2> QED BY <2>1, OtherAlignInv
<1> QED BY <1>1, <1>2, <1>3 DEF Next

(* CORR and COEFF agree where a batch begins.                              *)
THEOREM SumsStayAligned == Spec => []SumsAreAligned
<1>1. AlignInv => SumsAreAligned
    BY DEF AlignInv
<1> QED BY <1>1, InitAlignInv, NextAlignInv, PTL DEF Spec
-----------------------------------------------------------------------------
(* Places in a sequence of batches, d to a batch.                          *)
LEMMA PlaceUnique ==
    ASSUME NEW d \in Nat \ {0}, NEW a \in Nat, NEW b \in Nat,
           NEW i \in 0 .. d - 1, NEW j \in 0 .. d - 1, a * d + i = b * d + j
    PROVE  a = b /\ i = j
<1>1. ASSUME NEW f \in Nat, NEW g \in Nat, f >= g + 1 PROVE f * d >= g * d + d
  <2>1. f - g - 1 \in Nat /\ f * d = (f - g - 1) * d + g * d + d
    BY <1>1
  <2>2. (f - g - 1) * d >= 0
    BY <2>1
  <2> QED BY <2>1, <2>2
<1>2. a * d \in Int /\ b * d \in Int
  OBVIOUS
<1>3. ~(a >= b + 1)
  <2> SUFFICES ASSUME a >= b + 1 PROVE FALSE OBVIOUS
  <2>1. a * d >= b * d + d BY <1>1
  <2> QED BY <2>1, <1>2
<1>4. ~(b >= a + 1)
  <2> SUFFICES ASSUME b >= a + 1 PROVE FALSE OBVIOUS
  <2>1. b * d >= a * d + d BY <1>1
  <2> QED BY <2>1, <1>2
<1> QED BY <1>3, <1>4

LEMMA PlaceOf ==
    ASSUME NEW d \in Nat \ {0}, NEW k \in Nat
    PROVE  /\ k \div d \in Nat /\ k % d \in 0 .. d - 1
           /\ k = (k \div d) * d + (k % d)
<1> DEFINE q == k \div d
           r == k % d
<1>1. d \in Int /\ d >= 1 /\ k \in Int /\ k >= 0
  OBVIOUS
<1>2. k = d * q + r /\ r \in 0 .. d - 1 /\ q \in Int
  BY ONLY <1>1, Z3
<1> HIDE DEF q, r
<1>3. d * q = q * d
  BY <1>1, <1>2
<1>4. q >= 0
  <2> SUFFICES ASSUME q <= -1 PROVE FALSE BY <1>2
  <2>1. d * q <= -d BY <1>1, <1>2
  <2> QED BY <2>1, <1>1, <1>2
<1>5. d * q \in Int
  BY <1>1, <1>2
<1>6. k = q * d + r
  BY <1>2, <1>3
<1>7. q \in Nat /\ r \in 0 .. d - 1 /\ k = q * d + r
  BY <1>2, <1>4, <1>6
<1> QED BY ONLY <1>7, Zenon DEF q, r

LEMMA PlaceIs ==
    ASSUME NEW d \in Nat \ {0}, NEW a \in Nat, NEW i \in 0 .. d - 1
    PROVE  (a * d + i) \div d = a /\ (a * d + i) % d = i
<1> DEFINE k == a * d + i
<1>1. k \in Nat BY SMT
<1>2. k \div d \in Nat /\ k % d \in 0 .. d - 1 /\ k = (k \div d) * d + (k % d)
  BY <1>1, PlaceOf
<1> DEFINE q == k \div d
           r == k % d
<1>3. q \in Nat /\ r \in 0 .. d - 1 /\ a * d + i = q * d + r BY <1>2
<1> HIDE DEF q, r
<1>4. a = q /\ i = r BY <1>3, PlaceUnique
<1> QED BY <1>4 DEF q, r

(* The place after place k.                                                *)
LEMMA NextPlace ==
    ASSUME NEW d \in Nat \ {0}, NEW k \in Nat
    PROVE  (k + 1) % d = IF (k % d) + 1 = d THEN 0 ELSE (k % d) + 1
<1> DEFINE q == k \div d
           r == k % d
<1>1. q \in Nat /\ r \in 0 .. d - 1 /\ k = q * d + r BY PlaceOf
<1> SUFFICES (k + 1) % d = IF r + 1 = d THEN 0 ELSE r + 1 OBVIOUS
<1> HIDE DEF q, r
<1>2. CASE r + 1 = d
  <2>1. k + 1 = (q + 1) * d + 0 /\ q + 1 \in Nat /\ 0 \in 0 .. d - 1 BY <1>1, <1>2
  <2>2. ((q + 1) * d + 0) % d = 0 BY <2>1, PlaceIs
  <2>3. (k + 1) % d = 0 BY <2>1, <2>2
  <2> QED BY <1>2, <2>3
<1>3. CASE r + 1 # d
  <2>1. k + 1 = q * d + (r + 1) /\ r + 1 \in 0 .. d - 1 BY <1>1, <1>3
  <2>2. (q * d + (r + 1)) % d = r + 1 BY <1>1, <2>1, PlaceIs
  <2>3. (k + 1) % d = r + 1 BY <2>1, <2>2
  <2> QED BY <1>3, <2>3
<1> QED BY <1>2, <1>3

(* A place before the end of a batches is in one of them.                  *)
LEMMA PlaceBefore ==
    ASSUME NEW d \in Nat \ {0}, NEW a \in Nat, NEW b \in Nat, NEW i \in Nat,
           b * d + i + 1 <= a * d
    PROVE  b + 1 <= a
<1> SUFFICES ASSUME b >= a PROVE FALSE
  OBVIOUS
<1>1. b - a \in Nat /\ b * d = (b - a) * d + a * d
  OBVIOUS
<1>2. (b - a) * d >= 0
  BY <1>1
<1>3. a * d \in Int /\ b * d \in Int /\ (b - a) * d \in Int
  BY <1>1
<1> QED BY <1>1, <1>2, <1>3

LEMMA WholeBatches ==
    ASSUME NEW d \in Nat, NEW a \in Nat, NEW b \in Nat, b <= a
    PROVE  b * d <= a * d
<1>1. a - b \in Nat /\ a * d = (a - b) * d + b * d
  OBVIOUS
<1>2. (a - b) * d >= 0 /\ b * d \in Int
  BY <1>1
<1> QED BY <1>1, <1>2

(* Words are added modulo W, however often the sum is reduced.             *)
LEMMA SumOfRemainders ==
    ASSUME NEW a \in Nat, NEW b \in Nat
    PROVE  /\ ((a % W) + b) % W = (a + b) % W
           /\ ((a % W) + (b % W)) % W = (a + b) % W
<1>1. W \in Nat \ {0}
  BY ParameterAssumption
<1>2. ASSUME NEW f \in Nat, NEW g \in Nat PROVE ((f % W) + g) % W = (f + g) % W
  <2> DEFINE q == f \div W
             r == f % W
             u == (r + g) \div W
             v == (r + g) % W
  <2>1. q \in Nat /\ r \in 0 .. W - 1 /\ f = q * W + r
    BY <1>1, PlaceOf
  <2> HIDE DEF q, r
  <2>2. r + g \in Nat BY <1>1, <2>1
  <2>3. u \in Nat /\ v \in 0 .. W - 1 /\ r + g = u * W + v
    BY <1>1, <2>2, PlaceOf
  <2> HIDE DEF u, v
  <2>4. f + g = (q + u) * W + v /\ q + u \in Nat
    BY <1>1, <2>1, <2>3
  <2>5. ((q + u) * W + v) % W = v BY <1>1, <2>3, <2>4, PlaceIs
  <2>6. (f + g) % W = v BY <2>4, <2>5
  <2> QED BY <2>6 DEF v, r
<1>3. a % W \in Nat /\ b % W \in Nat
  BY <1>1, PlaceOf
<1>4. ((a % W) + b) % W = (a + b) % W
  BY <1>2
<1>5. ((a % W) + (b % W)) % W = (a + b) % W
  <2> DEFINE r == a % W
             t == b % W
  <2>1. (t + r) % W = (b + r) % W BY <1>2, <1>3
  <2>2. (r + b) % W = (a + b) % W BY <1>2
  <2>3. t + r = r + t /\ b + r = r + b BY <1>3
  <2> HIDE DEF r, t
  <2>4. (r + t) % W = (a + b) % W BY <2>1, <2>2, <2>3
  <2> QED BY ONLY <2>4, Zenon DEF r, t
<1> QED BY ONLY <1>4, <1>5
-----------------------------------------------------------------------------
(* Totals.                                                                 *)
IsTotal(g, v, m) == g = [j \in 0 .. m |-> IF j = 0 THEN 0 ELSE g[j - 1] + v[j]]

(* A function that satisfies the recursion of Total is the one it defines. *)
LEMMA TotalIs ==
    ASSUME NEW m \in Nat, NEW v, NEW g, IsTotal(g, v, m)
    PROVE  Service!Total(v, m) = g[m]
<1> DEFINE s == CHOOSE f : f = [j \in 0 .. m |-> IF j = 0 THEN 0 ELSE f[j - 1] + v[j]]
<1>1. s = [j \in 0 .. m |-> IF j = 0 THEN 0 ELSE s[j - 1] + v[j]]
  BY DEF IsTotal
<1>2. Service!Total(v, m) = s[m]
  BY DEF Service!Total
<1> HIDE DEF s
<1> DEFINE Same == {n \in Nat : n <= m => s[n] = g[n]}
<1>3. 0 \in Same
  <2>1. 0 \in 0 .. m OBVIOUS
  <2>2. s[0] = 0 BY <1>1, <2>1
  <2>3. g[0] = 0 BY <2>1 DEF IsTotal
  <2> QED BY <2>2, <2>3
<1>4. ASSUME NEW n \in Nat, n \in Same, n + 1 <= m PROVE s[n + 1] = g[n + 1]
  <2>1. n + 1 \in 0 .. m /\ n + 1 # 0 /\ (n + 1) - 1 = n /\ s[n] = g[n] BY <1>4
  <2>2. s[n + 1] = s[n] + v[n + 1] BY <1>1, <2>1
  <2>3. g[n + 1] = g[n] + v[n + 1] BY <2>1 DEF IsTotal
  <2> QED BY <2>1, <2>2, <2>3
<1>5. \A n \in Nat : n \in Same => n + 1 \in Same
  BY <1>4
<1> HIDE DEF Same
<1>6. Nat \subseteq Same
  BY <1>3, <1>5, SetInduction
<1> QED BY <1>2, <1>6 DEF Same

LEMMA TotalEmpty == ASSUME NEW v PROVE Service!Total(v, 0) = 0
<1> DEFINE g == [j \in 0 .. 0 |-> 0]
<1>1. IsTotal(g, v, 0) BY DEF IsTotal
<1>2. g[0] = 0 OBVIOUS
<1> HIDE DEF g
<1> QED BY <1>1, <1>2, TotalIs

(* One more summand.                                                       *)
LEMMA TotalNext ==
    ASSUME NEW m \in Nat, NEW v, NEW w \in [1 .. m + 1 -> Nat],
           \A j \in 1 .. m : v[j] = w[j]
    PROVE  /\ Service!Total(v, m) \in Nat
           /\ Service!Total(w, m + 1) = Service!Total(v, m) + w[m + 1]
<1> DEFINE Extended(g, n) == [j \in 0 .. n + 1 |-> IF j = n + 1 THEN g[n] + w[n + 1] ELSE g[j]]
           Summable == {n \in Nat : n <= m => \E g \in [0 .. n -> Nat] : IsTotal(g, w, n)}
<1>1. ASSUME NEW n \in Nat, n <= m, NEW g \in [0 .. n -> Nat], IsTotal(g, w, n)
      PROVE  Extended(g, n) \in [0 .. n + 1 -> Nat] /\ IsTotal(Extended(g, n), w, n + 1)
  <2> DEFINE h == Extended(g, n)
  <2>1. n + 1 \in 1 .. m + 1 /\ w[n + 1] \in Nat /\ g[n] \in Nat BY <1>1
  <2>2. h \in [0 .. n + 1 -> Nat]
    BY <1>1, <2>1
  <2>3. ASSUME NEW j \in 0 .. n + 1
        PROVE  h[j] = IF j = 0 THEN 0 ELSE h[j - 1] + w[j]
    <3>1. CASE j = n + 1
      <4>1. h[j] = g[n] + w[n + 1] /\ j # 0 /\ j - 1 = n /\ n \in 0 .. n + 1 /\ n # n + 1
        BY <1>1, <3>1
      <4>2. h[n] = g[n] BY <4>1
      <4> HIDE DEF h
      <4> QED BY <3>1, <4>1, <4>2
    <3>2. CASE j # n + 1
      <4>1. j \in 0 .. n /\ h[j] = g[j] BY <1>1, <2>3, <3>2
      <4>2. g[j] = IF j = 0 THEN 0 ELSE g[j - 1] + w[j] BY <1>1, <4>1 DEF IsTotal
      <4>3. j # 0 => j - 1 \in 0 .. n + 1 /\ j - 1 # n + 1 /\ h[j - 1] = g[j - 1]
        BY <4>1
      <4> HIDE DEF h
      <4> QED BY <4>1, <4>2, <4>3
    <3> QED BY <3>1, <3>2
  <2>4. h = [j \in 0 .. n + 1 |-> h[j]] OBVIOUS
  <2> HIDE DEF h
  <2>5. IsTotal(h, w, n + 1) BY <2>3, <2>4 DEF IsTotal
  <2> QED BY <2>2, <2>5 DEF h
<1>2. 0 \in Summable
  <2> DEFINE g == [j \in 0 .. 0 |-> 0]
  <2>1. g \in [0 .. 0 -> Nat] /\ IsTotal(g, w, 0) BY DEF IsTotal
  <2> QED BY <2>1
<1>3. ASSUME NEW n \in Nat, n \in Summable, n + 1 <= m
      PROVE  \E g \in [0 .. n + 1 -> Nat] : IsTotal(g, w, n + 1)
  <2>1. n <= m BY <1>3
  <2>2. PICK g \in [0 .. n -> Nat] : IsTotal(g, w, n) BY <1>3, <2>1
  <2> QED BY <1>1, <2>1, <2>2
<1>4. ASSUME NEW n \in Nat, n \in Summable PROVE n + 1 \in Summable
  <2>1. n + 1 \in Nat
    OBVIOUS
  <2>2. n + 1 <= m => \E g \in [0 .. n + 1 -> Nat] : IsTotal(g, w, n + 1)
    BY <1>3, <1>4
  <2> QED BY <2>1, <2>2
<1> HIDE DEF Summable
<1>5. m \in Summable
  BY <1>2, <1>4, SetInduction
<1>6. PICK g \in [0 .. m -> Nat] : IsTotal(g, w, m)
  BY <1>5 DEF Summable
<1>7. IsTotal(g, v, m)
  BY <1>6 DEF IsTotal
<1>8. Service!Total(v, m) = g[m] /\ g[m] \in Nat
  BY <1>7, TotalIs
<1> DEFINE h == Extended(g, m)
<1>9. IsTotal(h, w, m + 1) /\ h[m + 1] = g[m] + w[m + 1]
  BY <1>1, <1>6
<1> HIDE DEF h
<1>10. Service!Total(w, m + 1) = h[m + 1]
  BY <1>9, TotalIs
<1> QED BY <1>8, <1>9, <1>10
-----------------------------------------------------------------------------
(* The kernel implements Correlation.  CORR alone is the subject of        *)
(* CorrProofs; here are the other three processes, and what links the four *)
(* to the items the host has sent.                                         *)
K == INSTANCE CorrProofs WITH
    src <- data_source, dst <- sums, samples_number <- samples,
    state <- corr_state, last <- corr_last, write <- corr_write

(* What an item adds to sum i of its batch, and sum i of the first m items *)
(* of batch b.                                                             *)
Contribution(item, i) ==
    IF i < N THEN item[i]
    ELSE IF i < 2 * N THEN item[i - N] * item[i - N]
    ELSE item[Pair[i - 2 * N][1]] * item[Pair[i - 2 * N][2]]

Partial(b, m, i) ==
    Service!Total([j \in 1 .. m |-> Contribution(sent[b * numberItems + j], i)], m) % W

SumOf(b, i) == Partial(b, numberItems, i)

(* The coefficient of pair i of batch b, for sample count c.               *)
CoefficientOf(b, i, c) == Service!Pearson(b, Pair[i][1], Pair[i][2], c)

(* CORR has accumulated q items.  The others wait in data_source, in y or  *)
(* in the host's stream, in the order they were sent.                      *)
Waiting == data_source \o (IF valid_read THEN << y >> ELSE << >>)

ItemsInOrder(q) ==
    /\ sent \in Seq(Items) /\ axis_host_sink \in Seq(Items)
    /\ valid_read \in BOOLEAN /\ (valid_read => y \in CORR!InputFlit)
    /\ Len(sent) = q + Len(Waiting) + Len(axis_host_sink)
    /\ \A k \in 1 .. Len(Waiting) :
          Waiting[k] = [last |-> (q + k) % numberItems = 0, val |-> sent[q + k]]
    /\ \A k \in 1 .. Len(axis_host_sink) : axis_host_sink[k] = sent[q + Len(Waiting) + k]
    /\ counter_read = (q + Len(Waiting)) % numberItems

(* Of these q items, those of a batches are summed up, and m more; COEFF   *)
(* has taken t sums.                                                       *)
SumsInOrder(a, m, t) ==
    /\ \A i \in 0 .. F - 1 : K!OpenSums[i] = Partial(a, m, i)
    /\ t + Len(K!Uncollected) = a * F
    /\ \A k \in 1 .. Len(K!Uncollected), b \in Nat, i \in 0 .. F - 1 :
          t + k = b * F + i + 1
            => K!Uncollected[k] = [last |-> i + 1 = F, val |-> SumOf(b, i)]

(* COEFF is at batch e: its memories fill with the sums of that batch, and *)
(* its coefficients are computed from them.                                *)
Stored(i) == IF i < N THEN mem_e[i]
             ELSE IF i < 2 * N THEN mem_sq[i - N]
             ELSE mem_p[i - 2 * N]

Taken(e) == IF coeff_state = "FEED" THEN e * F + counter ELSE (e + 1) * F

Filled(i)   == coeff_state = "FEED" => i < counter
Computed(k) == coeff_state = "READOUT" \/ (coeff_state = "COMPUTE" /\ k < index)

CoeffTypes ==
    /\ coeff_state \in {"FEED", "SETTLE1", "SETTLE2", "COMPUTE", "READOUT"}
    /\ counter \in 0 .. F - 1 /\ counter_rd \in Pairs /\ index \in Pairs
    /\ mem_e \in [Lanes -> Words] /\ mem_sq \in [Lanes -> Words]
    /\ mem_p \in [Pairs -> Words]
    /\ coeff \in [Pairs -> Coeffs] /\ coeff_value \in Coeffs
    /\ coeff_last \in BOOLEAN /\ coeff_write \in BOOLEAN

BatchAtHand(e) ==
    /\ CoeffTypes
    /\ coeff_state # "FEED" => counter = 0
    /\ \A i \in 0 .. F - 1 : Filled(i) => Stored(i) = SumOf(e, i)
    /\ IsPair(index, row, col)
    /\ coeff_state # "COMPUTE" => row = 0 /\ col = 1 /\ index = 0
    /\ \A k \in Pairs : Computed(k) => \E c \in Counts : coeff[k] = CoefficientOf(e, k, c)

(* What is received, and what is on its way to the host.                   *)
Results == received \o axis_host_src \o (IF valid_write THEN << x >> ELSE << >>)
           \o result_values
           \o (IF coeff_write THEN << [last |-> coeff_last, val |-> coeff_value] >>
                              ELSE << >>)

AnswersInOrder(e) ==
    /\ received \in Seq(COEFF!CoeffFlit) /\ axis_host_src \in Seq(COEFF!CoeffFlit)
    /\ result_values \in Seq(COEFF!CoeffFlit)
    /\ valid_write \in BOOLEAN /\ x \in COEFF!CoeffFlit
    /\ coeff_state # "READOUT" => counter_rd = 0
    /\ Len(Results) = e * P + counter_rd
    /\ \A k \in 1 .. Len(Results), b \in Nat, i \in Pairs :
          k = b * P + i + 1 =>
             /\ (b + 1) * numberItems <= Len(sent)
             /\ \E c \in Counts :
                   Results[k] = [last |-> i + 1 = P, val |-> CoefficientOf(b, i, c)]

Progress(a, m, e) ==
    /\ a \in Nat /\ m \in 0 .. numberItems - 1 /\ e \in Nat
    /\ ItemsInOrder(a * numberItems + m)
    /\ SumsInOrder(a, m, Taken(e))
    /\ BatchAtHand(e)
    /\ AnswersInOrder(e)

KernelInv == /\ numberItems \in Nat \ {0}
             /\ K!CorrInv
             /\ \E a, e \in Nat, m \in 0 .. numberItems - 1 : Progress(a, m, e)
-----------------------------------------------------------------------------
(* The sums of the first items of a batch.                                 *)
LEMMA KernelSizes ==
    /\ N \in Nat /\ N >= 2 /\ P \in Nat \ {0} /\ W \in Nat \ {0} /\ U \in Nat \ {0}
    /\ F \in Nat \ {0} /\ F = 2 * N + P
    /\ 0 \in Pairs /\ 0 \in Words /\ 0 \in Counts /\ 0 \in Lanes /\ 1 \in Lanes
  BY ParameterAssumption, FirstPair DEF F, Lanes, Pairs, Words, Counts

LEMMA Remainders == \A k \in Int : k % W \in Words
  BY KernelSizes DEF Words

LEMMA LanesOfPair ==
    ASSUME NEW k \in Pairs
    PROVE  Pair[k][1] \in Lanes /\ Pair[k][2] \in Lanes
  BY PairHasItsIndex DEF IsPair

LEMMA ContributionType ==
    ASSUME NEW item \in Items, NEW i \in 0 .. F - 1
    PROVE  /\ Contribution(item, i) \in Nat
           /\ i < N => Contribution(item, i) = item[i]
           /\ ~(i < N) /\ i < 2 * N => (Contribution(item, i) % W) = Square(item, i - N)
           /\ ~(i < 2 * N) => (Contribution(item, i) % W) = Product(item, i - 2 * N)
<1>1. \A l \in Lanes : item[l] \in Nat
  <2>1. item \in [Lanes -> Words] BY ParameterAssumption
  <2> QED BY <2>1 DEF Words
<1>2. \A f, g \in Nat : f * g \in Nat
  OBVIOUS
<1>3. CASE i < N
  <2>1. i \in Lanes BY <1>3, KernelSizes DEF Lanes
  <2> QED BY <1>1, <1>3, <2>1, KernelSizes DEF Contribution
<1>4. CASE ~(i < N) /\ i < 2 * N
  <2>1. i - N \in Lanes BY <1>4, KernelSizes DEF Lanes
  <2> QED BY <1>1, <1>2, <1>4, <2>1 DEF Contribution, Square
<1>5. CASE ~(i < 2 * N)
  <2>1. i - 2 * N \in Pairs /\ ~(i < N) BY <1>5, KernelSizes DEF Pairs
  <2>2. Contribution(item, i) = item[Pair[i - 2 * N][1]] * item[Pair[i - 2 * N][2]]
    BY <1>5, <2>1 DEF Contribution
  <2> QED BY <1>1, <1>2, <1>5, <2>1, <2>2, LanesOfPair DEF Product
<1> QED BY <1>3, <1>4, <1>5

LEMMA PartialEmpty == \A b, i : Partial(b, 0, i) = 0
<1>1. 0 % W = 0
  BY KernelSizes
<1> QED BY <1>1, TotalEmpty DEF Partial

(* One more item of the batch.                                             *)
LEMMA PartialNext ==
    ASSUME sent \in Seq(Items), numberItems \in Nat \ {0},
           NEW b \in Nat, NEW m \in Nat, b * numberItems + m + 1 <= Len(sent),
           NEW i \in 0 .. F - 1, NEW item, item = sent[b * numberItems + m + 1]
    PROVE  /\ Partial(b, m, i) \in Words /\ Partial(b, m + 1, i) \in Words
           /\ Partial(b, m + 1, i) = (Partial(b, m, i) + IF i < N THEN item[i]
                                      ELSE IF i < 2 * N THEN Square(item, i - N)
                                      ELSE Product(item, i - 2 * N)) % W
<1> DEFINE base == b * numberItems
           v == [j \in 1 .. m |-> Contribution(sent[base + j], i)]
           w == [j \in 1 .. m + 1 |-> Contribution(sent[base + j], i)]
<1>1. base \in Nat
  <2>1. \A f, g \in Nat : f * g \in Nat OBVIOUS
  <2> QED BY <2>1
<1>2. Partial(b, m, i) = Service!Total(v, m) % W
      /\ Partial(b, m + 1, i) = Service!Total(w, m + 1) % W
  BY DEF Partial
<1>3. base + m + 1 <= Len(sent) /\ item = sent[base + m + 1]
  OBVIOUS
<1> HIDE DEF base
<1>4. ASSUME NEW j \in 1 .. m + 1 PROVE sent[base + j] \in Items
  <2>1. base + j \in 1 .. Len(sent) BY <1>1, <1>3, <1>4
  <2> QED BY <2>1, ElementOfSeq
<1>5. w \in [1 .. m + 1 -> Nat] /\ \A j \in 1 .. m : v[j] = w[j]
  BY <1>4, ContributionType
<1>6. m + 1 \in 1 .. m + 1 /\ base + (m + 1) = base + m + 1
  BY <1>1
<1>7. w[m + 1] = Contribution(item, i) /\ item \in Items
  BY <1>3, <1>4, <1>6
<1> HIDE DEF v, w
<1> DEFINE T == Service!Total(v, m)
           c == Contribution(item, i)
<1>8. T \in Nat /\ Service!Total(w, m + 1) = T + c
  BY <1>5, <1>7, TotalNext
<1>9. c \in Nat
  BY <1>7, ContributionType
<1>10. Partial(b, m, i) = T % W /\ Partial(b, m + 1, i) = (T + c) % W
  BY <1>2, <1>8
<1>11. /\ i < N => c = item[i]
       /\ ~(i < N) /\ i < 2 * N => (c % W) = Square(item, i - N)
       /\ ~(i < 2 * N) => (c % W) = Product(item, i - 2 * N)
  BY <1>7, ContributionType
<1> HIDE DEF T, c
<1>12. ((T % W) + c) % W = (T + c) % W /\ ((T % W) + (c % W)) % W = (T + c) % W
  BY <1>8, <1>9, SumOfRemainders
<1>13. Partial(b, m, i) \in Words /\ Partial(b, m + 1, i) \in Words
  BY <1>8, <1>9, <1>10, Remainders
<1>14. CASE i < N
  BY <1>10, <1>11, <1>12, <1>13, <1>14
<1>15. CASE ~(i < N) /\ i < 2 * N
  BY <1>10, <1>11, <1>12, <1>13, <1>15
<1>16. CASE ~(i < N) /\ ~(i < 2 * N)
  BY <1>10, <1>11, <1>12, <1>13, <1>16
<1> QED BY <1>14, <1>15, <1>16

(* What is sent later leaves the sums of earlier items alone.              *)
LEMMA PartialKept ==
    ASSUME numberItems' = numberItems, NEW b, NEW m, NEW i,
           \A j \in 1 .. m : sent'[b * numberItems + j] = sent[b * numberItems + j]
    PROVE  Partial(b, m, i)' = Partial(b, m, i)
<1>1. [j \in 1 .. m |-> Contribution(sent'[b * numberItems' + j], i)]
        = [j \in 1 .. m |-> Contribution(sent[b * numberItems + j], i)]
  OBVIOUS
<1> QED BY <1>1 DEF Partial

LEMMA CoefficientKept ==
    ASSUME numberItems' = numberItems, NEW b, NEW k, NEW c,
           \A j \in 1 .. numberItems :
              sent'[b * numberItems + j] = sent[b * numberItems + j]
    PROVE  CoefficientOf(b, k, c)' = CoefficientOf(b, k, c)
<1>1. \A r : [j \in 1 .. numberItems' |-> sent'[b * numberItems' + j][r]]
              = [j \in 1 .. numberItems |-> sent[b * numberItems + j][r]]
  OBVIOUS
<1>2. \A r, s : [j \in 1 .. numberItems' |-> sent'[b * numberItems' + j][r]
                                            * sent'[b * numberItems' + j][s]]
              = [j \in 1 .. numberItems |-> sent[b * numberItems + j][r]
                                            * sent[b * numberItems + j][s]]
  OBVIOUS
<1> QED BY <1>1, <1>2 DEF CoefficientOf, Service!Pearson, Service!BatchSum

(* The parameters of Correlation are those of the kernel.                  *)
LEMMA CoefficientIs ==
    ASSUME numberItems \in Nat \ {0}, NEW b \in Nat, NEW k \in Pairs, NEW c \in Counts
    PROVE  CoefficientOf(b, k, c)
             = Coefficient(c, SumOf(b, Pair[k][1]), SumOf(b, Pair[k][2]),
                           SumOf(b, N + Pair[k][1]), SumOf(b, N + Pair[k][2]),
                           SumOf(b, 2 * N + k))
<1> DEFINE item(j) == sent[b * numberItems + j]
           r == Pair[k][1]
           s == Pair[k][2]
<1>1. /\ r \in Nat /\ r < N /\ s \in Nat /\ s < N /\ k \in Nat
      /\ N \in Nat /\ N >= 2
  BY LanesOfPair, KernelSizes DEF Lanes, Pairs
<1>2. ASSUME NEW l \in Nat, l < N
      PROVE  /\ Service!BatchSum(b, LAMBDA z : z[l]) = SumOf(b, l)
             /\ Service!BatchSum(b, LAMBDA z : z[l] * z[l]) = SumOf(b, N + l)
  <2>1. ~(N + l < N) /\ N + l < 2 * N /\ (N + l) - N = l BY <1>1, <1>2
  <2>2. \A z : Contribution(z, l) = z[l] /\ Contribution(z, N + l) = z[l] * z[l]
    BY <1>2, <2>1 DEF Contribution
  <2>3. [j \in 1 .. numberItems |-> item(j)[l]]
          = [j \in 1 .. numberItems |-> Contribution(item(j), l)]
    BY <2>2
  <2>4. [j \in 1 .. numberItems |-> item(j)[l] * item(j)[l]]
          = [j \in 1 .. numberItems |-> Contribution(item(j), N + l)]
    BY <2>2
  <2> QED BY <2>3, <2>4 DEF Service!BatchSum, SumOf, Partial
<1>3. Service!BatchSum(b, LAMBDA z : z[r] * z[s]) = SumOf(b, 2 * N + k)
  <2>1. ~(2 * N + k < N) /\ ~(2 * N + k < 2 * N) /\ (2 * N + k) - 2 * N = k BY <1>1
  <2>2. \A z : Contribution(z, 2 * N + k) = z[r] * z[s]
    BY <2>1 DEF Contribution
  <2>3. [j \in 1 .. numberItems |-> item(j)[r] * item(j)[s]]
          = [j \in 1 .. numberItems |-> Contribution(item(j), 2 * N + k)]
    BY <2>2
  <2> QED BY <2>3 DEF Service!BatchSum, SumOf, Partial
<1> HIDE DEF r, s
<1>4. CoefficientOf(b, k, c) = Service!Pearson(b, r, s, c)
  BY DEF CoefficientOf, r, s
<1>5. Service!Pearson(b, r, s, c)
        = Coefficient(c, SumOf(b, r), SumOf(b, s), SumOf(b, N + r), SumOf(b, N + s),
                      SumOf(b, 2 * N + k))
  BY <1>1, <1>2, <1>3 DEF Service!Pearson, Service!Coefficient, Coefficient,
                          Service!ZeroCoeff, ZeroCoeff
<1> QED BY <1>4, <1>5 DEF r, s
-----------------------------------------------------------------------------
(* What a step of one process leaves as it is for the others.              *)
LEMMA NothingSent ==
    ASSUME sent' = sent, numberItems' = numberItems
    PROVE  /\ \A b, m, i : Partial(b, m, i)' = Partial(b, m, i)
           /\ \A b, i : SumOf(b, i)' = SumOf(b, i)
           /\ \A b, k, c : CoefficientOf(b, k, c)' = CoefficientOf(b, k, c)
<1>1. ASSUME NEW b, NEW m, NEW i PROVE Partial(b, m, i)' = Partial(b, m, i)
  BY DEF Partial
<1>2. ASSUME NEW b, NEW i PROVE SumOf(b, i)' = SumOf(b, i)
  BY DEF SumOf, Partial
<1>3. ASSUME NEW b, NEW k, NEW c PROVE CoefficientOf(b, k, c)' = CoefficientOf(b, k, c)
  BY CoefficientKept
<1> QED BY <1>1, <1>2, <1>3

LEMMA ItemsFrame ==
    ASSUME UNCHANGED <<sent, numberItems, axis_host_sink, data_source, inState>>,
           NEW q, ItemsInOrder(q)
    PROVE  ItemsInOrder(q)'
  BY DEF ItemsInOrder, Waiting, inState

LEMMA SumsSame ==
    ASSUME sent' = sent, numberItems' = numberItems,
           K!OpenSums' = K!OpenSums, K!Uncollected' = K!Uncollected,
           NEW a, NEW m, NEW t, SumsInOrder(a, m, t)
    PROVE  SumsInOrder(a, m, t)'
<1>1. \A i \in 0 .. F - 1 : K!OpenSums'[i] = Partial(a, m, i)'
  BY NothingSent DEF SumsInOrder
<1>2. t + Len(K!Uncollected') = a * F
  BY DEF SumsInOrder
<1>3. \A k \in 1 .. Len(K!Uncollected'), b \in Nat, i \in 0 .. F - 1 :
          t + k = b * F + i + 1
            => K!Uncollected'[k] = [last |-> i + 1 = F, val |-> SumOf(b, i)']
  <2> SUFFICES ASSUME NEW k \in 1 .. Len(K!Uncollected'), NEW b \in Nat,
                      NEW i \in 0 .. F - 1, t + k = b * F + i + 1
               PROVE  K!Uncollected'[k] = [last |-> i + 1 = F, val |-> SumOf(b, i)']
    OBVIOUS
  <2>1. K!Uncollected[k] = [last |-> i + 1 = F, val |-> SumOf(b, i)]
    BY DEF SumsInOrder
  <2>2. SumOf(b, i)' = SumOf(b, i)
    BY NothingSent
  <2> QED BY <2>1, <2>2
<1> QED BY <1>1, <1>2, <1>3 DEF SumsInOrder

LEMMA SumsFrame ==
    ASSUME sent' = sent, numberItems' = numberItems, UNCHANGED <<sums, corrVars>>,
           NEW a, NEW m, NEW t, SumsInOrder(a, m, t)
    PROVE  SumsInOrder(a, m, t)'
<1>1. UNCHANGED <<sums, K!corrState>>
  BY DEF K!corrState, corrVars
<1>2. K!OpenSums' = K!OpenSums /\ K!Uncollected' = K!Uncollected
  BY <1>1, ParameterAssumption, K!OwedFrame DEF K!Lanes, K!Words, Lanes, Words
<1> QED BY <1>2, SumsSame

LEMMA TakenFrame ==
    ASSUME UNCHANGED coeffVars, NEW e
    PROVE  Taken(e)' = Taken(e)
  BY DEF Taken, coeffVars

LEMMA BatchFrame ==
    ASSUME sent' = sent, numberItems' = numberItems, UNCHANGED coeffVars,
           NEW e, BatchAtHand(e)
    PROVE  BatchAtHand(e)'
  BY NothingSent DEF BatchAtHand, CoeffTypes, Filled, Stored, Computed, coeffVars

LEMMA AnswersSame ==
    ASSUME sent' = sent, numberItems' = numberItems, Results' = Results,
           received' \in Seq(COEFF!CoeffFlit), axis_host_src' \in Seq(COEFF!CoeffFlit),
           result_values' \in Seq(COEFF!CoeffFlit),
           valid_write' \in BOOLEAN, x' \in COEFF!CoeffFlit,
           coeff_state' # "READOUT" => counter_rd' = 0, counter_rd' = counter_rd,
           NEW e, AnswersInOrder(e)
    PROVE  AnswersInOrder(e)'
<1>1. \A k \in 1 .. Len(Results'), b \in Nat, i \in Pairs :
          k = b * P + i + 1 =>
             /\ (b + 1) * numberItems' <= Len(sent')
             /\ \E c \in Counts :
                   Results'[k] = [last |-> i + 1 = P, val |-> CoefficientOf(b, i, c)']
  BY NothingSent DEF AnswersInOrder
<1>2. Len(Results') = e * P + counter_rd'
  BY DEF AnswersInOrder
<1> QED BY <1>1, <1>2 DEF AnswersInOrder

LEMMA AnswersFrame ==
    ASSUME sent' = sent, numberItems' = numberItems,
           UNCHANGED <<received, axis_host_src, result_values, outState, coeffVars>>,
           NEW e, AnswersInOrder(e)
    PROVE  AnswersInOrder(e)'
<1>1. Results' = Results
  BY DEF Results, outState, coeffVars
<1> QED BY <1>1, AnswersSame DEF AnswersInOrder, outState, coeffVars
-----------------------------------------------------------------------------
LEMMA InitKernelInv == Init => KernelInv
<1> SUFFICES ASSUME Init PROVE KernelInv
  OBVIOUS
<1>1. numberItems \in Nat \ {0}
  BY KernelAssumption DEF Init
<1>2. K!Init
  BY DEF Init, CORR!CorrInit, K!Init, K!CorrInit, CORR!Lanes, CORR!Pairs, K!Lanes, K!Pairs
<1>3. K!CorrInv
  BY <1>2, ParameterAssumption, K!InitCorrInv DEF K!Lanes, K!Words, Lanes, Words
<1>4. K!OpenSums = [i \in 0 .. F - 1 |-> 0] /\ K!Uncollected = << >>
  <2>1. K!Sums!BInit
    BY <1>2, ParameterAssumption, K!InitImplementsBatchSums DEF K!Lanes, K!Words, Lanes, Words
  <2> QED BY <2>1 DEF K!Sums!BInit, K!Sums!NoSums, K!Sums!F, F
<1>5. sent = << >> /\ axis_host_sink = << >> /\ Waiting = << >> /\ valid_read = FALSE
      /\ counter_read = 0
  BY DEF Init, Waiting
<1>6. 0 * numberItems + 0 = 0 /\ 0 * F = 0 /\ 0 * P = 0
  BY <1>1, KernelSizes
<1>7. ItemsInOrder(0)
  <2>1. (0 + 0) % numberItems = 0
    <3>1. 0 * numberItems + 0 = 0 + 0 /\ 0 \in 0 .. numberItems - 1 BY <1>1
    <3> QED BY <3>1, <1>1, PlaceIs
  <2>2. sent \in Seq(Items) /\ axis_host_sink \in Seq(Items)
        /\ Len(sent) = 0 /\ Len(axis_host_sink) = 0 /\ Len(Waiting) = 0
    BY <1>5, EmptySeq
  <2>3. counter_read = (0 + Len(Waiting)) % numberItems
    BY <1>5, <2>1, <2>2
  <2>4. /\ Len(sent) = 0 + Len(Waiting) + Len(axis_host_sink)
        /\ \A k \in 1 .. Len(Waiting) : FALSE
        /\ \A k \in 1 .. Len(axis_host_sink) : FALSE
    BY <2>2
  <2>5. valid_read \in BOOLEAN /\ ~valid_read
    BY <1>5
  <2> QED BY <2>2, <2>3, <2>4, <2>5 DEF ItemsInOrder
<1>8. coeff_state = "FEED" /\ counter = 0 /\ counter_rd = 0 /\ row = 0 /\ col = 1 /\ index = 0
      /\ coeff_write = FALSE
  BY DEF Init, COEFF!CoeffInit
<1>9. Taken(0) = 0
  BY <1>6, <1>8 DEF Taken
<1>10. SumsInOrder(0, 0, Taken(0))
  BY <1>4, <1>6, <1>9, PartialEmpty DEF SumsInOrder
<1>11. CoeffTypes
  <2>1. /\ mem_e \in [Lanes -> Words] /\ mem_sq \in [Lanes -> Words]
        /\ mem_p \in [Pairs -> Words]
    BY KernelSizes DEF Init, COEFF!CoeffInit, COEFF!Lanes, Lanes, COEFF!Pairs, Pairs
  <2>2. coeff \in [Pairs -> Coeffs] /\ coeff_value \in Coeffs
    BY CoefficientType
    DEF Init, COEFF!CoeffInit, COEFF!ZeroCoeff, ZeroCoeff, COEFF!Pairs, Pairs
  <2>3. coeff_last \in BOOLEAN /\ coeff_write \in BOOLEAN
    BY DEF Init, COEFF!CoeffInit
  <2>4. counter \in 0 .. F - 1 /\ counter_rd \in Pairs /\ index \in Pairs
    BY <1>8, KernelSizes
  <2> QED BY <1>8, <2>1, <2>2, <2>3, <2>4 DEF CoeffTypes
<1>12. BatchAtHand(0)
  BY <1>8, <1>11, FirstPair DEF BatchAtHand, Filled, Computed
<1>13. Results = << >>
  BY <1>8 DEF Init, Results
<1>14. x \in COEFF!CoeffFlit
  BY CoefficientType DEF Init, COEFF!CoeffFlit, COEFF!Coeffs, COEFF!Words, Coeffs, Words
<1>15. AnswersInOrder(0)
  <2>1. Len(Results) = 0 * P + counter_rd
    BY <1>6, <1>8, <1>13
  <2>2. \A k \in 1 .. Len(Results) : FALSE
    BY <1>13
  <2>3. received \in Seq(COEFF!CoeffFlit) /\ axis_host_src \in Seq(COEFF!CoeffFlit)
        /\ result_values \in Seq(COEFF!CoeffFlit) /\ valid_write = FALSE
    BY EmptySeq DEF Init
  <2> QED BY <1>8, <1>14, <2>1, <2>2, <2>3 DEF AnswersInOrder
<1>16. Progress(0, 0, 0)
  BY <1>1, <1>6, <1>7, <1>10, <1>12, <1>15 DEF Progress
<1> QED BY <1>1, <1>3, <1>16 DEF KernelInv

(* How far behind the items sent the later stages are.                     *)
LEMMA BatchesAreSent ==
    ASSUME numberItems \in Nat \ {0}, K!CorrInv, NEW a, NEW m, NEW e, Progress(a, m, e)
    PROVE  /\ a * numberItems + m \in Nat /\ Waiting \in Seq(CORR!InputFlit)
           /\ a * numberItems + m + Len(Waiting) <= Len(sent)
           /\ \A b \in Nat : b + 1 <= a => (b + 1) * numberItems <= Len(sent)
           /\ Taken(e) \in Nat /\ Taken(e) <= a * F /\ a * F \in Nat
           /\ K!Uncollected \in Seq(K!SumFlit)
           /\ \A i \in 0 .. F - 1 : Filled(i) => e + 1 <= a
           /\ \A k \in Pairs : Computed(k) => e + 1 <= a
<1> DEFINE n == numberItems
           q == a * n + m
<1>1. a \in Nat /\ m \in 0 .. n - 1 /\ e \in Nat /\ ItemsInOrder(q)
      /\ SumsInOrder(a, m, Taken(e)) /\ BatchAtHand(e)
  BY DEF Progress
<1>2. \A f, g \in Nat : f * g \in Nat
  OBVIOUS
<1>3. a * n \in Nat /\ q \in Nat /\ a * F \in Nat /\ e * F \in Nat /\ (e + 1) * F \in Nat
  BY <1>1, <1>2, KernelSizes
<1>4. Waiting \in Seq(CORR!InputFlit)
  <2>1. data_source \in Seq(CORR!InputFlit)
    BY DEF K!CorrInv, K!CorrTypeOK, K!InputFlit, CORR!InputFlit
  <2>2. valid_read \in BOOLEAN /\ (valid_read => y \in CORR!InputFlit)
    BY <1>1 DEF ItemsInOrder
  <2> QED BY <2>1, <2>2, ConcatProperties DEF Waiting
<1>5. q + Len(Waiting) <= Len(sent)
  <2>1. Len(sent) = q + Len(Waiting) + Len(axis_host_sink) /\ axis_host_sink \in Seq(Items)
    BY <1>1 DEF ItemsInOrder
  <2> HIDE DEF q
  <2> QED BY <2>1, <1>3, <1>4
<1>6. ASSUME NEW b \in Nat, b + 1 <= a PROVE (b + 1) * n <= Len(sent)
  <2>1. (b + 1) * n <= a * n BY <1>1, <1>6, WholeBatches
  <2>2. (b + 1) * n \in Nat /\ Len(Waiting) \in Nat /\ Len(sent) \in Nat /\ m \in Nat
    BY <1>1, <1>2, <1>4 DEF ItemsInOrder
  <2> QED BY <2>1, <2>2, <1>3, <1>5
<1>7. Taken(e) \in Nat
  BY <1>1, <1>3, KernelSizes DEF Taken, BatchAtHand, CoeffTypes
<1>8. K!Uncollected \in Seq(K!SumFlit)
  BY ParameterAssumption, K!UncollectedType DEF K!Lanes, K!Words, Lanes, Words
<1>9. Taken(e) <= a * F
  BY <1>1, <1>3, <1>7, <1>8 DEF SumsInOrder
<1>10. coeff_state # "FEED" \/ counter > 0 => e + 1 <= a
  <2> SUFFICES ASSUME coeff_state # "FEED" \/ counter > 0 PROVE e + 1 <= a
    OBVIOUS
  <2>1. e * F + 0 + 1 <= a * F
    <3>1. (e + 1) * F = e * F + F BY <1>1, KernelSizes
    <3>2. counter \in Nat BY <1>1 DEF BatchAtHand, CoeffTypes
    <3> QED BY <3>1, <3>2, <1>3, <1>9, KernelSizes DEF Taken
  <2> QED BY <2>1, <1>1, KernelSizes, PlaceBefore
<1>11. \A i \in 0 .. F - 1 : Filled(i) => e + 1 <= a
  BY <1>1, <1>10 DEF Filled, BatchAtHand, CoeffTypes
<1>12. \A k \in Pairs : Computed(k) => e + 1 <= a
  BY <1>10 DEF Computed
<1> QED BY <1>3, <1>4, <1>5, <1>6, <1>7, <1>8, <1>9, <1>11, <1>12

(* What is sent is sent after the items of the batches that are complete.  *)
LEMMA SentLater ==
    ASSUME numberItems \in Nat \ {0}, numberItems' = numberItems, sent \in Seq(Items),
           NEW item \in Items, sent' = Append(sent, item)
    PROVE  /\ \A b, m \in Nat : b * numberItems + m <= Len(sent)
                => \A i : Partial(b, m, i)' = Partial(b, m, i)
           /\ \A b \in Nat : (b + 1) * numberItems <= Len(sent)
                => /\ \A i : SumOf(b, i)' = SumOf(b, i)
                   /\ \A k, c : CoefficientOf(b, k, c)' = CoefficientOf(b, k, c)
<1> DEFINE n == numberItems
<1>1. ASSUME NEW b \in Nat, NEW m \in Nat, b * n + m <= Len(sent)
      PROVE  \A j \in 1 .. m : sent'[b * n + j] = sent[b * n + j]
  <2> SUFFICES ASSUME NEW j \in 1 .. m PROVE sent'[b * n + j] = sent[b * n + j]
    OBVIOUS
  <2> DEFINE p == b * n
  <2>1. p \in Nat
    <3>1. \A f, g \in Nat : f * g \in Nat OBVIOUS
    <3> QED BY <3>1
  <2>2. p + m <= Len(sent) BY <1>1
  <2> HIDE DEF p
  <2>3. p + j \in 1 .. Len(sent) BY <2>1, <2>2
  <2>4. sent'[p + j] = sent[p + j] BY <2>3
  <2> QED BY <2>4 DEF p
<1>2. ASSUME NEW b \in Nat, NEW m \in Nat, b * n + m <= Len(sent), NEW i
      PROVE  Partial(b, m, i)' = Partial(b, m, i)
  BY <1>1, <1>2, PartialKept
<1>3. ASSUME NEW b \in Nat, (b + 1) * n <= Len(sent)
      PROVE  \A j \in 1 .. n : sent'[b * n + j] = sent[b * n + j]
  <2>1. (b + 1) * n = b * n + n OBVIOUS
  <2>2. n \in Nat OBVIOUS
  <2> HIDE DEF n
  <2> QED BY <1>1, <1>3, <2>1, <2>2
<1>4. ASSUME NEW b \in Nat, (b + 1) * n <= Len(sent), NEW i
      PROVE  SumOf(b, i)' = SumOf(b, i)
  <2>1. [j \in 1 .. numberItems' |-> Contribution(sent'[b * numberItems' + j], i)]
          = [j \in 1 .. numberItems |-> Contribution(sent[b * numberItems + j], i)]
    BY <1>3, <1>4
  <2> QED BY <2>1 DEF SumOf, Partial
<1>5. ASSUME NEW b \in Nat, (b + 1) * n <= Len(sent), NEW k, NEW c
      PROVE  CoefficientOf(b, k, c)' = CoefficientOf(b, k, c)
  BY <1>3, <1>5, CoefficientKept
<1> QED BY <1>2, <1>4, <1>5
-----------------------------------------------------------------------------
LEMMA CorrUntouched ==
    ASSUME K!CorrInv, UNCHANGED <<data_source, sums, samples, corrVars>>
    PROVE  K!CorrInv'
<1>1. UNCHANGED K!vars
  BY DEF K!vars, K!corrState, corrVars
<1> QED BY <1>1, ParameterAssumption, K!NextCorrInv DEF K!Lanes, K!Words, Lanes, Words

(* The host's steps: it sends an item, which is a request, ...             *)
LEMMA SendStep ==
    ASSUME numberItems \in Nat \ {0}, K!CorrInv, NEW a, NEW m, NEW e, Progress(a, m, e), Send
    PROVE  K!CorrInv' /\ Progress(a, m, e)' /\ Service!Request
<1> DEFINE n == numberItems
<1>0. PICK q \in Nat : q = a * n + m
  BY BatchesAreSent
<1>1. a \in Nat /\ m \in 0 .. n - 1 /\ e \in Nat /\ ItemsInOrder(q)
      /\ SumsInOrder(a, m, Taken(e)) /\ BatchAtHand(e) /\ AnswersInOrder(e)
  BY <1>0 DEF Progress
<1>2. PICK item \in Items : sent' = Append(sent, item)
                            /\ axis_host_sink' = Append(axis_host_sink, item)
  BY DEF Send
<1>3. /\ UNCHANGED <<data_source, sums, result_values, axis_host_src, samples, inState,
                     outState, corrVars, coeffVars, numberItems, received>>
  BY DEF Send
<1>4. K!CorrInv'
  BY <1>3, CorrUntouched
<1>5. /\ sent \in Seq(Items) /\ axis_host_sink \in Seq(Items)
      /\ sent' \in Seq(Items) /\ axis_host_sink' \in Seq(Items)
      /\ Len(sent') = Len(sent) + 1 /\ Len(axis_host_sink') = Len(axis_host_sink) + 1
      /\ \A j \in 1 .. Len(sent) : sent'[j] = sent[j]
      /\ sent'[Len(sent) + 1] = item
      /\ \A j \in 1 .. Len(axis_host_sink) : axis_host_sink'[j] = axis_host_sink[j]
      /\ axis_host_sink'[Len(axis_host_sink) + 1] = item
  <2>1. sent \in Seq(Items) /\ axis_host_sink \in Seq(Items) BY <1>1 DEF ItemsInOrder
  <2> QED BY <1>2, <2>1, AppendProperties
<1>6. q \in Nat /\ Len(Waiting) \in Nat /\ q + Len(Waiting) <= Len(sent)
      /\ Waiting' = Waiting
  BY <1>0, <1>3, BatchesAreSent DEF Waiting, inState
<1>7. ItemsInOrder(q)'
  <2>1. valid_read' = valid_read /\ y' = y /\ counter_read' = counter_read
        /\ numberItems' = numberItems
    BY <1>3 DEF inState
  <2>2. Len(sent') = q + Len(Waiting') + Len(axis_host_sink')
    BY <1>1, <1>5, <1>6 DEF ItemsInOrder
  <2>3. ASSUME NEW k \in 1 .. Len(Waiting)
        PROVE  Waiting'[k] = [last |-> (q + k) % numberItems' = 0, val |-> sent'[q + k]]
    <3>1. q + k \in 1 .. Len(sent) BY <1>5, <1>6
    <3>2. sent'[q + k] = sent[q + k] BY <1>5, <3>1
    <3> QED BY <1>1, <1>6, <2>1, <3>2 DEF ItemsInOrder
  <2>4. ASSUME NEW k \in 1 .. Len(axis_host_sink')
        PROVE  axis_host_sink'[k] = sent'[q + Len(Waiting) + k]
    <3>1. Len(sent) = q + Len(Waiting) + Len(axis_host_sink)
      BY <1>1 DEF ItemsInOrder
    <3>2. CASE k = Len(axis_host_sink) + 1
      <4>1. q + Len(Waiting) + k = Len(sent) + 1 BY <1>5, <1>6, <3>1, <3>2
      <4>2. axis_host_sink'[k] = item BY <1>5, <3>2
      <4>3. sent'[q + Len(Waiting) + k] = item BY <1>5, <4>1
      <4> QED BY <4>2, <4>3
    <3>3. CASE k \in 1 .. Len(axis_host_sink)
      <4>1. q + Len(Waiting) + k \in 1 .. Len(sent) BY <1>5, <1>6, <3>1, <3>3
      <4>2. axis_host_sink[k] = sent[q + Len(Waiting) + k]
        BY <1>1, <3>3 DEF ItemsInOrder
      <4> QED BY <1>5, <3>3, <4>1, <4>2
    <3> QED BY <1>5, <3>2, <3>3
  <2>5. counter_read' = (q + Len(Waiting')) % numberItems'
    BY <1>1, <1>6, <2>1 DEF ItemsInOrder
  <2>6. valid_read' \in BOOLEAN /\ (valid_read' => y' \in CORR!InputFlit)
    BY <1>1, <2>1 DEF ItemsInOrder
  <2> QED BY <1>5, <1>6, <2>2, <2>3, <2>4, <2>5, <2>6 DEF ItemsInOrder
<1>8. a * n + m <= Len(sent)
  BY <1>0, <1>5, <1>6
<1>9. Taken(e)' = Taken(e)
  BY <1>3, TakenFrame
<1>10. SumsInOrder(a, m, Taken(e))'
  <2>1. K!OpenSums' = K!OpenSums /\ K!Uncollected' = K!Uncollected
    <3>1. UNCHANGED <<sums, K!corrState>> BY <1>3 DEF K!corrState, corrVars
    <3> QED BY <3>1, ParameterAssumption, K!OwedFrame DEF K!Lanes, K!Words, Lanes, Words
  <2>2. ASSUME NEW i \in 0 .. F - 1 PROVE K!OpenSums'[i] = Partial(a, m, i)'
    <3>1. Partial(a, m, i)' = Partial(a, m, i)
      BY <1>1, <1>2, <1>3, <1>5, <1>8, SentLater
    <3> QED BY <1>1, <2>1, <3>1 DEF SumsInOrder
  <2> DEFINE t == Taken(e)
  <2>3. ASSUME NEW k \in 1 .. Len(K!Uncollected), NEW b \in Nat, NEW i \in 0 .. F - 1,
               t + k = b * F + i + 1
        PROVE  K!Uncollected[k] = [last |-> i + 1 = F, val |-> SumOf(b, i)']
    <3>1. K!Uncollected[k] = [last |-> i + 1 = F, val |-> SumOf(b, i)]
      BY <1>1, <2>3 DEF SumsInOrder
    <3>2. t \in Nat /\ t + Len(K!Uncollected) = a * F /\ Len(K!Uncollected) \in Nat
          /\ a * F \in Nat
      BY <1>1, BatchesAreSent DEF SumsInOrder
    <3> HIDE DEF t
    <3>3. t + k <= a * F BY <3>2
    <3>4. b * F + i + 1 <= a * F BY <2>3, <3>3
    <3>5. b + 1 <= a BY <1>1, <3>4, KernelSizes, PlaceBefore
    <3>6. (b + 1) * n <= Len(sent) BY <3>5, BatchesAreSent
    <3>7. SumOf(b, i)' = SumOf(b, i) BY <1>2, <1>3, <1>5, <3>6, SentLater
    <3> QED BY <3>1, <3>7
  <2>4. t + Len(K!Uncollected') = a * F BY <1>1, <2>1 DEF SumsInOrder
  <2> HIDE DEF t
  <2>5. \A k \in 1 .. Len(K!Uncollected'), b \in Nat, i \in 0 .. F - 1 :
           t + k = b * F + i + 1
             => K!Uncollected'[k] = [last |-> i + 1 = F, val |-> SumOf(b, i)']
    BY <2>1, <2>3
  <2>6. Taken(e)' = t BY <1>9 DEF t
  <2> QED BY <2>2, <2>4, <2>5, <2>6 DEF SumsInOrder
<1>11. BatchAtHand(e)'
  <2>1. /\ CoeffTypes' /\ (coeff_state' # "FEED" => counter' = 0)
        /\ IsPair(index', row', col')
        /\ (coeff_state' # "COMPUTE" => row' = 0 /\ col' = 1 /\ index' = 0)
    BY <1>1, <1>3 DEF BatchAtHand, CoeffTypes, coeffVars
  <2>2. ASSUME NEW i \in 0 .. F - 1, Filled(i)' PROVE Stored(i)' = SumOf(e, i)'
    <3>1. Filled(i) /\ Stored(i)' = Stored(i)
      BY <1>3, <2>2 DEF Filled, Stored, coeffVars
    <3>2. (e + 1) * n <= Len(sent) BY <1>1, <3>1, BatchesAreSent
    <3>3. SumOf(e, i)' = SumOf(e, i) BY <1>1, <1>2, <1>3, <1>5, <3>2, SentLater
    <3> QED BY <1>1, <3>1, <3>3 DEF BatchAtHand
  <2>3. ASSUME NEW k \in Pairs, Computed(k)'
        PROVE  \E c \in Counts : coeff'[k] = CoefficientOf(e, k, c)'
    <3>1. Computed(k) /\ coeff' = coeff
      BY <1>3, <2>3 DEF Computed, coeffVars
    <3>2. (e + 1) * n <= Len(sent) BY <1>1, <3>1, BatchesAreSent
    <3>3. PICK c \in Counts : coeff[k] = CoefficientOf(e, k, c)
      BY <1>1, <3>1 DEF BatchAtHand
    <3>4. CoefficientOf(e, k, c)' = CoefficientOf(e, k, c)
      BY <1>1, <1>2, <1>3, <1>5, <3>2, SentLater
    <3> QED BY <3>1, <3>3, <3>4
  <2> QED BY <2>1, <2>2, <2>3 DEF BatchAtHand
<1>12. AnswersInOrder(e)'
  <2>1. UNCHANGED <<received, axis_host_src, result_values, outState, coeff_state, counter_rd>>
        /\ Results' = Results
    BY <1>3 DEF coeffVars, outState, Results
  <2>2. ASSUME NEW k \in 1 .. Len(Results), NEW b \in Nat, NEW i \in Pairs, k = b * P + i + 1
        PROVE  /\ (b + 1) * numberItems' <= Len(sent')
               /\ \E c \in Counts :
                     Results[k] = [last |-> i + 1 = P, val |-> CoefficientOf(b, i, c)']
    <3>1. (b + 1) * n <= Len(sent)
      BY <1>1, <2>2 DEF AnswersInOrder
    <3>2. PICK c \in Counts : Results[k] = [last |-> i + 1 = P, val |-> CoefficientOf(b, i, c)]
      BY <1>1, <2>2 DEF AnswersInOrder
    <3>3. CoefficientOf(b, i, c)' = CoefficientOf(b, i, c)
      BY <1>2, <1>3, <1>5, <3>1, SentLater
    <3>4. (b + 1) * n \in Nat
      <4>1. \A f, g \in Nat : f * g \in Nat OBVIOUS
      <4> QED BY <4>1
    <3>5. (b + 1) * n <= Len(sent') BY <1>5, <3>1, <3>4
    <3> QED BY <1>3, <3>2, <3>3, <3>5
  <2>3. \A k \in 1 .. Len(Results'), b \in Nat, i \in Pairs : k = b * P + i + 1 =>
           /\ (b + 1) * numberItems' <= Len(sent')
           /\ \E c \in Counts :
                 Results'[k] = [last |-> i + 1 = P, val |-> CoefficientOf(b, i, c)']
    BY <2>1, <2>2
  <2> QED BY <1>1, <2>1, <2>3 DEF AnswersInOrder, outState
<1>13. Progress(a, m, e)'
  BY <1>0, <1>1, <1>3, <1>7, <1>10, <1>11, <1>12 DEF Progress
<1>14. Service!Request
  BY <1>2, <1>3 DEF Service!Request
<1> QED BY <1>4, <1>13, <1>14
-----------------------------------------------------------------------------
(* The parts of the way to the host.                                       *)
LEMMA MoveHead ==
    ASSUME NEW S, NEW s \in Seq(S), NEW t \in Seq(S), t # << >>
    PROVE  Append(s, Head(t)) \o Tail(t) = s \o t
<1>1. Head(t) \in S /\ Tail(t) \in Seq(S) /\ << Head(t) >> \in Seq(S)
  BY HeadTailProperties
<1>2. t = << Head(t) >> \o Tail(t)
  OBVIOUS
<1>3. Append(s, Head(t)) = s \o << Head(t) >>
  BY <1>1, AppendIsConcat
<1>4. (s \o << Head(t) >>) \o Tail(t) = s \o (<< Head(t) >> \o Tail(t))
  BY <1>1, ConcatAssociative
<1> QED BY <1>2, <1>3, <1>4

Cat(s, t) == s \o t

LEMMA CatAssociative ==
    ASSUME NEW S
    PROVE  \A s, t, u \in Seq(S) :
              Cat(Cat(s, t), u) = Cat(s, Cat(t, u)) /\ Cat(s, t) \in Seq(S)
  BY ConcatAssociative, ConcatProperties DEF Cat

WriteOut == IF valid_write THEN << x >> ELSE << >>
ReadOut  == IF coeff_write THEN << [last |-> coeff_last, val |-> coeff_value] >> ELSE << >>

LEMMA ResultsAre == Results = (((received \o axis_host_src) \o WriteOut) \o result_values) \o ReadOut
  BY DEF Results, WriteOut, ReadOut

LEMMA WayTypes ==
    ASSUME NEW e, BatchAtHand(e), AnswersInOrder(e)
    PROVE  /\ received \in Seq(COEFF!CoeffFlit) /\ axis_host_src \in Seq(COEFF!CoeffFlit)
           /\ result_values \in Seq(COEFF!CoeffFlit)
           /\ WriteOut \in Seq(COEFF!CoeffFlit) /\ ReadOut \in Seq(COEFF!CoeffFlit)
           /\ Results \in Seq(COEFF!CoeffFlit)
<1>1. /\ received \in Seq(COEFF!CoeffFlit) /\ axis_host_src \in Seq(COEFF!CoeffFlit)
      /\ result_values \in Seq(COEFF!CoeffFlit)
      /\ valid_write \in BOOLEAN /\ x \in COEFF!CoeffFlit
  BY DEF AnswersInOrder
<1>2. WriteOut \in Seq(COEFF!CoeffFlit)
  BY <1>1 DEF WriteOut
<1>3. [last |-> coeff_last, val |-> coeff_value] \in COEFF!CoeffFlit
  BY DEF BatchAtHand, CoeffTypes, COEFF!CoeffFlit, COEFF!Coeffs, Coeffs, COEFF!Words, Words
<1>4. ReadOut \in Seq(COEFF!CoeffFlit)
  BY <1>3 DEF ReadOut
<1>5. Results \in Seq(COEFF!CoeffFlit)
  BY <1>1, <1>2, <1>4, ResultsAre, ConcatProperties
<1> QED BY <1>1, <1>2, <1>4, <1>5

LEMMA ServiceParameters ==
    Service!Pair = Pair /\ Service!Counts = Counts
<1>1. Service!Pair = Pair
  BY Zenon DEF Service!Pair, Pair, Service!Pairs, Pairs, Service!NextPair, NextPair
<1>2. Service!Counts = Counts
  BY DEF Service!Counts, Counts
<1> QED BY <1>1, <1>2

(* Steps that only move results leave the rest as it is.                   *)
LEMMA OutputOnly ==
    ASSUME K!CorrInv, NEW a, NEW m, NEW e, Progress(a, m, e),
           UNCHANGED <<axis_host_sink, data_source, sums, samples, inState, corrVars,
                       coeffVars, numberItems, sent>>
    PROVE  /\ K!CorrInv' /\ ItemsInOrder(a * numberItems + m)'
           /\ SumsInOrder(a, m, Taken(e))' /\ BatchAtHand(e)'
<1>1. K!CorrInv'
  BY CorrUntouched
<1>2. ItemsInOrder(a * numberItems + m)'
  <2>1. PICK q : q = a * numberItems + m
    OBVIOUS
  <2>2. ItemsInOrder(q)' BY <2>1, ItemsFrame DEF Progress
  <2>3. (a * numberItems + m)' = q BY <2>1
  <2> QED BY <2>2, <2>3 DEF ItemsInOrder
<1>3. SumsInOrder(a, m, Taken(e))'
  <2>1. PICK t : t = Taken(e)
    OBVIOUS
  <2>2. SumsInOrder(a, m, t)' BY <2>1, SumsFrame DEF Progress
  <2>3. Taken(e)' = t BY <2>1, TakenFrame
  <2> QED BY <2>2, <2>3 DEF SumsInOrder
<1>4. BatchAtHand(e)'
  BY BatchFrame DEF Progress
<1> QED BY <1>1, <1>2, <1>3, <1>4

(* ... and it takes a result, which is an answer.                         *)
LEMMA ReceiveStep ==
    ASSUME numberItems \in Nat \ {0}, K!CorrInv, NEW a, NEW m, NEW e, Progress(a, m, e),
           Receive
    PROVE  K!CorrInv' /\ Progress(a, m, e)' /\ Service!Answer
<1>1. /\ UNCHANGED <<axis_host_sink, data_source, sums, result_values, samples, inState,
                     outState, corrVars, coeffVars, numberItems, sent>>
      /\ axis_host_src # << >> /\ axis_host_src' = Tail(axis_host_src)
      /\ received' = Append(received, Head(axis_host_src))
  BY DEF Receive
<1>2. /\ a \in Nat /\ m \in 0 .. numberItems - 1 /\ e \in Nat
      /\ ItemsInOrder(a * numberItems + m)
      /\ SumsInOrder(a, m, Taken(e)) /\ BatchAtHand(e) /\ AnswersInOrder(e)
  BY DEF Progress
<1>3. /\ K!CorrInv' /\ ItemsInOrder(a * numberItems + m)' /\ SumsInOrder(a, m, Taken(e))'
      /\ BatchAtHand(e)'
  BY <1>1, OutputOnly
<1>7. /\ received \in Seq(COEFF!CoeffFlit) /\ axis_host_src \in Seq(COEFF!CoeffFlit)
      /\ result_values \in Seq(COEFF!CoeffFlit)
      /\ WriteOut \in Seq(COEFF!CoeffFlit) /\ ReadOut \in Seq(COEFF!CoeffFlit)
      /\ Results \in Seq(COEFF!CoeffFlit)
  BY <1>2, WayTypes
<1>8. received' \o axis_host_src' = received \o axis_host_src
  BY <1>1, <1>7, MoveHead
<1>9. Results' = Results
  <2>1. WriteOut' = WriteOut /\ ReadOut' = ReadOut
    BY <1>1 DEF WriteOut, ReadOut, outState, coeffVars
  <2>2. Results' = (((received' \o axis_host_src') \o WriteOut') \o result_values') \o ReadOut'
    BY DEF Results, WriteOut, ReadOut
  <2> QED BY <1>1, <1>8, <2>1, <2>2, ResultsAre
<1>10. received' \in Seq(COEFF!CoeffFlit) /\ axis_host_src' \in Seq(COEFF!CoeffFlit)
  BY <1>1, <1>7, HeadTailProperties, AppendProperties
<1>11. AnswersInOrder(e)'
  BY <1>1, <1>2, <1>9, <1>10, AnswersSame DEF AnswersInOrder, outState, coeffVars
<1>12. Progress(a, m, e)'
  BY <1>1, <1>2, <1>3, <1>11 DEF Progress
<1> DEFINE k == Len(received) + 1
           b == Service!BatchOf(k)
           i == Service!PairOf(k)
<1>13. b \in Nat /\ i \in Pairs /\ k = b * P + i + 1
  <2>1. Len(received) \in Nat BY <1>7
  <2>2. k - 1 = Len(received) BY <2>1
  <2>3. b = Len(received) \div P /\ i = Len(received) % P
    BY <2>2 DEF Service!BatchOf, Service!PairOf
  <2>4. b \in Nat /\ i \in 0 .. P - 1 /\ Len(received) = b * P + i
    BY <2>1, <2>3, KernelSizes, PlaceOf
  <2> HIDE DEF b, i
  <2>5. b * P \in Nat
    <3>1. \A f, g \in Nat : f * g \in Nat OBVIOUS
    <3> QED BY <3>1, <2>4, KernelSizes
  <2> QED BY <2>1, <2>4, <2>5 DEF Pairs
<1>14. k \in 1 .. Len(Results) /\ Results[k] = Head(axis_host_src)
  <2> DEFINE s1 == received \o axis_host_src
             s2 == s1 \o WriteOut
             s3 == s2 \o result_values
  <2>1. /\ s1 \in Seq(COEFF!CoeffFlit) /\ s2 \in Seq(COEFF!CoeffFlit)
        /\ s3 \in Seq(COEFF!CoeffFlit)
    BY <1>7, ConcatProperties
  <2>2. Results = s3 \o ReadOut
    BY ResultsAre
  <2>3. Len(axis_host_src) \in Nat \ {0} /\ axis_host_src[1] = Head(axis_host_src)
        /\ Len(received) \in Nat
    BY <1>1, <1>7
  <2>4. k \in 1 .. Len(s1) /\ s1[k] = Head(axis_host_src)
    <3>1. Len(s1) = Len(received) + Len(axis_host_src) BY <1>7, ConcatProperties
    <3>2. k \in 1 .. Len(received) + Len(axis_host_src) /\ ~(k <= Len(received))
          /\ k - Len(received) = 1
      BY <2>3
    <3>3. s1[k] = axis_host_src[k - Len(received)]
      BY <1>7, <3>2, ConcatProperties
    <3> QED BY <2>3, <3>1, <3>2, <3>3
  <2> HIDE DEF k, s1
  <2>5. k \in 1 .. Len(s2) /\ s2[k] = Head(axis_host_src)
    BY <1>7, <2>1, <2>4, ConcatProperties
  <2> HIDE DEF s2
  <2>6. k \in 1 .. Len(s3) /\ s3[k] = Head(axis_host_src)
    BY <1>7, <2>1, <2>5, ConcatProperties
  <2> HIDE DEF s3
  <2> QED BY <1>7, <2>1, <2>2, <2>6, ConcatProperties
<1> HIDE DEF k, b, i
<1>15. (b + 1) * numberItems <= Len(sent)
  BY <1>2, <1>13, <1>14 DEF AnswersInOrder
<1>16. PICK c \in Counts : Results[k] = [last |-> i + 1 = P, val |-> CoefficientOf(b, i, c)]
  BY <1>2, <1>13, <1>14 DEF AnswersInOrder
<1>17. i + 1 = P <=> i = P - 1
  BY <1>13, KernelSizes DEF Pairs
<1>18. Head(axis_host_src)
         = [last |-> i = P - 1,
            val  |-> Service!Pearson(b, Service!Pair[i][1], Service!Pair[i][2], c)]
  BY <1>14, <1>16, <1>17, ServiceParameters DEF CoefficientOf
<1>19. Service!Answer
  BY <1>1, <1>15, <1>18, ServiceParameters DEF Service!Answer, k, b, i
<1> QED BY <1>3, <1>12, <1>19

(* convert_data_out moves results on to the host.                          *)
LEMMA ConvertDataOutStep ==
    ASSUME K!CorrInv, NEW a, NEW m, NEW e, Progress(a, m, e), ConvertDataOut
    PROVE  K!CorrInv' /\ Progress(a, m, e)' /\ UNCHANGED Service!cvars
<1>1. /\ UNCHANGED <<axis_host_sink, data_source, sums, samples, inState, corrVars,
                     coeffVars, numberItems, sent>>
      /\ received' = received
      /\ axis_host_src' = IF valid_write THEN Append(axis_host_src, x) ELSE axis_host_src
  BY DEF ConvertDataOut, host
<1>2. /\ a \in Nat /\ m \in 0 .. numberItems - 1 /\ e \in Nat
      /\ BatchAtHand(e) /\ AnswersInOrder(e)
  BY DEF Progress
<1>3. /\ K!CorrInv' /\ ItemsInOrder(a * numberItems + m)' /\ SumsInOrder(a, m, Taken(e))'
      /\ BatchAtHand(e)'
  BY <1>1, OutputOnly
<1> DEFINE S == COEFF!CoeffFlit
           r == received
           h == axis_host_src
           w == WriteOut
           w2 == WriteOut'
           v == result_values
           v2 == result_values'
           c == ReadOut
<1>4. r \in Seq(S) /\ h \in Seq(S) /\ w \in Seq(S) /\ v \in Seq(S) /\ c \in Seq(S)
      /\ Results = (((r \o h) \o w) \o v) \o c
  BY <1>2, WayTypes, ResultsAre
<1>5. axis_host_src' = h \o w
  <2>1. CASE valid_write
    BY <1>1, <1>2, <1>4, <2>1, AppendIsConcat DEF WriteOut, AnswersInOrder
  <2>2. CASE ~valid_write
    BY <1>1, <1>4, <2>2, ConcatEmptySeq DEF WriteOut
  <2> QED BY <2>1, <2>2
<1>6. /\ w2 \in Seq(S) /\ v2 \in Seq(S) /\ w2 \o v2 = v
      /\ valid_write' \in BOOLEAN /\ x' \in S
  <2>1. ASSUME result_values # << >>
        PROVE  /\ w2 \in Seq(S) /\ v2 \in Seq(S) /\ w2 \o v2 = v
               /\ valid_write' \in BOOLEAN /\ x' \in S
    <3>1. x' = Head(v) /\ v2 = Tail(v) /\ valid_write' = TRUE
      BY <2>1 DEF ConvertDataOut
    <3>2. Head(v) \in S /\ Tail(v) \in Seq(S) /\ << Head(v) >> \in Seq(S)
          /\ << Head(v) >> \o Tail(v) = v
      BY <1>4, <2>1, HeadTailProperties
    <3>3. w2 = << Head(v) >> BY <3>1 DEF WriteOut
    <3>4. x' \in S BY <3>1, <3>2, Zenon
    <3>5. v2 \in Seq(S) BY <3>1, <3>2, Zenon
    <3>6. w2 \in Seq(S) /\ w2 \o v2 = v BY <3>1, <3>2, <3>3, Zenon
    <3> QED BY ONLY <3>1, <3>4, <3>5, <3>6, Zenon
  <2>2. ASSUME result_values = << >>
        PROVE  /\ w2 \in Seq(S) /\ v2 \in Seq(S) /\ w2 \o v2 = v
               /\ valid_write' \in BOOLEAN /\ x' \in S
    <3>1. x' = x /\ v2 = v /\ valid_write' = FALSE
      BY <2>2 DEF ConvertDataOut
    <3>2. w2 = << >> BY <3>1 DEF WriteOut
    <3>3. x \in S BY <1>2 DEF AnswersInOrder
    <3>4. w2 \in Seq(S) /\ w2 \o v = v BY <1>4, <3>2, ConcatEmptySeq
    <3>5. v2 \in Seq(S) /\ w2 \o v2 = v BY <1>4, <3>1, <3>4, Zenon
    <3>6. x' \in S BY <3>1, <3>3, Zenon
    <3> QED BY ONLY <3>1, <3>4, <3>5, <3>6, Zenon
  <2> QED BY <2>1, <2>2, Zenon
<1>7. Results' = (((r \o (h \o w)) \o w2) \o v2) \o c
  BY <1>1, <1>5 DEF Results, WriteOut, ReadOut, coeffVars
<1>8. Results' = Results
  <2> HIDE DEF S, r, h, w, w2, v, v2, c
  <2>1. r \in Seq(S) /\ h \in Seq(S) /\ w \in Seq(S) /\ v \in Seq(S) /\ c \in Seq(S)
        /\ w2 \in Seq(S) /\ v2 \in Seq(S) /\ Cat(w2, v2) = v
    BY <1>4, <1>6, Zenon DEF Cat
  <2>2. Cat(Cat(Cat(Cat(r, Cat(h, w)), w2), v2), c) = Cat(Cat(Cat(Cat(r, h), w), v), c)
    <3>1. \A s, t, u \in Seq(S) :
             Cat(Cat(s, t), u) = Cat(s, Cat(t, u)) /\ Cat(s, t) \in Seq(S)
      BY CatAssociative
    <3> QED BY <2>1, <3>1
  <2> QED BY <1>4, <1>7, <2>2, Zenon DEF Cat
<1>9. axis_host_src' \in Seq(COEFF!CoeffFlit)
  BY <1>4, <1>5, ConcatProperties
<1>10. AnswersInOrder(e)'
  BY <1>1, <1>2, <1>6, <1>8, <1>9, AnswersSame DEF AnswersInOrder, coeffVars
<1>11. Progress(a, m, e)'
  BY <1>1, <1>2, <1>3, <1>10 DEF Progress
<1> QED BY <1>1, <1>3, <1>11 DEF Service!cvars
-----------------------------------------------------------------------------
(* convert_data_in moves items on to CORR.                                 *)
LEMMA InputMoved ==
    ASSUME numberItems \in Nat \ {0}, K!CorrInv, NEW q \in Nat, ItemsInOrder(q), ConvertDataIn,
           Waiting \in Seq(CORR!InputFlit)
    PROVE  /\ data_source' = Waiting
           /\ K!CorrInv'
           /\ axis_host_sink # << >> => Waiting' = Append(Waiting, y')
           /\ axis_host_sink = << >> => Waiting' = Waiting
<1>1. data_source \in Seq(CORR!InputFlit)
  BY DEF K!CorrInv, K!CorrTypeOK, K!InputFlit, CORR!InputFlit
<1>2. valid_read \in BOOLEAN /\ (valid_read => y \in CORR!InputFlit)
  BY DEF ItemsInOrder
<1>3. data_source' = Waiting
  <2>1. CASE valid_read
    <3>1. data_source' = Append(data_source, y) BY <2>1 DEF ConvertDataIn
    <3> QED BY <1>1, <1>2, <2>1, <3>1, AppendIsConcat DEF Waiting
  <2>2. CASE ~valid_read
    <3>1. data_source' = data_source BY <2>2 DEF ConvertDataIn
    <3> QED BY <1>1, <2>2, <3>1, ConcatEmptySeq DEF Waiting
  <2> QED BY <2>1, <2>2
<1>4. K!CorrInv'
  <2>1. UNCHANGED <<sums, samples, K!corrState>>
    BY DEF ConvertDataIn, corrVars, K!corrState
  <2>2. CASE valid_read
    <3>1. Len(data_source) < Depth /\ data_source' = Append(data_source, y)
      BY <2>2 DEF ConvertDataIn
    <3>2. K!Offer(y) BY <2>1, <3>1 DEF K!Offer
    <3>3. y \in K!InputFlit BY <1>2, <2>2 DEF K!InputFlit, CORR!InputFlit
    <3>4. K!Next BY <3>2, <3>3 DEF K!Next
    <3> QED BY <3>4, ParameterAssumption, K!NextCorrInv DEF K!Lanes, K!Words, Lanes, Words
  <2>3. CASE ~valid_read
    <3>1. data_source' = data_source BY <2>3 DEF ConvertDataIn
    <3>2. UNCHANGED K!vars BY <2>1, <3>1 DEF K!vars
    <3> QED BY <3>2, ParameterAssumption, K!NextCorrInv DEF K!Lanes, K!Words, Lanes, Words
  <2> QED BY <2>2, <2>3
<1>5. ASSUME axis_host_sink # << >> PROVE Waiting' = Append(Waiting, y')
  <2>1. valid_read' = TRUE BY <1>5 DEF ConvertDataIn
  <2>2. Waiting' = Waiting \o << y' >> BY <1>3, <2>1 DEF Waiting
  <2> DEFINE s == Waiting
             z == y'
  <2>3. s \o << z >> = Append(s, z)
    <3>1. s \in Seq(CORR!InputFlit) OBVIOUS
    <3> HIDE DEF s, z
    <3> QED BY <3>1
  <2> QED BY <2>2, <2>3
<1>6. ASSUME axis_host_sink = << >> PROVE Waiting' = Waiting
  <2>1. valid_read' = FALSE BY <1>6 DEF ConvertDataIn
  <2>2. Waiting' = Waiting \o << >> BY <1>3, <2>1 DEF Waiting
  <2> DEFINE s == Waiting
  <2>3. s \o << >> = s
    BY ConcatEmptySeq
  <2> QED BY <2>2, <2>3
<1> QED BY <1>3, <1>4, <1>5, <1>6

LEMMA ConvertDataInStep ==
    ASSUME numberItems \in Nat \ {0}, K!CorrInv, NEW a, NEW m, NEW e, Progress(a, m, e),
           ConvertDataIn
    PROVE  K!CorrInv' /\ Progress(a, m, e)' /\ UNCHANGED Service!cvars
<1>0. PICK n \in Nat \ {0} : n = numberItems
  OBVIOUS
<1>1. PICK q \in Nat : q = a * n + m
  BY <1>0, BatchesAreSent
<1>2. /\ a \in Nat /\ m \in 0 .. n - 1 /\ e \in Nat /\ ItemsInOrder(q)
      /\ SumsInOrder(a, m, Taken(e)) /\ BatchAtHand(e) /\ AnswersInOrder(e)
  BY <1>0, <1>1 DEF Progress
<1>3. UNCHANGED <<sums, result_values, axis_host_src, samples, outState, corrVars, coeffVars,
                  numberItems, sent, received>>
  BY DEF ConvertDataIn, host
<1>4. Waiting \in Seq(CORR!InputFlit)
  BY BatchesAreSent
<1>5. /\ K!CorrInv'
      /\ axis_host_sink # << >> => Waiting' = Append(Waiting, y')
      /\ axis_host_sink = << >> => Waiting' = Waiting
  BY <1>2, <1>4, InputMoved
<1>6. PICK l \in Nat : l = Len(Waiting)
  BY <1>4
<1>7. /\ sent \in Seq(Items) /\ axis_host_sink \in Seq(Items)
      /\ valid_read \in BOOLEAN /\ (valid_read => y \in CORR!InputFlit)
      /\ Len(sent) = q + l + Len(axis_host_sink)
      /\ counter_read = (q + l) % n
      /\ \A k \in 1 .. l : Waiting[k] = [last |-> (q + k) % n = 0, val |-> sent[q + k]]
      /\ \A k \in 1 .. Len(axis_host_sink) : axis_host_sink[k] = sent[q + l + k]
  BY <1>0, <1>2, <1>6 DEF ItemsInOrder
<1>8. counter_read \in 0 .. n - 1
      /\ (q + l + 1) % n = IF counter_read + 1 = n THEN 0 ELSE counter_read + 1
  <2>1. q + l \in Nat OBVIOUS
  <2> QED BY <1>7, <2>1, PlaceOf, NextPlace
<1>9. ItemsInOrder(q)'
  <2>1. CASE axis_host_sink # << >>
    <3>1. /\ axis_host_sink' = Tail(axis_host_sink)
          /\ y' = [last |-> counter_read + 1 = n, val |-> Head(axis_host_sink)]
          /\ valid_read' = TRUE
          /\ counter_read' = IF counter_read + 1 = n THEN 0 ELSE counter_read + 1
      BY <1>0, <2>1 DEF ConvertDataIn, IsLast, Restarted
    <3>2. /\ Head(axis_host_sink) \in Items /\ Head(axis_host_sink) = sent[q + l + 1]
          /\ axis_host_sink' \in Seq(Items) /\ Len(axis_host_sink') = Len(axis_host_sink) - 1
          /\ Len(axis_host_sink) \in Nat \ {0}
          /\ \A k \in 1 .. Len(axis_host_sink') : axis_host_sink'[k] = axis_host_sink[k + 1]
      <4>1. Len(axis_host_sink) \in Nat \ {0} /\ 1 \in 1 .. Len(axis_host_sink)
            /\ Head(axis_host_sink) = axis_host_sink[1]
        BY <1>7, <2>1
      <4>2. Head(axis_host_sink) = sent[q + l + 1]
        BY <1>7, <4>1
      <4> QED BY <1>7, <2>1, <3>1, <4>1, <4>2, HeadTailProperties
    <3>3. y' = [last |-> (q + (l + 1)) % n = 0, val |-> sent[q + (l + 1)]]
      <4>1. q + (l + 1) = q + l + 1 OBVIOUS
      <4>2. (q + l + 1) % n = 0 <=> counter_read + 1 = n BY <1>8
      <4> QED BY <3>1, <3>2, <4>1, <4>2
    <3>4. y' \in CORR!InputFlit BY <3>1, <3>2 DEF CORR!InputFlit
    <3>5. /\ Len(Waiting') = l + 1
          /\ \A k \in 1 .. l : Waiting'[k] = Waiting[k]
          /\ Waiting'[l + 1] = y'
      BY <1>4, <1>5, <1>6, <2>1, <3>4, AppendProperties
    <3>6. \A k \in 1 .. l + 1 :
             Waiting'[k] = [last |-> (q + k) % n = 0, val |-> sent[q + k]]
      <4> SUFFICES ASSUME NEW k \in 1 .. l + 1
                   PROVE  Waiting'[k] = [last |-> (q + k) % n = 0, val |-> sent[q + k]]
        OBVIOUS
      <4>1. CASE k = l + 1 BY <3>3, <3>5, <4>1
      <4>2. CASE k \in 1 .. l BY <1>7, <3>5, <4>2
      <4> QED BY <4>1, <4>2
    <3>7. \A k \in 1 .. Len(axis_host_sink') : axis_host_sink'[k] = sent[q + (l + 1) + k]
      <4> SUFFICES ASSUME NEW k \in 1 .. Len(axis_host_sink')
                   PROVE  axis_host_sink'[k] = sent[q + (l + 1) + k]
        OBVIOUS
      <4>1. k + 1 \in 1 .. Len(axis_host_sink) /\ q + l + (k + 1) = q + (l + 1) + k
        BY <3>2
      <4> QED BY <1>7, <3>2, <4>1
    <3>8. counter_read' = (q + (l + 1)) % n
      <4>1. q + (l + 1) = q + l + 1 OBVIOUS
      <4> QED BY <1>8, <3>1, <4>1
    <3>9. Len(sent) = q + (l + 1) + Len(axis_host_sink') BY <1>7, <3>2
    <3> QED BY <1>0, <1>3, <1>7, <3>1, <3>2, <3>4, <3>5, <3>6, <3>7, <3>8, <3>9
            DEF ItemsInOrder
  <2>2. CASE axis_host_sink = << >>
    <3>1. /\ axis_host_sink' = axis_host_sink /\ y' = y /\ valid_read' = FALSE
          /\ counter_read' = counter_read
      BY <1>0, <1>8, <2>2 DEF ConvertDataIn, Restarted
    <3> QED BY <1>0, <1>2, <1>3, <1>5, <2>2, <3>1 DEF ItemsInOrder
  <2> QED BY <2>1, <2>2
<1>10. SumsInOrder(a, m, Taken(e))'
  <2>1. PICK t : t = Taken(e)
    OBVIOUS
  <2>2. SumsInOrder(a, m, t)' BY <1>2, <1>3, <2>1, SumsFrame
  <2>3. Taken(e)' = t BY <1>3, <2>1, TakenFrame
  <2> QED BY <2>2, <2>3 DEF SumsInOrder
<1>11. BatchAtHand(e)' /\ AnswersInOrder(e)'
  BY <1>2, <1>3, BatchFrame, AnswersFrame
<1>12. Progress(a, m, e)'
  BY <1>0, <1>1, <1>2, <1>3, <1>9, <1>10, <1>11 DEF Progress
<1> QED BY <1>3, <1>5, <1>12 DEF Service!cvars
-----------------------------------------------------------------------------
(* CORR's own steps.  The instance of Corr in Kernel and the one in K are  *)
(* the same.                                                               *)
LEMMA KernelParameters ==
    /\ K!F = F /\ K!Sums!F = F
    /\ \A item, i : /\ K!Square(item, i) = CORR!Square(item, i)
                    /\ K!Product(item, i) = CORR!Product(item, i)
                    /\ K!Sums!Square(item, i) = Square(item, i)
                    /\ K!Sums!Product(item, i) = Product(item, i)
<1>1. K!Pair = CORR!Pair
  BY Zenon DEF K!Pair, CORR!Pair, K!Pairs, CORR!Pairs, K!NextPair, CORR!NextPair
<1>2. K!Sums!Pair = Pair
  BY Zenon DEF K!Sums!Pair, Pair, K!Sums!Pairs, Pairs, K!Sums!NextPair, NextPair
<1>3. \A item, i : /\ K!Square(item, i) = CORR!Square(item, i)
                   /\ K!Sums!Square(item, i) = Square(item, i)
  BY DEF K!Square, CORR!Square, K!Sums!Square, Square
<1>4. \A item, i : /\ K!Product(item, i) = CORR!Product(item, i)
                   /\ K!Sums!Product(item, i) = Product(item, i)
  BY <1>1, <1>2, Zenon DEF K!Product, CORR!Product, K!Sums!Product, Product
<1>5. K!F = F /\ K!Sums!F = F
  BY DEF K!F, K!Sums!F, F
<1> QED BY <1>3, <1>4, <1>5

LEMMA CorrActions ==
    /\ CORR!ComputeItem => K!ComputeItem
    /\ CORR!ComputeIdle => K!ComputeIdle
    /\ CORR!ReadoutS \/ CORR!ReadoutSQ \/ CORR!ReadoutP
         => K!ReadoutS \/ K!ReadoutSQ \/ K!ReadoutP
<1> USE DEF CORR!Flush, K!Flush, CORR!Lanes, K!Lanes, CORR!Pairs, K!Pairs
<1>1. CORR!ComputeItem => K!ComputeItem
  BY KernelParameters, Zenon DEF CORR!ComputeItem, K!ComputeItem
<1>2. CORR!ComputeIdle => K!ComputeIdle
  BY DEF CORR!ComputeIdle, K!ComputeIdle
<1> USE DEF CORR!ReadAccumulator, K!ReadAccumulator, CORR!Advance, K!Advance,
            CORR!StateAfter, K!StateAfter, CORR!FinalProduct, K!FinalProduct
<1>3. CORR!ReadoutS => K!ReadoutS
  BY DEF CORR!ReadoutS, K!ReadoutS
<1>4. CORR!ReadoutSQ => K!ReadoutSQ
  BY DEF CORR!ReadoutSQ, K!ReadoutSQ
<1>5. CORR!ReadoutP => K!ReadoutP
  BY DEF CORR!ReadoutP, K!ReadoutP
<1> QED BY <1>1, <1>2, <1>3, <1>4, <1>5

LEMMA AccumulateCorrInv == ASSUME K!CorrInv, Accumulate PROVE K!CorrInv'
<1>1. CORR!ComputeItem \/ CORR!ComputeIdle \/ CORR!ReadoutS \/ CORR!ReadoutSQ \/ CORR!ReadoutP
  BY DEF Accumulate, CORR!Accumulate
<1>2. K!Next
  BY <1>1, CorrActions DEF K!Next, K!Accumulate
<1> QED BY <1>2, ParameterAssumption, K!NextCorrInv DEF K!Lanes, K!Words, Lanes, Words

(* What the other processes see of an invocation of CORR.                  *)
LEMMA CorrSteps ==
    ASSUME K!CorrInv, Accumulate
    PROVE  \/ /\ data_source # << >> /\ data_source' = Tail(data_source)
              /\ ~Head(data_source).last =>
                    /\ K!OpenSums' = K!Sums!Added(K!OpenSums, Head(data_source).val)
                    /\ K!Uncollected' = K!Uncollected
              /\ Head(data_source).last =>
                    /\ K!OpenSums' = K!Sums!NoSums
                    /\ K!Uncollected' = K!Uncollected
                          \o K!Sums!SumFlits(K!Sums!Added(K!OpenSums, Head(data_source).val))
           \/ UNCHANGED <<data_source, K!OpenSums, K!Uncollected>>
<1> USE ParameterAssumption DEF K!Lanes, K!Words, Lanes, Words
<1>1. CASE CORR!ComputeItem
  BY <1>1, CorrActions, K!ComputeItemStep
<1>2. CASE CORR!ComputeIdle
  BY <1>2, CorrActions, K!ComputeIdleStep
<1>3. CASE CORR!ReadoutS \/ CORR!ReadoutSQ \/ CORR!ReadoutP
  BY <1>3, CorrActions, K!ReadoutStep
<1> QED BY <1>1, <1>2, <1>3 DEF Accumulate, CORR!Accumulate

(* The item CORR takes leaves the front of those that wait.                *)
LEMMA ItemTaken ==
    ASSUME numberItems \in Nat \ {0}, K!CorrInv, NEW q \in Nat, ItemsInOrder(q),
           Waiting \in Seq(CORR!InputFlit),
           UNCHANGED <<sent, numberItems, axis_host_sink, inState>>,
           data_source # << >>, data_source' = Tail(data_source)
    PROVE  /\ ItemsInOrder(q + 1)'
           /\ q + 1 <= Len(sent)
           /\ Head(data_source) = [last |-> (q + 1) % numberItems = 0, val |-> sent[q + 1]]
<1> DEFINE rest == IF valid_read THEN << y >> ELSE << >>
           S == CORR!InputFlit
<1>1. data_source \in Seq(S)
  BY DEF K!CorrInv, K!CorrTypeOK, K!InputFlit, CORR!InputFlit
<1>2. rest \in Seq(S)
  BY DEF ItemsInOrder
<1>3. Waiting = data_source \o rest /\ Waiting' = Tail(data_source) \o rest
  BY DEF Waiting, inState
<1>4. /\ Tail(data_source) \in Seq(S) /\ Len(Tail(data_source)) = Len(data_source) - 1
      /\ \A k \in 1 .. Len(Tail(data_source)) : Tail(data_source)[k] = data_source[k + 1]
      /\ Len(data_source) \in Nat \ {0} /\ Head(data_source) = data_source[1]
  BY <1>1, HeadTailProperties
<1> HIDE DEF rest, S
<1>5. PICK d \in Nat : d + 1 = Len(data_source) /\ d = Len(Tail(data_source))
  <2>1. Len(data_source) - 1 \in Nat /\ Len(data_source) - 1 + 1 = Len(data_source)
        /\ Len(data_source) - 1 = Len(Tail(data_source))
    BY <1>4
  <2> QED BY <2>1
<1>6. PICK r \in Nat : r = Len(rest)
  BY <1>2
<1>7. /\ Len(Waiting) = d + 1 + r
      /\ \A k \in 1 .. d + 1 + r :
            Waiting[k] = IF k <= d + 1 THEN data_source[k] ELSE rest[k - (d + 1)]
  <2>1. PICK f \in Seq(S) : f = data_source BY <1>1
  <2>2. PICK g \in Seq(S) : g = rest BY <1>2
  <2>3. /\ Len(f \o g) = Len(f) + Len(g)
        /\ \A k \in 1 .. Len(f) + Len(g) : (f \o g)[k] = IF k <= Len(f) THEN f[k] ELSE g[k - Len(f)]
    BY ConcatProperties
  <2>4. Len(f) = d + 1 /\ Len(g) = r /\ Waiting = f \o g BY <1>3, <1>5, <1>6, <2>1, <2>2
  <2> QED BY <2>1, <2>2, <2>3, <2>4
<1>8. /\ Len(Waiting') = d + r
      /\ \A k \in 1 .. d + r :
            Waiting'[k] = IF k <= d THEN Tail(data_source)[k] ELSE rest[k - d]
  <2>1. PICK f \in Seq(S) : f = Tail(data_source) BY <1>4
  <2>2. PICK g \in Seq(S) : g = rest BY <1>2
  <2>3. /\ Len(f \o g) = Len(f) + Len(g)
        /\ \A k \in 1 .. Len(f) + Len(g) : (f \o g)[k] = IF k <= Len(f) THEN f[k] ELSE g[k - Len(f)]
    BY ConcatProperties
  <2>5. Len(f) = d /\ Len(g) = r /\ Waiting' = f \o g BY <1>3, <1>5, <1>6, <2>1, <2>2
  <2> QED BY <2>1, <2>2, <2>3, <2>5
<1>9. \A k \in 1 .. d + r : Waiting'[k] = Waiting[k + 1]
  <2> SUFFICES ASSUME NEW k \in 1 .. d + r PROVE Waiting'[k] = Waiting[k + 1]
    OBVIOUS
  <2>1. CASE k <= d
    <3>1. Waiting'[k] = data_source[k + 1]
      BY <1>4, <1>5, <1>8, <2>1
    <3>2. k + 1 \in 1 .. d + 1 + r /\ k + 1 <= d + 1 BY <2>1
    <3> QED BY <1>7, <3>1, <3>2
  <2>2. CASE ~(k <= d)
    <3>1. k + 1 \in 1 .. d + 1 + r /\ ~(k + 1 <= d + 1) /\ (k + 1) - (d + 1) = k - d
      BY <2>2
    <3> QED BY <1>7, <1>8, <2>2, <3>1
  <2> QED BY <2>1, <2>2
<1>10. /\ sent \in Seq(Items) /\ axis_host_sink \in Seq(Items)
       /\ valid_read \in BOOLEAN /\ (valid_read => y \in CORR!InputFlit)
       /\ Len(sent) = q + (d + 1 + r) + Len(axis_host_sink)
       /\ \A k \in 1 .. d + 1 + r :
             Waiting[k] = [last |-> (q + k) % numberItems = 0, val |-> sent[q + k]]
       /\ \A k \in 1 .. Len(axis_host_sink) : axis_host_sink[k] = sent[q + (d + 1 + r) + k]
       /\ counter_read = (q + (d + 1 + r)) % numberItems
  BY <1>7 DEF ItemsInOrder
<1>11. Len(axis_host_sink) \in Nat
  BY <1>10
<1>12. ASSUME NEW k \in 1 .. d + r
       PROVE  Waiting'[k] = [last |-> (q + 1 + k) % numberItems = 0, val |-> sent[q + 1 + k]]
  <2>1. k + 1 \in 1 .. d + 1 + r /\ q + (k + 1) = q + 1 + k OBVIOUS
  <2> QED BY <1>9, <1>10, <2>1
<1>13. ASSUME NEW k \in 1 .. Len(axis_host_sink)
       PROVE  axis_host_sink[k] = sent[q + 1 + (d + r) + k]
  <2>1. q + (d + 1 + r) + k = q + 1 + (d + r) + k OBVIOUS
  <2> QED BY <1>10, <2>1
<1>14. q + (d + 1 + r) = q + 1 + (d + r)
  OBVIOUS
<1>15. ItemsInOrder(q + 1)'
  <2>1. Len(sent) = q + 1 + (d + r) + Len(axis_host_sink)
    BY <1>10, <1>14
  <2>2. counter_read = (q + 1 + (d + r)) % numberItems
    BY <1>10, <1>14
  <2> QED BY <1>8, <1>10, <1>12, <1>13, <2>1, <2>2 DEF ItemsInOrder, inState
<1>16. Head(data_source) = [last |-> (q + 1) % numberItems = 0, val |-> sent[q + 1]]
  <2>1. 1 \in 1 .. d + 1 + r /\ 1 <= d + 1 OBVIOUS
  <2> QED BY <1>4, <1>7, <1>10, <2>1
<1> QED BY <1>10, <1>11, <1>15, <1>16

(* ... and is added to the sums of its batch; the last one closes it.      *)
LEMMA AccumulateStep ==
    ASSUME numberItems \in Nat \ {0}, K!CorrInv, NEW a, NEW m, NEW e, Progress(a, m, e),
           Accumulate
    PROVE  /\ K!CorrInv' /\ UNCHANGED Service!cvars
           /\ \E a2 \in Nat, m2 \in 0 .. numberItems - 1 : Progress(a2, m2, e)'
<1>0. PICK n \in Nat \ {0} : n = numberItems
  OBVIOUS
<1>1. PICK q \in Nat : q = a * n + m
  BY <1>0, BatchesAreSent
<1>2. PICK t : t = Taken(e)
  OBVIOUS
<1>3. /\ a \in Nat /\ m \in 0 .. n - 1 /\ e \in Nat /\ ItemsInOrder(q)
      /\ SumsInOrder(a, m, t) /\ BatchAtHand(e) /\ AnswersInOrder(e)
  BY <1>0, <1>1, <1>2 DEF Progress
<1>4. UNCHANGED <<axis_host_sink, result_values, axis_host_src, inState, outState, coeffVars,
                  numberItems, sent, received>>
  BY DEF Accumulate, host
<1>5. K!CorrInv' /\ UNCHANGED Service!cvars
  BY <1>4, AccumulateCorrInv DEF Service!cvars
<1>6. BatchAtHand(e)' /\ AnswersInOrder(e)' /\ Taken(e)' = t
  BY <1>2, <1>3, <1>4, BatchFrame, AnswersFrame, TakenFrame
<1>7. /\ Waiting \in Seq(CORR!InputFlit) /\ t \in Nat /\ a * F \in Nat
      /\ K!Uncollected \in Seq(K!SumFlit)
  BY <1>2, BatchesAreSent
<1>8. ASSUME UNCHANGED <<data_source, K!OpenSums, K!Uncollected>>
      PROVE  \E a2 \in Nat, m2 \in 0 .. numberItems - 1 : Progress(a2, m2, e)'
  <2>1. ItemsInOrder(q)'
    BY <1>3, <1>4, <1>8, ItemsFrame
  <2>2. SumsInOrder(a, m, t)'
    BY <1>3, <1>4, <1>8, SumsSame
  <2>3. SumsInOrder(a, m, Taken(e))'
    BY <1>6, <2>2 DEF SumsInOrder
  <2>4. Progress(a, m, e)'
    BY <1>0, <1>1, <1>3, <1>4, <1>6, <2>1, <2>3 DEF Progress
  <2> QED BY <1>0, <1>3, <2>4
<1>9. ASSUME data_source # << >>, data_source' = Tail(data_source),
             ~Head(data_source).last =>
                /\ K!OpenSums' = K!Sums!Added(K!OpenSums, Head(data_source).val)
                /\ K!Uncollected' = K!Uncollected,
             Head(data_source).last =>
                /\ K!OpenSums' = K!Sums!NoSums
                /\ K!Uncollected' = K!Uncollected
                      \o K!Sums!SumFlits(K!Sums!Added(K!OpenSums, Head(data_source).val))
      PROVE  \E a2 \in Nat, m2 \in 0 .. numberItems - 1 : Progress(a2, m2, e)'
  <2>1. /\ ItemsInOrder(q + 1)' /\ q + 1 <= Len(sent)
        /\ Head(data_source) = [last |-> (q + 1) % n = 0, val |-> sent[q + 1]]
    BY <1>0, <1>3, <1>4, <1>7, <1>9, ItemTaken
  <2>2. Head(data_source).last <=> m + 1 = n
    <3>1. q % n = m BY <1>1, <1>3, PlaceIs
    <3>2. (q + 1) % n = IF m + 1 = n THEN 0 ELSE m + 1 BY <3>1, NextPlace
    <3>3. m + 1 # 0 BY <1>3
    <3>4. PICK z : z = (q + 1) % n OBVIOUS
    <3>5. z = 0 <=> m + 1 = n BY ONLY <3>2, <3>3, <3>4, Zenon
    <3>6. Head(data_source) = [last |-> z = 0, val |-> sent[q + 1]] BY ONLY <2>1, <3>4, Zenon
    <3> DEFINE flit == [last |-> z = 0, val |-> sent[q + 1]]
    <3>7. flit.last = (z = 0) OBVIOUS
    <3>8. Head(data_source).last = (z = 0) BY ONLY <3>6, <3>7, Zenon
    <3> QED BY ONLY <3>5, <3>8, Zenon
  <2>3. PICK item : item = sent[q + 1] /\ item = Head(data_source).val
    BY <2>1
  <2> DEFINE g == K!Sums!Added(K!OpenSums, item)
  <2>4. ASSUME NEW i \in 0 .. F - 1 PROVE g[i] = Partial(a, m + 1, i)
                                           /\ Partial(a, m + 1, i) \in Words
    <3>1. a * numberItems + m + 1 <= Len(sent) /\ item = sent[a * numberItems + m + 1]
      BY <1>0, <1>1, <2>1, <2>3
    <3>2. /\ Partial(a, m + 1, i) = (Partial(a, m, i) + IF i < N THEN item[i]
                                     ELSE IF i < 2 * N THEN Square(item, i - N)
                                     ELSE Product(item, i - 2 * N)) % W
          /\ Partial(a, m + 1, i) \in Words
      BY <1>0, <1>3, <3>1, PartialNext DEF ItemsInOrder
    <3>3. g[i] = (K!OpenSums[i] + IF i < N THEN item[i]
                                  ELSE IF i < 2 * N THEN Square(item, i - N)
                                  ELSE Product(item, i - 2 * N)) % W
      BY KernelParameters DEF K!Sums!Added
    <3>4. K!OpenSums[i] = Partial(a, m, i) BY <1>3 DEF SumsInOrder
    <3> QED BY ONLY <3>2, <3>3, <3>4, Zenon
  <2>5. \A b, k, i : Partial(b, k, i)' = Partial(b, k, i) /\ SumOf(b, i)' = SumOf(b, i)
    BY <1>4, NothingSent
  <2>6. t + Len(K!Uncollected) = a * F
        /\ \A k \in 1 .. Len(K!Uncollected), b \in Nat, i \in 0 .. F - 1 :
              t + k = b * F + i + 1
                => K!Uncollected[k] = [last |-> i + 1 = F, val |-> SumOf(b, i)]
    BY <1>3 DEF SumsInOrder
  <2>7. CASE m + 1 # n
    <3>1. K!OpenSums' = g /\ K!Uncollected' = K!Uncollected
      BY <1>9, <2>2, <2>3, <2>7
    <3> HIDE DEF g
    <3>2. \A i \in 0 .. F - 1 : K!OpenSums'[i] = Partial(a, m + 1, i)'
      BY <2>4, <2>5, <3>1
    <3>3. SumsInOrder(a, m + 1, t)'
      <4>1. /\ t + Len(K!Uncollected') = a * F
            /\ \A k \in 1 .. Len(K!Uncollected'), b \in Nat, i \in 0 .. F - 1 :
                  t + k = b * F + i + 1
                    => K!Uncollected'[k] = [last |-> i + 1 = F, val |-> SumOf(b, i)]
        BY ONLY <2>6, <3>1, Zenon
      <4> QED BY <2>5, <3>2, <4>1 DEF SumsInOrder
    <3>4. SumsInOrder(a, m + 1, Taken(e))'
      BY <1>6, <3>3 DEF SumsInOrder
    <3>5. m + 1 \in 0 .. n - 1 /\ q + 1 = a * n + (m + 1)
      <4>1. a * n \in Int BY <1>3
      <4> QED BY <1>1, <1>3, <2>7, <4>1
    <3>6. Progress(a, m + 1, e)'
      BY <1>0, <1>3, <1>4, <1>6, <2>1, <3>4, <3>5 DEF Progress
    <3> QED BY <1>0, <1>3, <3>5, <3>6
  <2>8. CASE m + 1 = n
    <3>1. K!OpenSums' = K!Sums!NoSums
          /\ K!Uncollected' = K!Uncollected \o K!Sums!SumFlits(g)
      BY <1>9, <2>2, <2>3, <2>8
    <3>2. \A i \in 0 .. F - 1 : K!OpenSums'[i] = Partial(a + 1, 0, i)'
      BY <2>5, <3>1, PartialEmpty, KernelParameters DEF K!Sums!NoSums
    <3>3. PICK v : v = K!Sums!SumFlits(g)
      OBVIOUS
    <3>4. /\ v \in Seq(K!SumFlit) /\ Len(v) = F
          /\ \A i \in 0 .. F - 1 : v[i + 1] = [last |-> i + 1 = F, val |-> SumOf(a, i)]
      <4>1. v = [j \in 1 .. F |-> [last |-> j = F, val |-> g[j - 1]]]
        BY <3>3, KernelParameters DEF K!Sums!SumFlits
      <4>2. ASSUME NEW i \in 0 .. F - 1 PROVE g[i] = SumOf(a, i) /\ SumOf(a, i) \in Words
        <5>1. Partial(a, m + 1, i) = SumOf(a, i) BY <1>0, <2>8 DEF SumOf
        <5> QED BY <2>4, <5>1
      <4> HIDE DEF g
      <4>3. ASSUME NEW j \in 1 .. F
            PROVE  [last |-> j = F, val |-> g[j - 1]] \in K!SumFlit
        <5>1. j - 1 \in 0 .. F - 1 BY KernelSizes
        <5> QED BY <4>2, <5>1 DEF K!SumFlit, K!Words, Words
      <4>4. v \in [1 .. F -> K!SumFlit]
        BY <4>1, <4>3
      <4>5. v \in Seq(K!SumFlit) /\ Len(v) = F
        BY <4>4, KernelSizes
      <4>6. ASSUME NEW i \in 0 .. F - 1
            PROVE  v[i + 1] = [last |-> i + 1 = F, val |-> SumOf(a, i)]
        <5>1. i + 1 \in 1 .. F /\ (i + 1) - 1 = i BY KernelSizes
        <5> QED BY <4>1, <4>2, <5>1
      <4> QED BY <4>5, <4>6
    <3> HIDE DEF g
    <3>5. PICK l \in Nat : l = Len(K!Uncollected)
      BY <1>7
    <3>6. /\ Len(K!Uncollected') = l + F
          /\ \A k \in 1 .. l + F :
                K!Uncollected'[k] = IF k <= l THEN K!Uncollected[k] ELSE v[k - l]
      <4>1. PICK u \in Seq(K!SumFlit) : u = K!Uncollected BY <1>7
      <4>2. PICK w : w = u \o v OBVIOUS
      <4>3. /\ Len(w) = Len(u) + Len(v)
            /\ \A k \in 1 .. Len(u) + Len(v) :
                  w[k] = IF k <= Len(u) THEN u[k] ELSE v[k - Len(u)]
        BY ONLY u \in Seq(K!SumFlit), <3>4, <4>2, ConcatProperties
      <4>4. K!Uncollected' = w BY <3>1, <3>3, <4>1, <4>2
      <4>5. Len(u) = l /\ Len(v) = F BY <3>4, <3>5, <4>1
      <4> QED BY ONLY <4>1, <4>3, <4>4, <4>5, Zenon
    <3>7. t + (l + F) = (a + 1) * F
      <4>1. (a + 1) * F = a * F + F BY <1>3, KernelSizes
      <4>2. F \in Nat BY KernelSizes
      <4> DEFINE p == a * F
                 p2 == (a + 1) * F
      <4>3. p2 = p + F /\ t + l = p /\ p \in Nat BY <1>7, <2>6, <3>5, <4>1
      <4> HIDE DEF p, p2
      <4>4. t + (l + F) = p2 BY <1>7, <4>2, <4>3
      <4> QED BY <4>4 DEF p2
    <3>8. ASSUME NEW k \in 1 .. l + F, NEW b \in Nat, NEW i \in 0 .. F - 1,
                 t + k = b * F + i + 1
          PROVE  K!Uncollected'[k] = [last |-> i + 1 = F, val |-> SumOf(b, i)]
      <4>1. CASE k <= l
        <5>1. k \in 1 .. Len(K!Uncollected) BY <3>5, <4>1
        <5>2. K!Uncollected'[k] = K!Uncollected[k] BY <3>6, <4>1
        <5> QED BY <2>6, <3>8, <5>1, <5>2
      <4>2. CASE ~(k <= l)
        <5>1. PICK j \in 0 .. F - 1 : k = l + j + 1
          <6>1. k - l - 1 \in 0 .. F - 1 /\ k = l + (k - l - 1) + 1
            BY <4>2, KernelSizes
          <6> QED BY <6>1
        <5>2. b * F \in Int
          BY KernelSizes
        <5>3. a * F + j = b * F + i
          <6> DEFINE p == a * F
                     p2 == b * F
          <6>1. t + l = p /\ t + k = p2 + i + 1 /\ p \in Int /\ p2 \in Int
            BY <1>7, <2>6, <3>5, <3>8, <5>2
          <6> HIDE DEF p, p2
          <6>2. p + j = p2 + i BY <1>7, <5>1, <6>1
          <6> QED BY <6>2 DEF p, p2
        <5>4. a = b /\ j = i
          BY <1>3, <5>3, KernelSizes, PlaceUnique
        <5>5. K!Uncollected'[k] = v[j + 1]
          <6>1. k - l = j + 1 BY <5>1
          <6> QED BY <3>6, <4>2, <6>1
        <5> QED BY <3>4, <5>4, <5>5
      <4> QED BY <4>1, <4>2
    <3>9. SumsInOrder(a + 1, 0, t)'
      BY <2>5, <3>2, <3>6, <3>7, <3>8 DEF SumsInOrder
    <3>10. SumsInOrder(a + 1, 0, Taken(e))'
      BY <1>6, <3>9 DEF SumsInOrder
    <3>11. a + 1 \in Nat /\ 0 \in 0 .. n - 1 /\ q + 1 = (a + 1) * n + 0
      <4>1. a * n \in Int /\ (a + 1) * n = a * n + n BY <1>3
      <4> QED BY <1>1, <1>3, <2>8, <4>1
    <3>12. Progress(a + 1, 0, e)'
      BY <1>0, <1>3, <1>4, <1>6, <2>1, <3>10, <3>11 DEF Progress
    <3> QED BY <1>0, <3>11, <3>12
  <2> QED BY <2>7, <2>8
<1> QED BY <1>5, <1>8, <1>9, CorrSteps
-----------------------------------------------------------------------------
(* COEFF's steps.  Each writes out what the previous one has read.         *)
LEMMA ResultsGrow ==
    ASSUME NEW e, BatchAtHand(e), AnswersInOrder(e), AccCoeff
    PROVE  /\ Results' = Results \o ReadOut'
           /\ result_values' \in Seq(COEFF!CoeffFlit)
           /\ Results \in Seq(COEFF!CoeffFlit)
           /\ coeff_write' = FALSE => Results' = Results
<1>1. UNCHANGED <<received, axis_host_src, outState>>
  BY DEF AccCoeff, host
<1>2. result_values' = IF coeff_write
                       THEN Append(result_values, [last |-> coeff_last, val |-> coeff_value])
                       ELSE result_values
  BY DEF AccCoeff, COEFF!AccCoeff, COEFF!FeedSum, COEFF!FeedIdle, COEFF!Settle, COEFF!Compute,
         COEFF!Readout, COEFF!Flush
<1> DEFINE S == COEFF!CoeffFlit
           f == (received \o axis_host_src) \o WriteOut
           v == result_values
           c == ReadOut
           c2 == ReadOut'
<1>3. /\ f \in Seq(S) /\ v \in Seq(S) /\ c \in Seq(S) /\ Results \in Seq(S)
  BY WayTypes, ConcatProperties
<1>4. result_values' = v \o c
  <2>1. CASE coeff_write
    <3>1. [last |-> coeff_last, val |-> coeff_value] \in S
      BY DEF BatchAtHand, CoeffTypes, COEFF!CoeffFlit, COEFF!Coeffs, Coeffs, COEFF!Words, Words
    <3> QED BY <1>2, <1>3, <2>1, <3>1, AppendIsConcat DEF ReadOut
  <2>2. CASE ~coeff_write
    BY <1>2, <1>3, <2>2, ConcatEmptySeq DEF ReadOut
  <2>3. coeff_write \in BOOLEAN
    BY DEF BatchAtHand, CoeffTypes
  <2> QED BY <2>1, <2>2, <2>3
<1>5. Results = (f \o v) \o c
  BY ResultsAre
<1>6. Results' = (f \o (v \o c)) \o c2
  BY <1>1, <1>4 DEF Results, WriteOut, ReadOut, outState
<1>7. result_values' \in Seq(S)
  BY <1>3, <1>4, ConcatProperties
<1>8. Results' = Results \o c2
  <2> HIDE DEF S, f, v, c, c2
  <2>1. \A s, t, u \in Seq(S) :
           Cat(Cat(s, t), u) = Cat(s, Cat(t, u)) /\ Cat(s, t) \in Seq(S)
    BY CatAssociative
  <2>2. Cat(Cat(f, v), c) = Cat(f, Cat(v, c))
    BY <1>3, <2>1
  <2> QED BY <1>5, <1>6, <2>2, Zenon DEF Cat
<1>9. ASSUME coeff_write' = FALSE PROVE Results' = Results
  <2>1. c2 = << >> BY <1>9 DEF ReadOut
  <2>2. PICK g : g = Results OBVIOUS
  <2>3. g \o << >> = g BY <1>3, <2>2, ConcatEmptySeq
  <2> QED BY <1>8, <2>1, <2>2, <2>3
<1> QED BY <1>3, <1>7, <1>8, <1>9

(* What is the same for all of them.                                       *)
LEMMA CoeffFrame ==
    ASSUME K!CorrInv, NEW a, NEW m, NEW e, Progress(a, m, e), AccCoeff
    PROVE  /\ UNCHANGED <<sent, numberItems, received, axis_host_src, outState>>
           /\ UNCHANGED Service!cvars
           /\ ItemsInOrder(a * numberItems + m)'
           /\ UNCHANGED sums => K!CorrInv' /\ \A t : SumsInOrder(a, m, t) => SumsInOrder(a, m, t)'
<1>1. UNCHANGED <<axis_host_sink, data_source, axis_host_src, inState, outState, corrVars,
                  numberItems, sent, received, samples>>
  BY DEF AccCoeff, host, COEFF!AccCoeff, COEFF!FeedSum, COEFF!FeedIdle, COEFF!Settle,
         COEFF!Compute, COEFF!Readout
<1>2. ItemsInOrder(a * numberItems + m)'
  <2>1. PICK q : q = a * numberItems + m
    OBVIOUS
  <2>2. ItemsInOrder(q)' BY <1>1, <2>1, ItemsFrame DEF Progress
  <2>3. (a * numberItems + m)' = q BY <1>1, <2>1
  <2> QED BY <2>2, <2>3 DEF ItemsInOrder
<1>3. UNCHANGED sums => K!CorrInv'
  BY <1>1, CorrUntouched
<1>4. ASSUME UNCHANGED sums, NEW t, SumsInOrder(a, m, t) PROVE SumsInOrder(a, m, t)'
  BY <1>1, <1>4, SumsFrame
<1> QED BY <1>1, <1>2, <1>3, <1>4 DEF Service!cvars

(* The sum that is taken is the one of its place.                          *)
LEMMA SumStored ==
    ASSUME NEW z \in Words, CoeffTypes,
           mem_e' = IF counter < N THEN [mem_e EXCEPT ![counter] = z] ELSE mem_e,
           mem_sq' = IF counter \in N .. 2 * N - 1
                     THEN [mem_sq EXCEPT ![counter - N] = z] ELSE mem_sq,
           mem_p' = IF counter >= 2 * N THEN [mem_p EXCEPT ![counter - 2 * N] = z] ELSE mem_p
    PROVE  /\ mem_e' \in [Lanes -> Words] /\ mem_sq' \in [Lanes -> Words]
           /\ mem_p' \in [Pairs -> Words]
           /\ \A i \in 0 .. F - 1 : Stored(i)' = IF i = counter THEN z ELSE Stored(i)
<1>1. /\ counter \in 0 .. F - 1 /\ mem_e \in [Lanes -> Words] /\ mem_sq \in [Lanes -> Words]
      /\ mem_p \in [Pairs -> Words]
      /\ N \in Nat /\ N >= 2 /\ P \in Nat /\ F = 2 * N + P
  BY KernelSizes DEF CoeffTypes
<1>2. /\ mem_e' \in [Lanes -> Words] /\ mem_sq' \in [Lanes -> Words]
      /\ mem_p' \in [Pairs -> Words]
  BY <1>1
<1>3. ASSUME NEW i \in 0 .. F - 1 PROVE Stored(i)' = IF i = counter THEN z ELSE Stored(i)
  <2>1. CASE i < N
    <3>1. i \in Lanes /\ Stored(i)' = mem_e'[i] /\ Stored(i) = mem_e[i]
      BY <1>1, <2>1 DEF Lanes, Stored
    <3>2. mem_e'[i] = IF i = counter THEN z ELSE mem_e[i]
      BY <1>1, <2>1, <3>1
    <3> QED BY <3>1, <3>2
  <2>2. CASE ~(i < N) /\ i < 2 * N
    <3>1. i - N \in Lanes /\ Stored(i)' = mem_sq'[i - N] /\ Stored(i) = mem_sq[i - N]
      BY <1>1, <2>2 DEF Lanes, Stored
    <3>2. mem_sq'[i - N] = IF i = counter THEN z ELSE mem_sq[i - N]
      BY <1>1, <2>2, <3>1
    <3> QED BY <3>1, <3>2
  <2>3. CASE ~(i < 2 * N)
    <3>1. i - 2 * N \in Pairs /\ Stored(i)' = mem_p'[i - 2 * N]
          /\ Stored(i) = mem_p[i - 2 * N]
      BY <1>1, <2>3 DEF Pairs, Stored
    <3>2. mem_p'[i - 2 * N] = IF i = counter THEN z ELSE mem_p[i - 2 * N]
      BY <1>1, <2>3, <3>1
    <3> QED BY <3>1, <3>2
  <2> QED BY <2>1, <2>2, <2>3
<1> QED BY <1>2, <1>3

(* COEFF takes a sum.                                                      *)
LEMMA SumTaken ==
    ASSUME K!CorrInv, NEW a, NEW m, NEW t \in Nat, SumsInOrder(a, m, t),
           K!Uncollected \in Seq(K!SumFlit), NEW e \in Nat, NEW j \in 0 .. F - 1, t = e * F + j,
           UNCHANGED <<sent, numberItems, data_source, samples, corrVars>>,
           sums # << >>, sums' = Tail(sums)
    PROVE  /\ K!CorrInv' /\ SumsInOrder(a, m, t + 1)'
           /\ Head(sums) = [last |-> j + 1 = F, val |-> SumOf(e, j)]
           /\ SumOf(e, j) \in Words
<1>1. UNCHANGED <<data_source, samples, K!corrState>>
  BY DEF corrVars, K!corrState
<1>2. K!Collect
  BY <1>1 DEF K!Collect
<1>3. K!CorrInv'
  BY <1>2, ParameterAssumption, K!NextCorrInv DEF K!Next, K!Lanes, K!Words, Lanes, Words
<1>4. /\ K!OpenSums' = K!OpenSums
      /\ K!Uncollected # << >> /\ K!Uncollected' = Tail(K!Uncollected)
      /\ Head(K!Uncollected) = Head(sums)
  BY <1>1, ParameterAssumption, K!CollectStep DEF K!Lanes, K!Words, Lanes, Words
<1>5. PICK u \in Seq(K!SumFlit) : u = K!Uncollected
  OBVIOUS
<1>6. /\ u # << >> /\ Tail(u) \in Seq(K!SumFlit) /\ Len(Tail(u)) = Len(u) - 1
      /\ \A k \in 1 .. Len(Tail(u)) : Tail(u)[k] = u[k + 1]
      /\ Len(u) \in Nat \ {0} /\ Head(u) = u[1] /\ Head(u) \in K!SumFlit
  BY <1>4, <1>5, HeadTailProperties
<1>7. /\ t + Len(u) = a * F
      /\ \A k \in 1 .. Len(u), b \in Nat, i \in 0 .. F - 1 :
            t + k = b * F + i + 1 => u[k] = [last |-> i + 1 = F, val |-> SumOf(b, i)]
      /\ \A i \in 0 .. F - 1 : K!OpenSums[i] = Partial(a, m, i)
  BY <1>5 DEF SumsInOrder
<1>8. Head(sums) = [last |-> j + 1 = F, val |-> SumOf(e, j)]
  <2>1. 1 \in 1 .. Len(u) /\ t + 1 = e * F + j + 1 BY <1>6
  <2> QED BY <1>4, <1>5, <1>6, <1>7, <2>1
<1>9. SumOf(e, j) \in Words
  <2>1. Head(sums).val \in Words BY <1>4, <1>5, <1>6 DEF K!SumFlit, K!Words, Words
  <2> QED BY <1>8, <2>1
<1>10. SumsInOrder(a, m, t + 1)'
  <2>1. \A b, k, i : Partial(b, k, i)' = Partial(b, k, i) /\ SumOf(b, i)' = SumOf(b, i)
    BY NothingSent
  <2>2. t + 1 + Len(Tail(u)) = a * F
    <3>0. PICK v : v = Tail(u) OBVIOUS
    <3>1. PICK l \in Nat : l = Len(v) /\ l + 1 = Len(u)
      <4>1. v \in Seq(K!SumFlit) /\ Len(v) = Len(u) - 1 /\ Len(u) \in Nat \ {0}
        BY <1>6, <3>0
      <4>2. Len(v) \in Nat /\ Len(v) + 1 = Len(u) BY <4>1
      <4> QED BY <4>2
    <3>2. t + (l + 1) = a * F BY <1>7, <3>1
    <3>3. t + 1 + l = t + (l + 1) OBVIOUS
    <3> QED BY ONLY <3>0, <3>1, <3>2, <3>3, Zenon
  <2>3. ASSUME NEW k \in 1 .. Len(Tail(u)), NEW b \in Nat, NEW i \in 0 .. F - 1,
               t + 1 + k = b * F + i + 1
        PROVE  Tail(u)[k] = [last |-> i + 1 = F, val |-> SumOf(b, i)]
    <3>1. k + 1 \in 1 .. Len(u) /\ t + (k + 1) = t + 1 + k BY <1>6
    <3>2. u[k + 1] = [last |-> i + 1 = F, val |-> SumOf(b, i)]
      <4>1. t + (k + 1) = b * F + i + 1 BY ONLY <2>3, <3>1, Zenon
      <4> QED BY ONLY b \in Nat, i \in 0 .. F - 1, <1>7, <3>1, <4>1, Zenon
    <3>3. Tail(u)[k] = u[k + 1] BY <1>6
    <3> QED BY ONLY <3>2, <3>3, Zenon
  <2>4. K!Uncollected' = Tail(u) /\ K!OpenSums' = K!OpenSums
    BY <1>4, <1>5
  <2>5. \A i \in 0 .. F - 1 : K!OpenSums'[i] = Partial(a, m, i)'
    BY <1>7, <2>1, <2>4
  <2>6. /\ (t + 1) + Len(K!Uncollected') = a * F
        /\ \A k \in 1 .. Len(K!Uncollected'), b \in Nat, i \in 0 .. F - 1 :
              (t + 1) + k = b * F + i + 1
                => K!Uncollected'[k] = [last |-> i + 1 = F, val |-> SumOf(b, i)]
    BY ONLY <2>2, <2>3, <2>4, Zenon
  <2> QED BY <2>1, <2>5, <2>6 DEF SumsInOrder
<1> QED BY <1>3, <1>8, <1>9, <1>10

LEMMA FeedSumStep ==
    ASSUME numberItems \in Nat \ {0}, K!CorrInv, NEW a, NEW m, NEW e, Progress(a, m, e),
           AccCoeff, COEFF!FeedSum
    PROVE  K!CorrInv' /\ Progress(a, m, e)' /\ UNCHANGED Service!cvars
<1>1. /\ a \in Nat /\ m \in 0 .. numberItems - 1 /\ e \in Nat
      /\ SumsInOrder(a, m, Taken(e)) /\ BatchAtHand(e) /\ AnswersInOrder(e)
  BY DEF Progress
<1>2. /\ UNCHANGED <<sent, numberItems, received, axis_host_src, outState>>
      /\ UNCHANGED Service!cvars
      /\ ItemsInOrder(a * numberItems + m)'
  BY CoeffFrame
<1>3. UNCHANGED <<data_source, samples, corrVars>>
  BY DEF AccCoeff, COEFF!FeedSum
<1>4. /\ coeff_state = "FEED" /\ sums # << >> /\ sums' = Tail(sums)
      /\ coeff_write' = FALSE /\ coeff_last' = COEFF!FlushedLast
      /\ UNCHANGED <<counter_rd, row, col, index, coeff, coeff_value>>
  BY DEF COEFF!FeedSum
<1>5. CoeffTypes /\ counter \in 0 .. F - 1
  BY <1>1 DEF BatchAtHand, CoeffTypes
<1>6. PICK t \in Nat : t = Taken(e)
  BY BatchesAreSent
<1>7. t = e * F + counter /\ K!Uncollected \in Seq(K!SumFlit)
  BY <1>4, <1>6, BatchesAreSent DEF Taken
<1>8. PICK j \in 0 .. F - 1 : j = counter
  BY <1>5
<1>9. PICK z : z = SumOf(e, j)
  OBVIOUS
<1>10. /\ K!CorrInv' /\ SumsInOrder(a, m, t + 1)'
       /\ Head(sums) = [last |-> j + 1 = F, val |-> z] /\ z \in Words
  BY <1>1, <1>2, <1>3, <1>4, <1>6, <1>7, <1>8, <1>9, SumTaken
<1>11. /\ mem_e' = IF counter < N THEN [mem_e EXCEPT ![counter] = z] ELSE mem_e
       /\ mem_sq' = IF counter \in N .. 2 * N - 1
                    THEN [mem_sq EXCEPT ![counter - N] = z] ELSE mem_sq
       /\ mem_p' = IF counter >= 2 * N THEN [mem_p EXCEPT ![counter - 2 * N] = z] ELSE mem_p
       /\ j + 1 = F => coeff_state' = "SETTLE1" /\ counter' = 0
       /\ j + 1 # F => coeff_state' = coeff_state /\ counter' = counter + 1
  <2> DEFINE flit == [last |-> j + 1 = F, val |-> z]
  <2>0. flit.val = z /\ flit.last = (j + 1 = F) OBVIOUS
  <2>1. Head(sums).val = z /\ Head(sums).last = (j + 1 = F) BY ONLY <1>10, <2>0, Zenon
  <2>2. /\ mem_e' = IF counter < N THEN [mem_e EXCEPT ![counter] = Head(sums).val] ELSE mem_e
        /\ mem_sq' = IF counter \in N .. 2 * N - 1
                     THEN [mem_sq EXCEPT ![counter - N] = Head(sums).val] ELSE mem_sq
        /\ mem_p' = IF counter >= 2 * N
                    THEN [mem_p EXCEPT ![counter - 2 * N] = Head(sums).val] ELSE mem_p
    BY DEF COEFF!FeedSum, COEFF!InSquares
  <2>3. IF Head(sums).last THEN coeff_state' = "SETTLE1" /\ counter' = 0
                           ELSE coeff_state' = coeff_state /\ counter' = counter + 1
    BY DEF COEFF!FeedSum
  <2> QED BY ONLY <2>1, <2>2, <2>3, Zenon
<1>12. /\ mem_e' \in [Lanes -> Words] /\ mem_sq' \in [Lanes -> Words]
       /\ mem_p' \in [Pairs -> Words]
       /\ \A i \in 0 .. F - 1 : Stored(i)' = IF i = counter THEN z ELSE Stored(i)
  BY <1>5, <1>10, <1>11, SumStored
<1>13. Taken(e)' = t + 1
  <2>1. CASE j + 1 = F
    <3>1. Taken(e)' = (e + 1) * F BY <1>11, <2>1 DEF Taken
    <3>2. (e + 1) * F = e * F + F BY <1>1, KernelSizes
    <3> DEFINE p == e * F
    <3>3. p \in Nat
      <4>1. \A f, g \in Nat : f * g \in Nat OBVIOUS
      <4> QED BY <4>1, <1>1, KernelSizes
    <3>4. t = p + j /\ Taken(e)' = p + F BY <1>7, <1>8, <3>1, <3>2
    <3> HIDE DEF p
    <3> QED BY <2>1, <3>3, <3>4, KernelSizes
  <2>2. CASE j + 1 # F
    <3>1. Taken(e)' = e * F + (counter + 1) BY <1>4, <1>11, <2>2 DEF Taken
    <3> DEFINE p == e * F
    <3>3. p \in Nat
      <4>1. \A f, g \in Nat : f * g \in Nat OBVIOUS
      <4> QED BY <4>1, <1>1, KernelSizes
    <3>4. t = p + j /\ Taken(e)' = p + (j + 1) BY <1>7, <1>8, <3>1
    <3> HIDE DEF p
    <3> QED BY <3>3, <3>4
  <2> QED BY <2>1, <2>2
<1>14. SumsInOrder(a, m, Taken(e))'
  BY <1>10, <1>13 DEF SumsInOrder
<1>15. BatchAtHand(e)'
  <2>1. CoeffTypes'
    <3>1. counter' \in 0 .. F - 1
          /\ coeff_state' \in {"FEED", "SETTLE1", "SETTLE2", "COMPUTE", "READOUT"}
      BY <1>4, <1>5, <1>8, <1>11, KernelSizes
    <3>2. coeff_last' \in BOOLEAN /\ coeff_write' \in BOOLEAN
      BY <1>4, <1>5 DEF COEFF!FlushedLast, CoeffTypes
    <3> QED BY <1>4, <1>5, <1>12, <3>1, <3>2 DEF CoeffTypes
  <2>2. coeff_state' # "FEED" => counter' = 0
    BY <1>4, <1>11
  <2>3. ASSUME NEW i \in 0 .. F - 1, Filled(i)' PROVE Stored(i)' = SumOf(e, i)'
    <3>1. SumOf(e, i)' = SumOf(e, i) BY <1>2, NothingSent
    <3>2. CASE i = counter BY <1>8, <1>9, <1>12, <3>1, <3>2
    <3>3. CASE i # counter
      <4>1. i < counter
        <5>1. CASE j + 1 = F BY <1>8, <3>3, <5>1, KernelSizes
        <5>2. CASE j + 1 # F
          <6>1. i < counter + 1 BY <1>4, <1>11, <2>3, <5>2 DEF Filled
          <6> QED BY <1>5, <3>3, <6>1
        <5> QED BY <5>1, <5>2
      <4>2. Stored(i) = SumOf(e, i) BY <1>1, <4>1 DEF BatchAtHand, Filled
      <4> QED BY <1>12, <3>1, <3>3, <4>2
    <3> QED BY <3>2, <3>3
  <2>4. IsPair(index', row', col') /\ (coeff_state' # "COMPUTE" => row' = 0 /\ col' = 1 /\ index' = 0)
    BY <1>1, <1>4 DEF BatchAtHand
  <2>5. \A k \in Pairs : ~Computed(k)'
    BY <1>4, <1>11 DEF Computed
  <2> QED BY <2>1, <2>2, <2>3, <2>4, <2>5 DEF BatchAtHand
<1>16. AnswersInOrder(e)'
  <2>1. Results' = Results /\ result_values' \in Seq(COEFF!CoeffFlit)
    BY <1>1, <1>4, ResultsGrow
  <2> QED BY <1>1, <1>2, <1>4, <2>1, AnswersSame DEF AnswersInOrder, outState
<1>17. Progress(a, m, e)'
  BY <1>1, <1>2, <1>14, <1>15, <1>16 DEF Progress
<1> QED BY <1>2, <1>10, <1>17

(* Without a sum to take, or while the sums settle, nothing happens.       *)
LEMMA CoeffIdleStep ==
    ASSUME numberItems \in Nat \ {0}, K!CorrInv, NEW a, NEW m, NEW e, Progress(a, m, e),
           AccCoeff, COEFF!FeedIdle \/ COEFF!Settle
    PROVE  K!CorrInv' /\ Progress(a, m, e)' /\ UNCHANGED Service!cvars
<1>1. /\ a \in Nat /\ m \in 0 .. numberItems - 1 /\ e \in Nat
      /\ SumsInOrder(a, m, Taken(e)) /\ BatchAtHand(e) /\ AnswersInOrder(e)
  BY DEF Progress
<1>2. /\ UNCHANGED <<sums, counter, counter_rd, row, col, index, mem_e, mem_sq, mem_p, coeff,
                     coeff_value>>
      /\ coeff_write' = FALSE /\ coeff_last' = COEFF!FlushedLast
      /\ \/ coeff_state = "FEED" /\ coeff_state' = "FEED"
         \/ coeff_state \in {"SETTLE1", "SETTLE2"} /\ coeff_state' \in {"SETTLE2", "COMPUTE"}
  BY DEF COEFF!FeedIdle, COEFF!Settle
<1>3. /\ UNCHANGED <<sent, numberItems, received, axis_host_src, outState>>
      /\ UNCHANGED Service!cvars
      /\ ItemsInOrder(a * numberItems + m)'
      /\ \A t : SumsInOrder(a, m, t) => SumsInOrder(a, m, t)'
      /\ K!CorrInv'
  BY <1>2, CoeffFrame
<1>4. SumsInOrder(a, m, Taken(e))'
  <2>1. PICK t : t = Taken(e) OBVIOUS
  <2>2. Taken(e)' = t BY <1>2, <2>1 DEF Taken
  <2>3. SumsInOrder(a, m, t)' BY <1>1, <1>3, <2>1
  <2> QED BY <2>2, <2>3 DEF SumsInOrder
<1>5. BatchAtHand(e)'
  <2>1. CoeffTypes' BY <1>1, <1>2 DEF BatchAtHand, CoeffTypes, COEFF!FlushedLast
  <2>2. ASSUME NEW i \in 0 .. F - 1, Filled(i)' PROVE Stored(i)' = SumOf(e, i)'
    <3>1. Filled(i) BY <1>2, <2>2 DEF Filled
    <3>2. Stored(i)' = Stored(i) BY <1>2 DEF Stored
    <3>3. SumOf(e, i)' = SumOf(e, i) BY <1>3, NothingSent
    <3> QED BY <1>1, <3>1, <3>2, <3>3 DEF BatchAtHand
  <2>3. \A k \in Pairs : ~Computed(k)'
    <3>1. coeff_state' = "COMPUTE" => index' = 0 BY <1>1, <1>2 DEF BatchAtHand
    <3> QED BY <1>2, <3>1 DEF Computed, Pairs
  <2>4. IsPair(index', row', col')
        /\ row' = 0 /\ col' = 1 /\ index' = 0 /\ (coeff_state' # "FEED" => counter' = 0)
    BY <1>1, <1>2 DEF BatchAtHand
  <2> QED BY <2>1, <2>2, <2>3, <2>4 DEF BatchAtHand
<1>6. AnswersInOrder(e)'
  <2>1. Results' = Results /\ result_values' \in Seq(COEFF!CoeffFlit)
    BY <1>1, <1>2, ResultsGrow
  <2> QED BY <1>1, <1>2, <1>3, <2>1, AnswersSame DEF AnswersInOrder, outState
<1>7. Progress(a, m, e)'
  BY <1>1, <1>3, <1>4, <1>5, <1>6 DEF Progress
<1> QED BY <1>3, <1>7

(* The coefficient of the pair the walk has reached.                       *)
LEMMA CoefficientAtHand ==
    ASSUME numberItems \in Nat \ {0}, K!CorrInv, NEW e \in Nat, BatchAtHand(e),
           coeff_state = "COMPUTE"
    PROVE  /\ samples \in Counts
           /\ COEFF!PairCoefficient = CoefficientOf(e, index, samples)
           /\ COEFF!PairCoefficient \in Coeffs
<1>1. /\ index \in Pairs /\ IsPair(index, row, col)
      /\ mem_e \in [Lanes -> Words] /\ mem_sq \in [Lanes -> Words]
      /\ mem_p \in [Pairs -> Words]
      /\ \A i \in 0 .. F - 1 : Stored(i) = SumOf(e, i)
  BY DEF BatchAtHand, CoeffTypes, Filled
<1>2. samples \in Counts
  BY DEF K!CorrInv, K!CorrTypeOK, K!Counts, Counts
<1>3. row \in Lanes /\ col \in Lanes /\ row = Pair[index][1] /\ col = Pair[index][2]
  <2>1. IsPair(index, Pair[index][1], Pair[index][2])
    BY <1>1, PairHasItsIndex
  <2> QED BY <1>1, <2>1, IndexInjective DEF IsPair
<1>4. COEFF!PairCoefficient
        = Coefficient(samples, mem_e[row], mem_e[col], mem_sq[row], mem_sq[col], mem_p[index])
  BY DEF COEFF!PairCoefficient, COEFF!Coefficient, Coefficient, COEFF!ZeroCoeff, ZeroCoeff
<1>5. COEFF!PairCoefficient \in Coeffs
  BY <1>1, <1>2, <1>3, <1>4, CoefficientType
<1>6. ASSUME NEW l \in Lanes
      PROVE  mem_e[l] = SumOf(e, l) /\ mem_sq[l] = SumOf(e, N + l)
  <2>1. /\ l \in 0 .. F - 1 /\ l < N
        /\ N + l \in 0 .. F - 1 /\ ~(N + l < N) /\ N + l < 2 * N /\ (N + l) - N = l
    BY KernelSizes DEF Lanes
  <2>2. Stored(l) = mem_e[l] /\ Stored(N + l) = mem_sq[l] BY <2>1 DEF Stored
  <2> QED BY <1>1, <2>1, <2>2
<1>7. mem_p[index] = SumOf(e, 2 * N + index)
  <2>1. /\ 2 * N + index \in 0 .. F - 1 /\ ~(2 * N + index < N) /\ ~(2 * N + index < 2 * N)
        /\ (2 * N + index) - 2 * N = index
    BY <1>1, KernelSizes DEF Pairs
  <2>2. Stored(2 * N + index) = mem_p[index] BY <2>1 DEF Stored
  <2> QED BY <1>1, <2>1, <2>2
<1>8. CoefficientOf(e, index, samples)
        = Coefficient(samples, SumOf(e, row), SumOf(e, col), SumOf(e, N + row),
                      SumOf(e, N + col), SumOf(e, 2 * N + index))
  BY <1>1, <1>2, <1>3, CoefficientIs
<1>9. COEFF!PairCoefficient = CoefficientOf(e, index, samples)
  <2>1. /\ mem_e[row] = SumOf(e, row) /\ mem_e[col] = SumOf(e, col)
        /\ mem_sq[row] = SumOf(e, N + row) /\ mem_sq[col] = SumOf(e, N + col)
    BY <1>3, <1>6
  <2> QED BY ONLY <1>4, <1>7, <1>8, <2>1, Zenon
<1> QED BY <1>2, <1>5, <1>9

LEMMA ComputeStep ==
    ASSUME numberItems \in Nat \ {0}, K!CorrInv, NEW a, NEW m, NEW e, Progress(a, m, e),
           AccCoeff, COEFF!Compute
    PROVE  K!CorrInv' /\ Progress(a, m, e)' /\ UNCHANGED Service!cvars
<1>1. /\ a \in Nat /\ m \in 0 .. numberItems - 1 /\ e \in Nat
      /\ SumsInOrder(a, m, Taken(e)) /\ BatchAtHand(e) /\ AnswersInOrder(e)
  BY DEF Progress
<1>2. /\ UNCHANGED <<sums, counter, counter_rd, mem_e, mem_sq, mem_p, coeff_value>>
      /\ coeff_write' = FALSE /\ coeff_last' = COEFF!FlushedLast
      /\ coeff_state = "COMPUTE"
  BY DEF COEFF!Compute
<1>3. CoeffTypes /\ index \in Pairs /\ index \in Nat /\ index < P /\ IsPair(index, row, col)
  BY <1>1, KernelSizes DEF BatchAtHand, CoeffTypes, Pairs
<1> DEFINE g == NextPair(row, col)
<1>4. /\ index + 1 = P => g[1] + 1 = N
      /\ index + 1 # P => g[1] + 1 # N /\ index + 1 \in Pairs /\ IsPair(index + 1, g[1], g[2])
  BY <1>3, WalkEndsAtP
<1>5. /\ coeff' = [coeff EXCEPT ![index] = COEFF!PairCoefficient]
      /\ row' = IF g[1] + 1 = N THEN 0 ELSE g[1]
      /\ col' = IF g[1] + 1 = N THEN 1 ELSE g[2]
      /\ index' = IF g[1] + 1 = N THEN 0 ELSE index + 1
      /\ coeff_state' = IF g[1] + 1 = N THEN "READOUT" ELSE coeff_state
  BY <1>3 DEF COEFF!Compute, COEFF!Done, COEFF!NextPair, NextPair
<1> HIDE DEF g
<1>6. \/ /\ index + 1 = P /\ coeff_state' = "READOUT"
         /\ row' = 0 /\ col' = 1 /\ index' = 0
      \/ /\ index + 1 # P /\ coeff_state' = "COMPUTE" /\ index' = index + 1
         /\ index' \in Pairs /\ IsPair(index', row', col')
  BY <1>2, <1>4, <1>5
<1>7. /\ UNCHANGED <<sent, numberItems, received, axis_host_src, outState>>
      /\ UNCHANGED Service!cvars
      /\ ItemsInOrder(a * numberItems + m)'
      /\ \A t : SumsInOrder(a, m, t) => SumsInOrder(a, m, t)'
      /\ K!CorrInv'
  BY <1>2, CoeffFrame
<1>8. SumsInOrder(a, m, Taken(e))'
  <2>1. PICK t : t = Taken(e) OBVIOUS
  <2>2. Taken(e)' = t BY <1>2, <1>6, <2>1 DEF Taken
  <2>3. SumsInOrder(a, m, t)' BY <1>1, <1>7, <2>1
  <2> QED BY <2>2, <2>3 DEF SumsInOrder
<1>9. /\ samples \in Counts
      /\ COEFF!PairCoefficient = CoefficientOf(e, index, samples)
      /\ COEFF!PairCoefficient \in Coeffs
  BY <1>1, <1>2, CoefficientAtHand
<1>10. BatchAtHand(e)'
  <2>1. CoeffTypes'
    <3>1. coeff' \in [Pairs -> Coeffs] BY <1>3, <1>5, <1>9 DEF CoeffTypes
    <3>2. index' \in Pairs BY <1>6, KernelSizes
    <3> QED BY <1>2, <1>3, <1>6, <3>1, <3>2 DEF CoeffTypes, COEFF!FlushedLast
  <2>2. ASSUME NEW i \in 0 .. F - 1 PROVE Stored(i)' = SumOf(e, i)'
    <3>1. Filled(i) BY <1>2 DEF Filled
    <3>2. Stored(i)' = Stored(i) BY <1>2 DEF Stored
    <3>3. SumOf(e, i)' = SumOf(e, i) BY <1>7, NothingSent
    <3> QED BY <1>1, <3>1, <3>2, <3>3 DEF BatchAtHand
  <2>3. ASSUME NEW k \in Pairs, Computed(k)'
        PROVE  \E c \in Counts : coeff'[k] = CoefficientOf(e, k, c)'
    <3>1. \A c : CoefficientOf(e, k, c)' = CoefficientOf(e, k, c) BY <1>7, NothingSent
    <3>2. CASE k = index
      <4>1. coeff'[k] = CoefficientOf(e, k, samples)
        BY <1>3, <1>5, <1>9, <3>2 DEF CoeffTypes
      <4> QED BY <1>9, <3>1, <4>1
    <3>3. CASE k # index
      <4>1. k < index
        <5>1. CASE index + 1 = P BY <1>3, <3>3, <5>1, KernelSizes DEF Pairs
        <5>2. CASE index + 1 # P
          <6>1. k < index + 1 BY <1>6, <2>3, <5>2 DEF Computed
          <6> QED BY <1>3, <3>3, <6>1 DEF Pairs
        <5> QED BY <5>1, <5>2
      <4>2. coeff'[k] = coeff[k] BY <1>3, <1>5, <3>3 DEF CoeffTypes
      <4>3. PICK c \in Counts : coeff[k] = CoefficientOf(e, k, c)
        BY <1>1, <1>2, <4>1 DEF BatchAtHand, Computed
      <4> QED BY <3>1, <4>2, <4>3
    <3> QED BY <3>2, <3>3
  <2>4. /\ IsPair(index', row', col') /\ counter' = 0
        /\ coeff_state' # "COMPUTE" => row' = 0 /\ col' = 1 /\ index' = 0
    BY <1>1, <1>2, <1>6, FirstPair DEF BatchAtHand
  <2> QED BY <2>1, <2>2, <2>3, <2>4 DEF BatchAtHand
<1>11. AnswersInOrder(e)'
  <2>1. Results' = Results /\ result_values' \in Seq(COEFF!CoeffFlit)
    BY <1>1, <1>2, ResultsGrow
  <2>2. counter_rd' = counter_rd /\ counter_rd = 0 BY <1>1, <1>2 DEF AnswersInOrder
  <2> QED BY <1>1, <1>2, <1>7, <2>1, <2>2, AnswersSame DEF AnswersInOrder, outState
<1>12. Progress(a, m, e)'
  BY <1>1, <1>7, <1>8, <1>10, <1>11 DEF Progress
<1> QED BY <1>7, <1>12

(* The coefficient that is read out is the next result.                    *)
LEMMA ResultAdded ==
    ASSUME numberItems \in Nat \ {0}, K!CorrInv, NEW a, NEW m, NEW e, Progress(a, m, e),
           AccCoeff, COEFF!Readout, NEW j \in Pairs, j = counter_rd
    PROVE  /\ Len(Results') = e * P + j + 1
           /\ \A k \in 1 .. Len(Results'), b \in Nat, i \in Pairs :
                 k = b * P + i + 1 =>
                    /\ (b + 1) * numberItems' <= Len(sent')
                    /\ \E c \in Counts :
                          Results'[k] = [last |-> i + 1 = P, val |-> CoefficientOf(b, i, c)']
<1>1. /\ a \in Nat /\ m \in 0 .. numberItems - 1 /\ e \in Nat
      /\ BatchAtHand(e) /\ AnswersInOrder(e)
  BY DEF Progress
<1>2. /\ coeff_state = "READOUT" /\ coeff_write' = TRUE
      /\ coeff_value' = coeff[j] /\ coeff_last' = (j + 1 = P)
  BY DEF COEFF!Readout
<1>3. sent' = sent /\ numberItems' = numberItems
  BY CoeffFrame
<1>4. (e + 1) * numberItems <= Len(sent)
  <2>1. e + 1 <= a BY <1>2, BatchesAreSent DEF Computed
  <2> QED BY <1>1, <2>1, BatchesAreSent
<1>5. PICK c0 \in Counts : coeff[j] = CoefficientOf(e, j, c0)
  BY <1>1, <1>2 DEF BatchAtHand, Computed
<1>6. PICK z : z = [last |-> j + 1 = P, val |-> CoefficientOf(e, j, c0)]
  OBVIOUS
<1>7. PICK r \in Seq(COEFF!CoeffFlit) : r = Results
  BY <1>1, ResultsGrow
<1>8. Results' = r \o << z >>
  <2>1. ReadOut' = << z >> BY <1>2, <1>5, <1>6 DEF ReadOut
  <2>2. Results' = Results \o ReadOut' BY <1>1, ResultsGrow
  <2> QED BY <1>7, <2>1, <2>2
<1>9. z \in COEFF!CoeffFlit
  <2>1. coeff[j] \in Coeffs BY <1>1 DEF BatchAtHand, CoeffTypes
  <2> QED BY <1>5, <1>6, <2>1 DEF COEFF!CoeffFlit, COEFF!Coeffs, Coeffs, COEFF!Words, Words
<1>10. Results' = Append(r, z)
  BY <1>8, <1>9, AppendIsConcat
<1>11. PICK l \in Nat : l = Len(r) /\ l = e * P + j
  <2>1. Len(r) = e * P + j BY <1>1, <1>7 DEF AnswersInOrder
  <2>2. Len(r) \in Nat OBVIOUS
  <2> QED BY <2>1, <2>2
<1>12. /\ Len(Results') = l + 1
       /\ \A k \in 1 .. l : Results'[k] = r[k]
       /\ Results'[l + 1] = z
  <2>1. PICK g : g = Append(r, z) OBVIOUS
  <2>2. /\ Len(g) = Len(r) + 1
        /\ \A k \in 1 .. Len(r) : g[k] = r[k]
        /\ g[Len(r) + 1] = z
    BY ONLY r \in Seq(COEFF!CoeffFlit), z \in COEFF!CoeffFlit, <1>9, <2>1, AppendProperties
  <2>3. l = Len(r) BY <1>11
  <2>4. Results' = g BY <1>10, <2>1
  <2> QED BY <2>2, <2>3, <2>4, Zenon
<1>13. Len(Results') = e * P + j + 1
  BY ONLY <1>11, <1>12, Zenon
<1>14. ASSUME NEW k \in 1 .. Len(Results'), NEW b \in Nat, NEW i \in Pairs, k = b * P + i + 1
       PROVE  /\ (b + 1) * numberItems' <= Len(sent')
              /\ \E c \in Counts :
                    Results'[k] = [last |-> i + 1 = P, val |-> CoefficientOf(b, i, c)']
  <2>0. \A c : CoefficientOf(b, i, c)' = CoefficientOf(b, i, c) BY <1>3, NothingSent
  <2>1. CASE k \in 1 .. l
    <3>1. /\ (b + 1) * numberItems <= Len(sent)
          /\ \E c \in Counts : r[k] = [last |-> i + 1 = P, val |-> CoefficientOf(b, i, c)]
      BY <1>1, <1>7, <1>11, <1>14, <2>1 DEF AnswersInOrder
    <3> QED BY <1>3, <1>12, <2>0, <2>1, <3>1
  <2>2. CASE k = l + 1
    <3>1. e * P + j = b * P + i
      <4> DEFINE p == e * P
                 p2 == b * P
      <4>1. p \in Int /\ p2 \in Int /\ p + j + 1 = p2 + i + 1
        BY <1>1, <1>11, <1>14, <2>2, KernelSizes
      <4> HIDE DEF p, p2
      <4>2. p + j = p2 + i BY <4>1 DEF Pairs
      <4> QED BY <4>2 DEF p, p2
    <3>2. e = b /\ j = i
      BY <1>1, <3>1, KernelSizes, PlaceUnique DEF Pairs
    <3>3. Results'[k] = [last |-> i + 1 = P, val |-> CoefficientOf(b, i, c0)]
      BY ONLY <1>6, <1>12, <2>2, <3>2, Zenon
    <3> QED BY <1>3, <1>4, <2>0, <3>2, <3>3
  <2> QED BY <1>12, <2>1, <2>2
<1> QED BY <1>13, <1>14

LEMMA ReadoutStep ==
    ASSUME numberItems \in Nat \ {0}, K!CorrInv, NEW a, NEW m, NEW e, Progress(a, m, e),
           AccCoeff, COEFF!Readout
    PROVE  /\ K!CorrInv' /\ UNCHANGED Service!cvars
           /\ \E e2 \in Nat : Progress(a, m, e2)'
<1>1. /\ a \in Nat /\ m \in 0 .. numberItems - 1 /\ e \in Nat
      /\ SumsInOrder(a, m, Taken(e)) /\ BatchAtHand(e) /\ AnswersInOrder(e)
  BY DEF Progress
<1>2. PICK j \in Pairs : j = counter_rd
  BY <1>1 DEF BatchAtHand, CoeffTypes
<1>3. /\ UNCHANGED <<sums, counter, row, col, index, mem_e, mem_sq, mem_p, coeff>>
      /\ coeff_state = "READOUT" /\ coeff_write' = TRUE
      /\ coeff_value' = coeff[j] /\ coeff_last' = (j + 1 = P)
      /\ j + 1 = P => coeff_state' = "FEED" /\ counter_rd' = 0
      /\ j + 1 # P => coeff_state' = "READOUT" /\ counter_rd' = j + 1
  BY <1>2 DEF COEFF!Readout
<1>4. /\ UNCHANGED <<sent, numberItems, received, axis_host_src, outState>>
      /\ UNCHANGED Service!cvars
      /\ ItemsInOrder(a * numberItems + m)'
      /\ \A t : SumsInOrder(a, m, t) => SumsInOrder(a, m, t)'
      /\ K!CorrInv'
  BY <1>3, CoeffFrame
<1>5. CoeffTypes'
  <2>1. coeff_value' \in Coeffs /\ coeff_last' \in BOOLEAN
    BY <1>1, <1>3 DEF BatchAtHand, CoeffTypes
  <2>2. counter_rd' \in Pairs /\ coeff_state' \in {"FEED", "READOUT"}
    BY <1>3, KernelSizes DEF Pairs
  <2> QED BY <1>1, <1>3, <2>1, <2>2 DEF BatchAtHand, CoeffTypes
<1>6. counter = 0 /\ IsPair(index, row, col) /\ row = 0 /\ col = 1 /\ index = 0
  BY <1>1, <1>3 DEF BatchAtHand
<1>7. /\ Len(Results') = e * P + j + 1
      /\ \A k \in 1 .. Len(Results'), b \in Nat, i \in Pairs :
            k = b * P + i + 1 =>
               /\ (b + 1) * numberItems' <= Len(sent')
               /\ \E c \in Counts :
                     Results'[k] = [last |-> i + 1 = P, val |-> CoefficientOf(b, i, c)']
  BY <1>2, ResultAdded
<1>8. /\ received' \in Seq(COEFF!CoeffFlit) /\ axis_host_src' \in Seq(COEFF!CoeffFlit)
      /\ result_values' \in Seq(COEFF!CoeffFlit)
      /\ valid_write' \in BOOLEAN /\ x' \in COEFF!CoeffFlit
  <2>1. result_values' \in Seq(COEFF!CoeffFlit) BY <1>1, ResultsGrow
  <2> QED BY <1>1, <1>4, <2>1 DEF AnswersInOrder, outState
<1>9. PICK p : p = (e + 1) * F
  OBVIOUS
<1>10. SumsInOrder(a, m, p)'
  <2>1. Taken(e) = p BY <1>3, <1>9 DEF Taken
  <2> QED BY <1>1, <1>4, <2>1
<1>11. CASE j + 1 = P
  <2>1. Taken(e + 1)' = p
    <3>1. Taken(e + 1)' = (e + 1) * F + 0 BY <1>3, <1>6, <1>11 DEF Taken
    <3>2. (e + 1) * F \in Nat
      <4>1. \A f, g \in Nat : f * g \in Nat OBVIOUS
      <4> QED BY <4>1, <1>1, KernelSizes
    <3> QED BY <1>9, <3>1, <3>2
  <2>2. SumsInOrder(a, m, Taken(e + 1))' BY <1>10, <2>1 DEF SumsInOrder
  <2>3. BatchAtHand(e + 1)'
    <3>1. \A i \in 0 .. F - 1 : ~Filled(i)' BY <1>3, <1>6, <1>11 DEF Filled
    <3>2. \A k \in Pairs : ~Computed(k)' BY <1>3, <1>11 DEF Computed
    <3> QED BY <1>3, <1>5, <1>6, <3>1, <3>2 DEF BatchAtHand
  <2>4. AnswersInOrder(e + 1)'
    <3>1. Len(Results') = (e + 1) * P + counter_rd'
      <4>1. (e + 1) * P = e * P + P BY <1>1, KernelSizes
      <4>2. PICK f \in Int : f = e * P
        <5>1. e * P \in Int BY <1>1, KernelSizes
        <5> QED BY <5>1
      <4>3. counter_rd' = 0 /\ Len(Results') = f + j + 1 /\ (e + 1) * P = f + P
        BY <1>3, <1>7, <1>11, <4>1, <4>2
      <4> QED BY <1>11, <4>3, KernelSizes DEF Pairs
    <3>2. counter_rd' = 0 BY <1>3, <1>11
    <3> QED BY <1>7, <1>8, <3>1, <3>2 DEF AnswersInOrder
  <2>5. e + 1 \in Nat BY <1>1
  <2>6. Progress(a, m, e + 1)'
    BY <1>1, <1>4, <2>2, <2>3, <2>4, <2>5 DEF Progress
  <2> QED BY <1>4, <2>5, <2>6
<1>12. CASE j + 1 # P
  <2>1. SumsInOrder(a, m, Taken(e))'
    <3>1. Taken(e)' = p BY <1>3, <1>9, <1>12 DEF Taken
    <3> QED BY <1>10, <3>1 DEF SumsInOrder
  <2>2. BatchAtHand(e)'
    <3>1. ASSUME NEW i \in 0 .. F - 1 PROVE Stored(i)' = SumOf(e, i)'
      <4>1. Filled(i) BY <1>3 DEF Filled
      <4>2. Stored(i)' = Stored(i) BY <1>3 DEF Stored
      <4>3. SumOf(e, i)' = SumOf(e, i) BY <1>4, NothingSent
      <4> QED BY <1>1, <4>1, <4>2, <4>3 DEF BatchAtHand
    <3>2. ASSUME NEW k \in Pairs PROVE \E c \in Counts : coeff'[k] = CoefficientOf(e, k, c)'
      <4>1. PICK c \in Counts : coeff[k] = CoefficientOf(e, k, c)
        BY <1>1, <1>3 DEF BatchAtHand, Computed
      <4>2. CoefficientOf(e, k, c)' = CoefficientOf(e, k, c) BY <1>4, NothingSent
      <4> QED BY <1>3, <4>1, <4>2
    <3> QED BY <1>3, <1>5, <1>6, <3>1, <3>2 DEF BatchAtHand
  <2>3. AnswersInOrder(e)'
    <3>1. Len(Results') = e * P + counter_rd'
      <4>1. PICK f \in Int : f = e * P
        <5>1. e * P \in Int BY <1>1, KernelSizes
        <5> QED BY <5>1
      <4>2. Len(Results') = f + j + 1 /\ counter_rd' = j + 1 BY <1>3, <1>7, <1>12, <4>1
      <4>3. Len(Results') = f + counter_rd' BY <4>2 DEF Pairs
      <4> QED BY ONLY <4>1, <4>3, Zenon
    <3>2. coeff_state' = "READOUT" BY <1>3, <1>12
    <3> QED BY <1>7, <1>8, <3>1, <3>2 DEF AnswersInOrder
  <2>4. Progress(a, m, e)'
    BY <1>1, <1>4, <2>1, <2>2, <2>3 DEF Progress
  <2> QED BY <1>1, <1>4, <2>4
<1> QED BY <1>11, <1>12
-----------------------------------------------------------------------------
(* The invariant is inductive, and every step is a step of the service or  *)
(* leaves what the host sees unchanged.                                    *)
LEMMA NextKernelInv ==
    KernelInv /\ [Next]_vars => KernelInv' /\ [Service!CNext]_Service!cvars
<1> SUFFICES ASSUME KernelInv, [Next]_vars
             PROVE  KernelInv' /\ [Service!CNext]_Service!cvars
  OBVIOUS
<1>1. numberItems \in Nat \ {0} /\ K!CorrInv
  BY DEF KernelInv
<1>2. PICK a \in Nat, e \in Nat, m \in 0 .. numberItems - 1 : Progress(a, m, e)
  BY DEF KernelInv
<1>3. numberItems' = numberItems
  BY DEF Next, Send, Receive, ConvertDataIn, Accumulate, AccCoeff, ConvertDataOut, host, vars
<1>4. ASSUME K!CorrInv', NEW a2 \in Nat, NEW e2 \in Nat, NEW m2 \in 0 .. numberItems - 1,
             Progress(a2, m2, e2)'
      PROVE  KernelInv'
  BY <1>1, <1>3, <1>4 DEF KernelInv
<1>5. CASE Send
  <2>1. K!CorrInv' /\ Progress(a, m, e)' /\ Service!Request BY <1>1, <1>2, <1>5, SendStep
  <2> QED BY <1>2, <1>4, <2>1 DEF Service!CNext
<1>6. CASE Receive
  <2>1. K!CorrInv' /\ Progress(a, m, e)' /\ Service!Answer BY <1>1, <1>2, <1>6, ReceiveStep
  <2> QED BY <1>2, <1>4, <2>1 DEF Service!CNext
<1>7. CASE ConvertDataIn
  <2>1. K!CorrInv' /\ Progress(a, m, e)' /\ UNCHANGED Service!cvars
    BY <1>1, <1>2, <1>7, ConvertDataInStep
  <2> QED BY <1>2, <1>4, <2>1
<1>8. CASE Accumulate
  <2>1. /\ K!CorrInv' /\ UNCHANGED Service!cvars
        /\ \E a2 \in Nat, m2 \in 0 .. numberItems - 1 : Progress(a2, m2, e)'
    BY <1>1, <1>2, <1>8, AccumulateStep
  <2>2. PICK a2 \in Nat, m2 \in 0 .. numberItems - 1 : Progress(a2, m2, e)' BY <2>1
  <2> QED BY <1>2, <1>4, <2>1, <2>2
<1>9. CASE AccCoeff
  <2>1. K!CorrInv' /\ UNCHANGED Service!cvars /\ \E e2 \in Nat : Progress(a, m, e2)'
    <3>1. CASE COEFF!FeedSum BY <1>1, <1>2, <1>9, <3>1, FeedSumStep
    <3>2. CASE COEFF!FeedIdle \/ COEFF!Settle BY <1>1, <1>2, <1>9, <3>2, CoeffIdleStep
    <3>3. CASE COEFF!Compute BY <1>1, <1>2, <1>9, <3>3, ComputeStep
    <3>4. CASE COEFF!Readout BY <1>1, <1>2, <1>9, <3>4, ReadoutStep
    <3> QED BY <1>9, <3>1, <3>2, <3>3, <3>4 DEF AccCoeff, COEFF!AccCoeff
  <2>2. PICK e2 \in Nat : Progress(a, m, e2)' BY <2>1
  <2> QED BY <1>2, <1>4, <2>1, <2>2
<1>10. CASE ConvertDataOut
  <2>1. K!CorrInv' /\ Progress(a, m, e)' /\ UNCHANGED Service!cvars
    BY <1>1, <1>2, <1>10, ConvertDataOutStep
  <2> QED BY <1>2, <1>4, <2>1
<1>11. CASE UNCHANGED vars
  <2>1. UNCHANGED <<axis_host_sink, data_source, sums, samples, inState, corrVars, coeffVars,
                    numberItems, sent, received, axis_host_src, result_values, outState>>
    BY <1>11 DEF vars, streams, host, outState, inState, corrVars, coeffVars
  <2>2. /\ K!CorrInv' /\ ItemsInOrder(a * numberItems + m)'
        /\ SumsInOrder(a, m, Taken(e))' /\ BatchAtHand(e)'
    BY <1>1, <1>2, <2>1, OutputOnly
  <2>3. AnswersInOrder(e)' BY <1>2, <2>1, AnswersFrame DEF Progress
  <2>4. Progress(a, m, e)' BY <1>2, <2>1, <2>2, <2>3 DEF Progress
  <2> QED BY <1>2, <1>4, <2>1, <2>2, <2>4 DEF Service!cvars
<1> QED BY <1>5, <1>6, <1>7, <1>8, <1>9, <1>10, <1>11 DEF Next

(* The kernel answers every batch with its own coefficients, whole and in  *)
(* order, however convert_data_in, CORR, COEFF and convert_data_out        *)
(* interleave and stall each other.                                        *)
THEOREM KernelImplementsCorrelation == Spec => ImplementsCorrelation
<1>1. Init => Service!CInit
  BY DEF Init, Service!CInit
<1> QED BY <1>1, InitKernelInv, NextKernelInv, PTL
        DEF Spec, ImplementsCorrelation, Service!CSpec
=============================================================================
