----------------------------- MODULE CorrProofs -----------------------------
(***************************************************************************)
(* CORR keeps its types and its read-out invariant, ends every batch with  *)
(* zeroed accumulators, and implements BatchSums, for every N, word width  *)
(* and stream depth.                                                       *)
(***************************************************************************)
EXTENDS CorrCorrect, PairProofs, SequenceTheorems

CorrInv == CorrTypeOK /\ ReadoutInv

USE ParameterAssumption

(* Sizes and ranges the proofs below use. *)
LEMMA Sizes ==
    /\ N \in Nat /\ N >= 2 /\ P \in Nat /\ P >= 1 /\ W \in Nat /\ W >= 1 /\ U \in Nat /\ U >= 1
    /\ F \in Nat /\ F = 2 * N + P
    /\ 0 \in Lanes /\ 0 \in Pairs /\ 0 \in Words /\ 0 \in Counts
  BY FirstPair DEF F, Lanes, Pairs, Words, Counts

LEMMA WordSum ==
    /\ \A a, b \in Words : (a + b) % W \in Words
    /\ \A a \in Counts : (a + 1) % U \in Counts
    /\ \A item \in Items, i \in Lanes : item[i] \in Words /\ Square(item, i) \in Words
    /\ \A item \in Items, i \in Pairs : Product(item, i) \in Words
<1>1. \A n \in Nat : n % W \in Words
  BY Sizes DEF Words
<1>2. \A m, n \in Words : m * n \in Nat /\ m + n \in Nat
  BY DEF Words
<1>3. \A item \in Items, i \in Lanes : item[i] \in Words
  OBVIOUS
<1>4. \A i \in Pairs : Pair[i][1] \in Lanes /\ Pair[i][2] \in Lanes
  BY PairHasItsIndex DEF IsPair
<1>5. \A n \in Nat : n % U \in Counts
  BY Sizes DEF Counts
<1>6. \A n \in Counts : n + 1 \in Nat
  BY DEF Counts
<1>7. \A item \in Items, i \in Pairs : Product(item, i) \in Words
  BY <1>1, <1>2, <1>3, <1>4 DEF Product
<1>8. \A item \in Items, i \in Lanes : Square(item, i) \in Words
  BY <1>1, <1>2, <1>3 DEF Square
<1> QED BY <1>1, <1>2, <1>3, <1>5, <1>6, <1>7, <1>8

LEMMA FlushType ==
    ASSUME CorrTypeOK, Flush
    PROVE  dst' \in Seq(SumFlit)
<1>1. [last |-> last, val |-> top_result] \in SumFlit
  BY DEF CorrTypeOK, SumFlit
<1>2. dst \in Seq(SumFlit)
  BY DEF CorrTypeOK
<1> QED BY <1>1, <1>2, AppendProperties DEF Flush

(* The index and the state after a read of entry i of n. *)
LEMMA AdvanceInRange ==
    ASSUME NEW n \in Nat, NEW i \in 0 .. n - 1
    PROVE  /\ Advance(i, n) \in 0 .. n - 1
           /\ i + 1 # n => Advance(i, n) = i + 1
           /\ i + 1 = n => Advance(i, n) = 0
BY DEF Advance
-----------------------------------------------------------------------------
LEMMA InitCorrInv == Init => CorrInv
  BY Sizes, FirstPair
  DEF Init, CorrInit, CorrInv, CorrTypeOK, ReadoutInv, IndicesAtRest, ReadSumsAreZero,
      LastMarksTheFinalSum

LEMMA ComputeItemCorrInv ==
    ASSUME CorrInv, ComputeItem
    PROVE  CorrInv'
<1> USE DEF CorrInv
<1>1. Head(src) \in InputFlit /\ Tail(src) \in Seq(InputFlit)
  BY DEF CorrTypeOK, ComputeItem
<1>2. Head(src).val \in Items
  BY <1>1 DEF InputFlit
<1>3. dst' \in Seq(SumFlit)
  BY FlushType DEF ComputeItem
<1>4. /\ sums_elements' \in [Lanes -> Words]
      /\ sums_squares' \in [Lanes -> Words]
      /\ sums_products' \in [Pairs -> Words]
  BY <1>2, WordSum DEF CorrTypeOK, ComputeItem
<1>5. samples_counter' \in Counts /\ samples_number' \in Counts
  BY WordSum DEF CorrTypeOK, ComputeItem
<1>6. CorrTypeOK'
  BY <1>1, <1>3, <1>4, <1>5 DEF CorrTypeOK, ComputeItem
<1>7. idx_s = 0 /\ idx_sq = 0 /\ output_index = 0
  BY DEF ComputeItem, ReadoutInv, IndicesAtRest
<1>8. IndicesAtRest' /\ LastMarksTheFinalSum'
  BY <1>7 DEF ComputeItem, IndicesAtRest, LastMarksTheFinalSum
<1>9. ReadPos' = 0
  BY <1>7 DEF ReadPos, ComputeItem
<1>10. ReadSumsAreZero'
  BY <1>9, Sizes DEF ReadSumsAreZero
<1> QED BY <1>6, <1>8, <1>10 DEF ReadoutInv

LEMMA ComputeIdleCorrInv ==
    ASSUME CorrInv, ComputeIdle
    PROVE  CorrInv'
<1>1. dst' \in Seq(SumFlit)
  BY FlushType DEF CorrInv, ComputeIdle
<1> QED
  BY <1>1 DEF CorrInv, CorrTypeOK, ComputeIdle, ReadoutInv, IndicesAtRest,
              ReadSumsAreZero, LastMarksTheFinalSum

LEMMA ReadoutSCorrInv ==
    ASSUME CorrInv, ReadoutS
    PROVE  CorrInv'
<1> USE DEF CorrInv
<1>1. dst' \in Seq(SumFlit)
  BY FlushType DEF ReadoutS
<1>2. /\ idx_s \in 0 .. N - 1 /\ idx_s' \in Lanes
      /\ idx_s + 1 # N => idx_s' = idx_s + 1 /\ state' = "READOUT_S"
      /\ idx_s + 1 = N => idx_s' = 0 /\ state' = "READOUT_SQ"
  BY AdvanceInRange, Sizes DEF ReadoutS, CorrTypeOK, Lanes, StateAfter
<1>3. CorrTypeOK'
  BY <1>1, <1>2, Sizes DEF CorrTypeOK, ReadoutS, ReadAccumulator
<1>4. IndicesAtRest' /\ LastMarksTheFinalSum'
  BY <1>2 DEF ReadoutS, ReadoutInv, IndicesAtRest, LastMarksTheFinalSum
<1>5. idx_sq = 0 /\ output_index = 0
  BY DEF ReadoutS, ReadoutInv, IndicesAtRest
<1>6. ReadPos = idx_s /\ ReadPos' = idx_s + 1
  BY <1>2, <1>5, Sizes DEF ReadPos, ReadoutS
<1>7. \A i \in 0 .. F - 1 : i < idx_s + 1 => SumAt(i)' = 0
  <2> SUFFICES ASSUME NEW i \in 0 .. F - 1, i < idx_s + 1 PROVE SumAt(i)' = 0
    OBVIOUS
  <2>1. i \in Lanes /\ SumAt(i) = sums_elements[i] /\ SumAt(i)' = sums_elements'[i]
    <3>1. i \in Int /\ i < N BY <1>2, Sizes
    <3> QED BY <3>1, Sizes DEF SumAt, Lanes
  <2>2. i < idx_s => sums_elements[i] = 0
    BY <2>1, <1>6 DEF ReadoutS, ReadoutInv, ReadSumsAreZero
  <2> QED BY <2>1, <2>2, <1>2 DEF ReadoutS, ReadAccumulator, CorrTypeOK
<1>8. ReadSumsAreZero'
  BY <1>6, <1>7 DEF ReadSumsAreZero
<1> QED BY <1>3, <1>4, <1>8 DEF ReadoutInv

LEMMA ReadoutSQCorrInv ==
    ASSUME CorrInv, ReadoutSQ
    PROVE  CorrInv'
<1> USE DEF CorrInv
<1>1. dst' \in Seq(SumFlit)
  BY FlushType DEF ReadoutSQ
<1>2. /\ idx_sq \in 0 .. N - 1 /\ idx_sq' \in Lanes
      /\ idx_sq + 1 # N => idx_sq' = idx_sq + 1 /\ state' = "READOUT_SQ"
      /\ idx_sq + 1 = N => idx_sq' = 0 /\ state' = "READOUT_P"
  BY AdvanceInRange, Sizes DEF ReadoutSQ, CorrTypeOK, Lanes, StateAfter
<1>3. CorrTypeOK'
  BY <1>1, <1>2, Sizes DEF CorrTypeOK, ReadoutSQ, ReadAccumulator
<1>4. IndicesAtRest' /\ LastMarksTheFinalSum'
  BY <1>2 DEF ReadoutSQ, ReadoutInv, IndicesAtRest, LastMarksTheFinalSum
<1>5. output_index = 0
  BY DEF ReadoutSQ, ReadoutInv, IndicesAtRest
<1>6. ReadPos = N + idx_sq /\ ReadPos' = N + idx_sq + 1
  BY <1>2, <1>5, Sizes DEF ReadPos, ReadoutSQ
<1>7. \A i \in 0 .. F - 1 : i < N + idx_sq + 1 => SumAt(i)' = 0
  <2> SUFFICES ASSUME NEW i \in 0 .. F - 1, i < N + idx_sq + 1 PROVE SumAt(i)' = 0
    OBVIOUS
  <2>1. i < N + idx_sq => SumAt(i) = 0
    BY <1>6 DEF ReadoutSQ, ReadoutInv, ReadSumsAreZero
  <2>2. CASE i < N
    BY <2>1, <2>2, <1>2, Sizes DEF SumAt, ReadoutSQ
  <2>3. CASE i >= N
    <3>1. i - N \in Lanes /\ SumAt(i) = sums_squares[i - N]
          /\ SumAt(i)' = sums_squares'[i - N]
      <4>1. i \in Int /\ i >= N /\ i < 2 * N BY <2>3, <1>2, Sizes
      <4> QED BY <4>1, Sizes DEF SumAt, Lanes
    <3> QED BY <3>1, <2>1, <1>2, Sizes DEF ReadoutSQ, ReadAccumulator, CorrTypeOK
  <2> QED BY <2>2, <2>3, Sizes
<1>8. ReadSumsAreZero'
  BY <1>6, <1>7 DEF ReadSumsAreZero
<1> QED BY <1>3, <1>4, <1>8 DEF ReadoutInv

(* What a read of the products leaves behind; with the final one, nothing. *)
LEMMA ReadoutPZeroes ==
    ASSUME CorrInv, ReadoutP
    PROVE  \A i \in 0 .. F - 1 : i < 2 * N + output_index + 1 => SumAt(i)' = 0
<1> SUFFICES ASSUME NEW i \in 0 .. F - 1, i < 2 * N + output_index + 1
             PROVE  SumAt(i)' = 0
  OBVIOUS
<1>1. output_index \in Pairs /\ ReadPos = 2 * N + output_index
  BY DEF CorrInv, CorrTypeOK, ReadoutP, ReadPos
<1>2. i < 2 * N + output_index => SumAt(i) = 0
  BY <1>1 DEF CorrInv, ReadoutP, ReadoutInv, ReadSumsAreZero
<1>3. CASE i < 2 * N
  BY <1>1, <1>2, <1>3, Sizes DEF SumAt, ReadoutP, Pairs
<1>4. CASE i >= 2 * N
  <2>1. i - 2 * N \in Pairs /\ SumAt(i) = sums_products[i - 2 * N]
        /\ SumAt(i)' = sums_products'[i - 2 * N]
    BY <1>4, Sizes DEF SumAt, Pairs
  <2> QED BY <2>1, <1>1, <1>2, Sizes
          DEF ReadoutP, ReadAccumulator, CorrInv, CorrTypeOK, Pairs
<1> QED BY <1>3, <1>4, Sizes

LEMMA ReadoutPCorrInv ==
    ASSUME CorrInv, ReadoutP
    PROVE  CorrInv'
<1> USE DEF CorrInv
<1>1. dst' \in Seq(SumFlit)
  BY FlushType DEF ReadoutP
<1>2. /\ output_index \in 0 .. P - 1 /\ output_index' \in Pairs
      /\ output_index + 1 # P => output_index' = output_index + 1 /\ state' = "READOUT_P"
                                 /\ last' = FALSE
      /\ output_index + 1 = P => output_index' = 0 /\ state' = "COMPUTE" /\ last' = TRUE
  BY AdvanceInRange, Sizes DEF ReadoutP, CorrTypeOK, Pairs, FinalProduct
<1>3. samples_counter' \in Counts /\ samples_number' \in Counts
  BY Sizes DEF ReadoutP, CorrTypeOK
<1>4. CorrTypeOK'
  BY <1>1, <1>2, <1>3, Sizes DEF CorrTypeOK, ReadoutP, ReadAccumulator
<1>5. IndicesAtRest' /\ LastMarksTheFinalSum'
  BY <1>2 DEF ReadoutP, ReadoutInv, IndicesAtRest, LastMarksTheFinalSum
<1>6. state' # "COMPUTE" => ReadPos' = 2 * N + output_index + 1
  BY <1>2, Sizes DEF ReadPos, ReadoutP
<1>7. ReadSumsAreZero'
  BY <1>6, ReadoutPZeroes DEF ReadSumsAreZero
<1> QED BY <1>4, <1>5, <1>7 DEF ReadoutInv

(* The neighbours and stuttering steps leave CORR alone. *)
LEMMA EnvironmentCorrInv ==
    ASSUME CorrInv, Collect \/ (\E f \in InputFlit : Offer(f)) \/ UNCHANGED vars
    PROVE  CorrInv'
<1>1. UNCHANGED <<samples_number, corrState>>
  BY DEF Collect, Offer, vars
<1>2. src' \in Seq(InputFlit) /\ dst' \in Seq(SumFlit)
  <2>1. src \in Seq(InputFlit) /\ dst \in Seq(SumFlit)
    BY DEF CorrInv, CorrTypeOK
  <2>2. CASE Collect
    BY <2>1, <2>2, HeadTailProperties DEF Collect
  <2>3. CASE \E f \in InputFlit : Offer(f)
    BY <2>1, <2>3, AppendProperties DEF Offer
  <2>4. CASE UNCHANGED vars
    BY <2>1, <2>4 DEF vars
  <2> QED BY <2>2, <2>3, <2>4
<1>3. CorrTypeOK'
  BY <1>1, <1>2 DEF CorrInv, CorrTypeOK, corrState
<1>4. ReadoutInv'
  BY <1>1 DEF CorrInv, ReadoutInv, corrState, IndicesAtRest, ReadSumsAreZero, ReadPos,
              SumAt, LastMarksTheFinalSum
<1> QED BY <1>3, <1>4 DEF CorrInv

LEMMA NextCorrInv == CorrInv /\ [Next]_vars => CorrInv'
  BY ComputeItemCorrInv, ComputeIdleCorrInv, ReadoutSCorrInv, ReadoutSQCorrInv,
     ReadoutPCorrInv, EnvironmentCorrInv
  DEF Next, Accumulate

(* CORR's inductive invariant holds in every reachable state. *)
THEOREM CorrInvariant == Spec => []CorrInv
  BY InitCorrInv, NextCorrInv, PTL DEF Spec

(* Type correctness: no index of CORR ever leaves its array. *)
THEOREM CorrTypeCorrect == Spec => []CorrTypeOK
<1>1. CorrInv => CorrTypeOK BY DEF CorrInv
<1> QED BY <1>1, CorrInvariant, PTL

(* Nothing of a batch stays behind in the part of the accumulators its     *)
(* read-out has passed.                                                    *)
THEOREM ReadoutCorrect == Spec => []ReadoutInv
<1>1. CorrInv => ReadoutInv BY DEF CorrInv
<1> QED BY <1>1, CorrInvariant, PTL

(* The step that ends a batch zeroes the last sum that was not zero yet.   *)
LEMMA EndOfBatchStep ==
    ASSUME CorrInv, Next, state = "READOUT_P", state' = "COMPUTE"
    PROVE  \A i \in 0 .. F - 1 : SumAt(i)' = 0
<1>1. ReadoutP
  BY DEF Next, Accumulate, ComputeItem, ComputeIdle, ReadoutS, ReadoutSQ, Collect, Offer,
         corrState
<1>2. output_index + 1 = P /\ output_index \in Nat
  BY <1>1 DEF ReadoutP, FinalProduct, CorrInv, CorrTypeOK, Pairs
<1> QED BY <1>1, <1>2, ReadoutPZeroes, Sizes

(* No batch sees a contribution of an earlier one. *)
THEOREM BatchesStartFromZeroes == Spec => EndOfBatchLeavesZeroes
<1>1. CorrInv /\ [Next]_vars
        => [state = "READOUT_P" /\ state' = "COMPUTE"
              => \A i \in 0 .. F - 1 : SumAt(i)' = 0]_vars
  BY EndOfBatchStep
<1> QED BY <1>1, CorrInvariant, PTL DEF Spec, EndOfBatchLeavesZeroes
-----------------------------------------------------------------------------
(* CORR implements BatchSums, one invocation at a time.  What the stream   *)
(* still owes, Pending \o Unread, is a function of the state of CORR.      *)
LEMMA StreamTypes ==
    ASSUME CorrInv
    PROVE  /\ dst \in Seq(SumFlit) /\ Pending \in Seq(SumFlit)
           /\ ReadPos \in 0 .. F - 1
           /\ \A i \in 0 .. F - 1 : SumAt(i) \in Words
           /\ Unread \in Seq(SumFlit)
           /\ Len(Unread) = IF state = "COMPUTE" THEN 0 ELSE F - ReadPos
<1>1. dst \in Seq(SumFlit) /\ Pending \in Seq(SumFlit)
  <2>1. [last |-> last, val |-> top_result] \in SumFlit
    BY DEF CorrInv, CorrTypeOK, SumFlit
  <2> QED BY <2>1 DEF CorrInv, CorrTypeOK, Pending
<1>2. ReadPos \in 0 .. F - 1
  <2>1. /\ idx_s \in 0 .. N - 1 /\ idx_sq \in 0 .. N - 1 /\ output_index \in 0 .. P - 1
    BY DEF CorrInv, CorrTypeOK, Lanes, Pairs
  <2> QED BY <2>1, Sizes DEF ReadPos
<1>3. ASSUME NEW i \in 0 .. F - 1 PROVE SumAt(i) \in Words
  <2>1. CASE i < N
    BY <2>1, Sizes DEF CorrInv, CorrTypeOK, SumAt, Lanes
  <2>2. CASE i >= N /\ i < 2 * N
    <3>1. i - N \in Lanes /\ ~(i < N) BY <2>2, Sizes DEF Lanes
    <3> QED BY <3>1, <2>2 DEF CorrInv, CorrTypeOK, SumAt
  <2>3. CASE i >= 2 * N
    <3>1. i - 2 * N \in Pairs /\ ~(i < N) /\ ~(i < 2 * N) BY <2>3, Sizes DEF Pairs
    <3> QED BY <3>1 DEF CorrInv, CorrTypeOK, SumAt
  <2> QED BY <2>1, <2>2, <2>3, Sizes
<1>4. Unread \in Seq(SumFlit) /\ Len(Unread) = IF state = "COMPUTE" THEN 0 ELSE F - ReadPos
  <2>1. CASE state = "COMPUTE" BY <2>1 DEF Unread
  <2>2. CASE state # "COMPUTE"
    <3>1. F - ReadPos \in Nat BY <1>2, Sizes
    <3>2. ASSUME NEW j \in 1 .. F - ReadPos PROVE ReadPos + j - 1 \in 0 .. F - 1
      BY <3>1, <3>2, <1>2, Sizes
    <3>3. \A j \in 1 .. F - ReadPos :
             [last |-> ReadPos + j = F, val |-> SumAt(ReadPos + j - 1)] \in SumFlit
      BY <3>2, <1>3 DEF SumFlit
    <3> QED BY <3>1, <3>3, <2>2 DEF Unread
  <2> QED BY <2>1, <2>2
<1> QED BY <1>1, <1>2, <1>3, <1>4

(* Its elements: the sums from ReadPos on.                                 *)
LEMMA UnreadSums ==
    ASSUME CorrInv, state # "COMPUTE"
    PROVE  \A j \in 1 .. F - ReadPos, i \in 0 .. F - 1 :
              i = ReadPos + j - 1 => Unread[j] = [last |-> i + 1 = F, val |-> SumAt(i)]
<1> SUFFICES ASSUME NEW j \in 1 .. F - ReadPos, NEW i \in 0 .. F - 1, i = ReadPos + j - 1
             PROVE  Unread[j] = [last |-> i + 1 = F, val |-> SumAt(i)]
  OBVIOUS
<1>1. ReadPos \in 0 .. F - 1 /\ F \in Nat
  BY StreamTypes, Sizes
<1>2. ReadPos + j = i + 1
  BY <1>1
<1>3. Unread[j] = [last |-> ReadPos + j = F, val |-> SumAt(ReadPos + j - 1)]
  BY DEF Unread
<1> QED BY <1>2, <1>3

(* What both lemmas say of the next state. *)
LEMMA NextStreamTypes ==
    ASSUME CorrInv'
    PROVE  /\ dst' \in Seq(SumFlit) /\ Pending' \in Seq(SumFlit) /\ Unread' \in Seq(SumFlit)
           /\ ReadPos' \in 0 .. F - 1
           /\ \A i \in 0 .. F - 1 : SumAt(i)' \in Words
           /\ Len(Unread') = IF state' = "COMPUTE" THEN 0 ELSE F - ReadPos'
           /\ state' # "COMPUTE" =>
                \A j \in 1 .. F - ReadPos', i \in 0 .. F - 1 :
                   i = ReadPos' + j - 1
                     => Unread'[j] = [last |-> i + 1 = F, val |-> SumAt(i)']
<1>1. (CorrInv => /\ dst \in Seq(SumFlit) /\ Pending \in Seq(SumFlit)
                  /\ Unread \in Seq(SumFlit) /\ ReadPos \in 0 .. F - 1
                  /\ \A i \in 0 .. F - 1 : SumAt(i) \in Words
                  /\ Len(Unread) = IF state = "COMPUTE" THEN 0 ELSE F - ReadPos)'
  BY StreamTypes, PTL
<1>2. (CorrInv /\ state # "COMPUTE" =>
         \A j \in 1 .. F - ReadPos, i \in 0 .. F - 1 :
            i = ReadPos + j - 1 => Unread[j] = [last |-> i + 1 = F, val |-> SumAt(i)])'
  BY UnreadSums, PTL
<1> QED BY <1>1, <1>2 DEF SumFlit, F

LEMMA FlushSends ==
    ASSUME CorrInv, Flush
    PROVE  dst' = dst \o Pending
  BY StreamTypes, AppendIsConcat, ConcatEmptySeq DEF Flush, Pending

(* A step that writes out what is pending and reads no item and no sum,    *)
(* or reads the sum that follows, leaves what is owed as it is.            *)
LEMMA OwedUnchanged ==
    ASSUME CorrInv, Flush, CorrInv', Pending' \o Unread' = Unread
    PROVE  Uncollected' = Uncollected
<1>1. /\ dst \in Seq(SumFlit) /\ Pending \in Seq(SumFlit) /\ Unread \in Seq(SumFlit)
      /\ dst' \in Seq(SumFlit) /\ Pending' \in Seq(SumFlit) /\ Unread' \in Seq(SumFlit)
  BY StreamTypes, NextStreamTypes
<1>2. dst' \o Pending' \o Unread' = dst' \o (Pending' \o Unread')
  <2> DEFINE d == dst'
             p == Pending'
             u == Unread'
  <2>1. d \in Seq(SumFlit) /\ p \in Seq(SumFlit) /\ u \in Seq(SumFlit) BY <1>1
  <2> HIDE DEF d, p, u
  <2>2. (d \o p) \o u = d \o (p \o u) BY <2>1, ConcatAssociative
  <2> QED BY <2>2 DEF d, p, u
<1>3. dst' \o Pending' \o Unread' = dst' \o Unread
  BY <1>2
<1>4. dst' = dst \o Pending
  BY FlushSends
<1> QED BY <1>3, <1>4 DEF Uncollected

(* A read-out invocation makes the sum at ReadPos wait to be written.      *)
LEMMA ReadsOneSum ==
    ASSUME CorrInv, ReadoutS \/ ReadoutSQ \/ ReadoutP
    PROVE  /\ state # "COMPUTE" /\ write' = TRUE /\ top_result' = SumAt(ReadPos)
           /\ last' = (ReadPos + 1 = F)
           /\ state' = "COMPUTE" <=> ReadPos + 1 = F
           /\ state' # "COMPUTE" => ReadPos' = ReadPos + 1
           /\ \A i \in 0 .. F - 1 : i > ReadPos => SumAt(i)' = SumAt(i)
<1> USE DEF CorrInv
<1>1. CASE ReadoutS
  <2>1. /\ idx_s \in 0 .. N - 1 /\ idx_s \in Lanes /\ idx_sq = 0 /\ output_index = 0
        /\ last = FALSE
        /\ idx_s + 1 # N => idx_s' = idx_s + 1 /\ state' = "READOUT_S"
        /\ idx_s + 1 = N => idx_s' = 0 /\ state' = "READOUT_SQ"
    BY <1>1, AdvanceInRange, Sizes
    DEF ReadoutS, CorrTypeOK, Lanes, StateAfter, ReadoutInv, IndicesAtRest,
        LastMarksTheFinalSum
  <2>2. ReadPos = idx_s /\ ReadPos' = idx_s + 1 /\ SumAt(ReadPos) = sums_elements[idx_s]
    BY <1>1, <2>1, Sizes DEF ReadoutS, ReadPos, SumAt
  <2>3. idx_s + 1 # F
    BY <2>1, Sizes
  <2>4. ASSUME NEW i \in 0 .. F - 1, i > idx_s PROVE SumAt(i)' = SumAt(i)
    <3>1. CASE i < N
      BY <1>1, <2>1, <2>4, <3>1, Sizes
      DEF ReadoutS, ReadAccumulator, SumAt, CorrTypeOK, Lanes
    <3>2. CASE ~(i < N) BY <1>1, <3>2 DEF ReadoutS, SumAt
    <3> QED BY <3>1, <3>2
  <2> QED BY <1>1, <2>1, <2>2, <2>3, <2>4 DEF ReadoutS
<1>2. CASE ReadoutSQ
  <2>1. /\ idx_sq \in 0 .. N - 1 /\ idx_sq \in Lanes /\ output_index = 0 /\ last = FALSE
        /\ idx_sq + 1 # N => idx_sq' = idx_sq + 1 /\ state' = "READOUT_SQ"
        /\ idx_sq + 1 = N => idx_sq' = 0 /\ state' = "READOUT_P"
    BY <1>2, AdvanceInRange, Sizes
    DEF ReadoutSQ, CorrTypeOK, Lanes, StateAfter, ReadoutInv, IndicesAtRest,
        LastMarksTheFinalSum
  <2>2. ReadPos = N + idx_sq /\ ReadPos' = N + idx_sq + 1
    BY <1>2, <2>1, Sizes DEF ReadoutSQ, ReadPos
  <2>3. SumAt(ReadPos) = sums_squares[idx_sq]
    BY <2>1, <2>2, Sizes DEF SumAt
  <2>4. N + idx_sq + 1 # F
    BY <2>1, Sizes
  <2>5. ASSUME NEW i \in 0 .. F - 1, i > N + idx_sq PROVE SumAt(i)' = SumAt(i)
    <3>1. CASE i < 2 * N
      <4>1. ~(i < N) /\ i - N \in Lanes /\ i - N # idx_sq
        BY <2>1, <2>5, <3>1, Sizes DEF Lanes
      <4> QED BY <1>2, <2>1, <3>1, <4>1 DEF ReadoutSQ, ReadAccumulator, SumAt, CorrTypeOK
    <3>2. CASE ~(i < 2 * N) BY <1>2, <2>1, <2>5, <3>2, Sizes DEF ReadoutSQ, SumAt
    <3> QED BY <3>1, <3>2
  <2> QED BY <1>2, <2>1, <2>2, <2>3, <2>4, <2>5 DEF ReadoutSQ
<1>3. CASE ReadoutP
  <2>1. /\ output_index \in 0 .. P - 1 /\ output_index \in Pairs
        /\ last' = (output_index + 1 = P)
        /\ output_index + 1 # P => output_index' = output_index + 1 /\ state' = "READOUT_P"
        /\ output_index + 1 = P => output_index' = 0 /\ state' = "COMPUTE"
    BY <1>3, AdvanceInRange, Sizes DEF ReadoutP, CorrTypeOK, Pairs, FinalProduct
  <2>2. ReadPos = 2 * N + output_index
        /\ (output_index + 1 # P => ReadPos' = 2 * N + output_index + 1)
    BY <1>3, <2>1, Sizes DEF ReadoutP, ReadPos
  <2>3. SumAt(ReadPos) = sums_products[output_index]
    BY <2>1, <2>2, Sizes DEF SumAt
  <2>4. 2 * N + output_index + 1 = F <=> output_index + 1 = P
    BY <2>1, Sizes
  <2>5. ASSUME NEW i \in 0 .. F - 1, i > 2 * N + output_index PROVE SumAt(i)' = SumAt(i)
    <3>1. ~(i < N) /\ ~(i < 2 * N) /\ i - 2 * N \in Pairs /\ i - 2 * N # output_index
      BY <2>1, <2>5, Sizes DEF Pairs
    <3> QED BY <1>3, <2>1, <3>1 DEF ReadoutP, ReadAccumulator, SumAt, CorrTypeOK
  <2> QED BY <1>3, <2>1, <2>2, <2>3, <2>4, <2>5 DEF ReadoutP
<1> QED BY <1>1, <1>2, <1>3

LEMMA ReadoutCorrInv == ASSUME CorrInv, ReadoutS \/ ReadoutSQ \/ ReadoutP PROVE CorrInv'
  BY ReadoutSCorrInv, ReadoutSQCorrInv, ReadoutPCorrInv

(* A read-out invocation is a stuttering step of BatchSums.                *)
LEMMA ReadoutStep ==
    ASSUME CorrInv, ReadoutS \/ ReadoutSQ \/ ReadoutP
    PROVE  src' = src /\ OpenSums' = OpenSums /\ Uncollected' = Uncollected
<1>1. CorrInv' /\ Flush /\ src' = src
  BY ReadoutCorrInv DEF ReadoutS, ReadoutSQ, ReadoutP
<1>2. ReadPos \in 0 .. F - 1 /\ F \in Nat
  BY StreamTypes, Sizes
<1>3. OpenSums' = OpenSums
  <2>1. OpenSums = [i \in 0 .. F - 1 |-> 0]
    BY ReadsOneSum DEF OpenSums
  <2>2. CASE state' # "COMPUTE" BY <2>1, <2>2 DEF OpenSums
  <2>3. CASE state' = "COMPUTE"
    <3>1. ReadoutP /\ output_index + 1 = P /\ output_index \in Nat
      BY <2>3, Sizes DEF ReadoutS, ReadoutSQ, ReadoutP, StateAfter, FinalProduct, CorrInv,
                  CorrTypeOK, Pairs
    <3>2. \A i \in 0 .. F - 1 : SumAt(i)' = 0
      BY <3>1, ReadoutPZeroes, Sizes
    <3> QED BY <2>1, <2>3, <3>2 DEF OpenSums
  <2> QED BY <2>2, <2>3
<1>4. Pending' \o Unread' = Unread
  <2> DEFINE first == [last |-> ReadPos + 1 = F, val |-> SumAt(ReadPos)]
  <2>1. Pending' = << first >>
    BY ReadsOneSum DEF Pending
  <2>2. Unread = [j \in 1 .. F - ReadPos |->
                    [last |-> ReadPos + j = F, val |-> SumAt(ReadPos + j - 1)]]
    BY ReadsOneSum DEF Unread
  <2>3. first \in SumFlit
    BY <1>2, StreamTypes DEF SumFlit
  <2>4. Unread \in Seq(SumFlit) /\ Len(Unread) = F - ReadPos
    BY StreamTypes, ReadsOneSum
  <2>5. Unread' \in Seq(SumFlit) /\ Len(Unread') = F - ReadPos - 1
        /\ \A j \in 1 .. Len(Unread') : Unread'[j] = Unread[j + 1]
    <3>1. CASE state' = "COMPUTE"
      <4>1. Unread' = << >> /\ ReadPos + 1 = F BY <3>1, ReadsOneSum DEF Unread
      <4> QED BY <4>1, <1>2
    <3>2. CASE state' # "COMPUTE"
      <4>1. ReadPos' = ReadPos + 1 /\ Len(Unread') = F - ReadPos'
            /\ Unread' \in Seq(SumFlit)
        BY <1>1, <3>2, ReadsOneSum, NextStreamTypes
      <4>2. F - ReadPos' = F - ReadPos - 1 BY <1>2, <4>1
      <4>3. ASSUME NEW j \in 1 .. F - ReadPos' PROVE Unread'[j] = Unread[j + 1]
        <5>1. PICK i \in 0 .. F - 1 : i = ReadPos + j
          BY <1>2, <4>1
        <5>2. i = ReadPos' + j - 1 /\ i = ReadPos + (j + 1) - 1 /\ i > ReadPos
              /\ j + 1 \in 1 .. F - ReadPos
          BY <1>2, <4>1, <5>1
        <5>3. Unread'[j] = [last |-> i + 1 = F, val |-> SumAt(i)']
          BY <1>1, <3>2, <4>3, <5>2, NextStreamTypes
        <5>4. Unread[j + 1] = [last |-> i + 1 = F, val |-> SumAt(i)]
          BY <5>2, UnreadSums, ReadsOneSum
        <5>5. SumAt(i)' = SumAt(i)
          BY <5>2, ReadsOneSum
        <5> QED BY <5>3, <5>4, <5>5
      <4> QED BY <4>1, <4>2, <4>3
    <3> QED BY <3>1, <3>2
  <2>6. Unread[1] = first /\ F - ReadPos \in Nat \ {0}
    BY <1>2, <2>2
  <2>7. << first >> \o Unread' = Unread
    <3> DEFINE s == << first >>
               t == Unread'
               u == Unread
    <3>1. s \in Seq(SumFlit) /\ Len(s) = 1 /\ s[1] = first BY <2>3
    <3>2. t \in Seq(SumFlit) /\ Len(t) = F - ReadPos - 1
          /\ \A j \in 1 .. Len(t) : t[j] = u[j + 1]
      BY <2>5
    <3>3. u \in Seq(SumFlit) /\ Len(u) = F - ReadPos /\ u[1] = first BY <2>4, <2>6
    <3> HIDE DEF s, t, u, first
    <3>4. Len(s) + Len(t) = Len(u) BY <3>1, <3>2, <3>3, <2>6
    <3>5. s \o t \in Seq(SumFlit) /\ Len(s \o t) = Len(u)
          /\ \A k \in 1 .. Len(u) : (s \o t)[k] = IF k <= 1 THEN s[k] ELSE t[k - 1]
      <4>1. s \o t \in Seq(SumFlit) /\ Len(s \o t) = Len(s) + Len(t)
            /\ \A k \in 1 .. Len(s) + Len(t) :
                  (s \o t)[k] = IF k <= Len(s) THEN s[k] ELSE t[k - Len(s)]
        BY <3>1, <3>2, ConcatProperties
      <4> QED BY <4>1, <3>1, <3>4
    <3>6. ASSUME NEW k \in 1 .. Len(u) PROVE (s \o t)[k] = u[k]
      <4>1. CASE k = 1 BY <4>1, <3>1, <3>3, <3>5
      <4>2. CASE k # 1
        <5>1. k - 1 \in 1 .. Len(t) /\ (k - 1) + 1 = k /\ ~(k <= 1)
          BY <4>2, <3>2, <3>3, <2>6
        <5> QED BY <5>1, <3>2, <3>5
      <4> QED BY <4>1, <4>2
    <3>7. s \o t = u
      BY <3>3, <3>5, <3>6, SeqEqual
    <3> QED BY <3>7 DEF s, t, u
  <2> QED BY <2>1, <2>7
<1> QED BY <1>1, <1>3, <1>4, OwedUnchanged

(* The parameters of BatchSums are those of CORR.                          *)
LEMMA SameParameters ==
    /\ Sums!F = F
    /\ Sums!Pair = Pair
    /\ \A item, i : Sums!Square(item, i) = Square(item, i)
    /\ \A item, i : Sums!Product(item, i) = Product(item, i)
<1>1. Sums!F = F BY DEF Sums!F, F
<1>2. Sums!Pair = Pair
  BY Zenon DEF Sums!Pair, Pair, Sums!Pairs, Pairs, Sums!NextPair, NextPair
<1>3. \A item, i : Sums!Square(item, i) = Square(item, i)
  BY DEF Sums!Square, Square
<1>4. \A item, i : Sums!Product(item, i) = Product(item, i)
  BY <1>2 DEF Sums!Product, Product
<1> QED BY <1>1, <1>2, <1>3, <1>4

LEMMA ComputeIdleStep ==
    ASSUME CorrInv, ComputeIdle
    PROVE  src' = src /\ OpenSums' = OpenSums /\ Uncollected' = Uncollected
<1>1. CorrInv' /\ Flush /\ src' = src
  BY ComputeIdleCorrInv DEF ComputeIdle
<1>2. OpenSums' = OpenSums
  BY DEF ComputeIdle, OpenSums, SumAt
<1>3. Pending' \o Unread' = Unread
  BY DEF ComputeIdle, Pending, Unread
<1> QED BY <1>1, <1>2, <1>3, OwedUnchanged

(* An item is added to every sum.                                          *)
LEMMA ItemIsAdded ==
    ASSUME CorrInv, ComputeItem
    PROVE  \A i \in 0 .. F - 1 : SumAt(i)' = Sums!Added(OpenSums, Head(src).val)[i]
<1> SUFFICES ASSUME NEW i \in 0 .. F - 1
             PROVE  SumAt(i)' = Sums!Added(OpenSums, Head(src).val)[i]
  OBVIOUS
<1> DEFINE x == Head(src).val
<1>1. Sums!Added(OpenSums, x)[i] = (SumAt(i) + IF i < N THEN x[i]
                                    ELSE IF i < 2 * N THEN Square(x, i - N)
                                    ELSE Product(x, i - 2 * N)) % W
  <2>1. OpenSums[i] = SumAt(i)
    BY DEF ComputeItem, OpenSums
  <2> HIDE DEF x
  <2> QED BY <2>1, SameParameters DEF Sums!Added
<1>2. CASE i < N
  <2>1. i \in Lanes BY <1>2, Sizes DEF Lanes
  <2> QED BY <1>1, <1>2, <2>1 DEF SumAt, ComputeItem
<1>3. CASE i >= N /\ i < 2 * N
  <2>1. i - N \in Lanes /\ ~(i < N) BY <1>3, Sizes DEF Lanes
  <2> QED BY <1>1, <1>3, <2>1 DEF SumAt, ComputeItem
<1>4. CASE i >= 2 * N
  <2>1. i - 2 * N \in Pairs /\ ~(i < N) /\ ~(i < 2 * N) BY <1>4, Sizes DEF Pairs
  <2> QED BY <1>1, <2>1 DEF SumAt, ComputeItem
<1> QED BY <1>2, <1>3, <1>4, Sizes

(* An invocation with an item is BAdd, or BClose on the last flag.         *)
LEMMA ComputeItemStep ==
    ASSUME CorrInv, ComputeItem
    PROVE  /\ src # << >> /\ src' = Tail(src)
           /\ ~Head(src).last => /\ OpenSums' = Sums!Added(OpenSums, Head(src).val)
                                 /\ Uncollected' = Uncollected
           /\ Head(src).last =>
                /\ OpenSums' = Sums!NoSums
                /\ Uncollected' = Uncollected
                                  \o Sums!SumFlits(Sums!Added(OpenSums, Head(src).val))
<1> DEFINE x == Head(src).val
           sums == Sums!Added(OpenSums, x)
<1>1. CorrInv' /\ Flush /\ src # << >> /\ src' = Tail(src) /\ state = "COMPUTE"
      /\ write' = FALSE
  BY ComputeItemCorrInv DEF ComputeItem
<1>2. Pending' = << >> /\ Unread = << >>
  BY <1>1 DEF Pending, Unread
<1>3. CASE ~Head(src).last
  <2>1. state' = "COMPUTE" /\ Unread' = << >>
    BY <1>1, <1>3 DEF ComputeItem, Unread
  <2>2. Uncollected' = Uncollected
    BY <1>1, <1>2, <2>1, OwedUnchanged
  <2>3. OpenSums' = [i \in 0 .. F - 1 |-> sums[i]]
    BY <2>1, ItemIsAdded DEF OpenSums
  <2>4. sums = [i \in 0 .. F - 1 |-> sums[i]]
    BY SameParameters DEF Sums!Added
  <2> QED BY <1>1, <1>3, <2>2, <2>3, <2>4
<1>4. CASE Head(src).last
  <2>1. state' = "READOUT_S" /\ idx_s' = 0
    BY <1>1, <1>4 DEF ComputeItem, CorrInv, ReadoutInv, IndicesAtRest
  <2>2. OpenSums' = Sums!NoSums
    BY <2>1, SameParameters DEF OpenSums, Sums!NoSums
  <2>3. ReadPos' = 0
    BY <2>1 DEF ReadPos
  <2>4. Unread' = Sums!SumFlits(sums)
    <3>1. Unread' \in Seq(SumFlit) /\ Len(Unread') = F
          /\ \A j \in 1 .. F, i \in 0 .. F - 1 :
                i = 0 + j - 1 => Unread'[j] = [last |-> i + 1 = F, val |-> SumAt(i)']
      <4>1. F - 0 = F BY Sizes
      <4> QED BY <1>1, <2>1, <2>3, <4>1, NextStreamTypes
    <3>2. ASSUME NEW j \in 1 .. F
          PROVE  Unread'[j] = [last |-> j = F, val |-> sums[j - 1]]
      <4>1. PICK i \in 0 .. F - 1 : i = j - 1 BY Sizes
      <4>2. i = 0 + j - 1 /\ i + 1 = j BY <4>1
      <4>3. SumAt(i)' = sums[i] BY ItemIsAdded
      <4> HIDE DEF sums
      <4> QED BY <3>1, <4>1, <4>2, <4>3
    <3>3. Unread' = [j \in 1 .. F |-> Unread'[j]]
      BY <3>1, LenProperties
    <3> HIDE DEF sums
    <3> QED BY <3>2, <3>3, SameParameters DEF Sums!SumFlits
  <2>5. Uncollected' = Uncollected \o Unread'
    <3> DEFINE u == Unread'
    <3>1. dst \in Seq(SumFlit) /\ Pending \in Seq(SumFlit) /\ u \in Seq(SumFlit)
          /\ dst' = dst \o Pending
      BY <1>1, StreamTypes, NextStreamTypes, FlushSends
    <3>2. Uncollected' = dst' \o << >> \o u BY <1>2 DEF Uncollected
    <3>3. Uncollected = dst \o Pending \o << >> BY <1>2 DEF Uncollected
    <3> HIDE DEF u
    <3>4. dst \o Pending \in Seq(SumFlit) BY <3>1, ConcatProperties
    <3>5. dst \o Pending \o << >> = dst \o Pending BY <3>4, ConcatEmptySeq
    <3> QED BY <3>1, <3>2, <3>3, <3>5 DEF u
  <2> QED BY <1>1, <1>4, <2>2, <2>4, <2>5
<1> QED BY <1>3, <1>4

(* Collecting a sum takes the first of those that are owed.                *)
LEMMA CollectStep ==
    ASSUME CorrInv, dst # << >>, dst' = Tail(dst), UNCHANGED corrState
    PROVE  /\ OpenSums' = OpenSums
           /\ Uncollected # << >> /\ Uncollected' = Tail(Uncollected)
           /\ Head(Uncollected) = Head(dst)
<1> DEFINE rest == Pending \o Unread
<1>1. dst \in Seq(SumFlit) /\ Pending \in Seq(SumFlit) /\ Unread \in Seq(SumFlit)
      /\ rest \in Seq(SumFlit)
  BY StreamTypes, ConcatProperties
<1>2. OpenSums' = OpenSums /\ Pending' = Pending /\ Unread' = Unread
  BY DEF corrState, OpenSums, SumAt, Pending, Unread, ReadPos
<1>3. Tail(dst) \in Seq(SumFlit) /\ Head(dst) \in SumFlit
  BY <1>1
<1>4. Uncollected = dst \o rest /\ Uncollected' = Tail(dst) \o rest
  <2>1. \A d \in Seq(SumFlit) : d \o Pending \o Unread = d \o rest
    BY <1>1, ConcatAssociative
  <2>2. Uncollected = dst \o rest
    BY <1>1, <2>1 DEF Uncollected
  <2>3. Uncollected' = Tail(dst) \o Pending \o Unread
    BY <1>2 DEF Uncollected
  <2>4. Tail(dst) \o Pending \o Unread = Tail(dst) \o rest
    BY <1>3, <2>1
  <2> QED BY <2>2, <2>3, <2>4
<1> HIDE DEF rest
<1>5. /\ dst \o rest # << >>
      /\ Tail(dst \o rest) = Tail(dst) \o rest
      /\ Head(dst \o rest) = Head(dst)
  <2>1. dst = << Head(dst) >> \o Tail(dst) /\ << Head(dst) >> \in Seq(SumFlit)
    BY <1>1, <1>3
  <2>2. dst \o rest = << Head(dst) >> \o (Tail(dst) \o rest)
    BY <1>1, <1>3, <2>1, ConcatAssociative
  <2>3. Tail(dst) \o rest \in Seq(SumFlit)
    BY <1>1, <1>3, ConcatProperties
  <2> DEFINE h == Head(dst)
             t == Tail(dst) \o rest
  <2>4. h \in SumFlit /\ t \in Seq(SumFlit) /\ dst \o rest = << h >> \o t
    BY <1>3, <2>2, <2>3
  <2> HIDE DEF h, t
  <2>5. Head(<< h >> \o t) = h /\ Tail(<< h >> \o t) = t /\ << h >> \o t # << >>
    BY <2>4
  <2> QED BY <2>4, <2>5 DEF h, t
<1> QED BY <1>2, <1>4, <1>5

(* The neighbours' steps and stuttering, as far as they leave dst alone.   *)
LEMMA OwedFrame ==
    ASSUME UNCHANGED <<dst, corrState>>
    PROVE  OpenSums' = OpenSums /\ Uncollected' = Uncollected
  BY DEF corrState, OpenSums, SumAt, Uncollected, Pending, Unread, ReadPos

LEMMA UncollectedType == CorrInv => Uncollected \in Seq(SumFlit)
  BY StreamTypes, ConcatProperties DEF Uncollected

LEMMA InitImplementsBatchSums == Init => Sums!BInit
  BY SameParameters, Sizes
  DEF Init, CorrInit, Sums!BInit, Sums!NoSums, OpenSums, Uncollected, Pending, Unread, SumAt,
      Lanes, Pairs

LEMMA NextImplementsBatchSums == CorrInv /\ [Next]_vars => [Sums!BNext]_Sums!bvars
<1> SUFFICES ASSUME CorrInv, [Next]_vars PROVE [Sums!BNext]_Sums!bvars
  OBVIOUS
<1>1. CASE ComputeItem
  BY <1>1, ComputeItemStep DEF Sums!BNext, Sums!BAdd, Sums!BClose
<1>2. CASE ComputeIdle
  BY <1>2, ComputeIdleStep DEF Sums!bvars
<1>3. CASE ReadoutS \/ ReadoutSQ \/ ReadoutP
  BY <1>3, ReadoutStep DEF Sums!bvars
<1>4. CASE Collect
  BY <1>4, CollectStep DEF Collect, Sums!BNext, Sums!BCollect
<1>5. ASSUME NEW f \in InputFlit, Offer(f) PROVE Sums!BNext
  <2>1. UNCHANGED <<OpenSums, Uncollected>>
    BY <1>5, OwedFrame DEF Offer
  <2>2. src' = Append(src, f)
    BY <1>5 DEF Offer
  <2> QED BY <2>1, <2>2 DEF Sums!BNext, Sums!BOffer, InputFlit
<1>6. CASE UNCHANGED vars
  BY <1>6, OwedFrame DEF vars, Sums!bvars
<1> QED BY <1>1, <1>2, <1>3, <1>4, <1>5, <1>6 DEF Next, Accumulate

(* Each batch comes out of CORR once, whole, in order, and with the sums   *)
(* of exactly its own items.                                               *)
THEOREM CorrImplementsBatchSums == Spec => ImplementsBatchSums
  BY InitImplementsBatchSums, NextImplementsBatchSums, CorrInvariant, PTL
  DEF Spec, ImplementsBatchSums, Sums!BSpec
=============================================================================
