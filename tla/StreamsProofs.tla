---------------------------- MODULE StreamsProofs ----------------------------
(***************************************************************************)
(* The kernel of hls/function_method and the mergers of hls/axi_utils.hpp  *)
(* and hls/stream.hpp, and the shifters and width converters of            *)
(* hls/axi_utils.hpp, for any widths, batch sizes, stream depths and       *)
(* packages.                                                               *)
(***************************************************************************)
EXTENDS FunctionMethod, Mergers, Shifters, FiniteSetTheorems, SequenceTheorems,
        WellFoundedInduction, TLAPS

(* Items that cm_sum_products has taken.  Its counter of samples goes back *)
(* to 0 with the final item of the batch.                                  *)
TakenByProducts == IF state = "COMPUTE" THEN sampleCounter ELSE regSampleSize

(* No item is lost or doubled on the way from the source to the products,  *)
(* the streams hold what they have room for and the two processes on the   *)
(* way one item, and cm_sum_products, which takes items in COMPUTE only,   *)
(* leaves COMPUTE when it has taken a batch.                               *)
ItemsFlow ==
    /\ s_axis_data \in Seq(Nat) /\ lineData \in Seq(Nat) /\ data_1 \in Seq(Nat)
    /\ lineDataS \in Seq(Nat) /\ data_2 \in Seq(Nat)
    /\ Len(lineData) <= 1 /\ Len(data_1) <= DataDepth
    /\ Len(lineDataS) <= 1 /\ Len(data_2) <= Data2Depth
    /\ state \in {"COMPUTE", "WRITE", "REINIT"}
    /\ sampleCounter \in 0 .. regSampleSize - 1
    /\ Len(s_axis_data) + Len(lineData) + Len(data_1) + Len(lineDataS) + Len(data_2)
         + TakenByProducts = Items

LEMMA InitItemsFlow == FunctionInit => ItemsFlow
<1> USE FunctionAssumption
<1> SUFFICES ASSUME FunctionInit PROVE ItemsFlow
    OBVIOUS
<1>1. s_axis_data \in Seq(Nat) /\ Len(s_axis_data) = Items
    BY DEF FunctionInit
<1>2. << >> \in Seq(Nat) /\ Len(<< >>) = 0
    OBVIOUS
<1> QED BY <1>1, <1>2 DEF FunctionInit, ItemsFlow, TakenByProducts

(* One item goes from the head of a queue to the end of another: what      *)
(* reading an item and passing it on do to the places an item can be in.   *)
Moved(from, to) == from # << >> /\ from' = Tail(from) /\ to' = Append(to, Head(from))

LEMMA OnePassed ==
    ASSUME NEW from \in Seq(Nat), NEW to \in Seq(Nat), from # << >>
    PROVE  /\ Tail(from) \in Seq(Nat) /\ Len(Tail(from)) = Len(from) - 1
           /\ Append(to, Head(from)) \in Seq(Nat)
           /\ Len(Append(to, Head(from))) = Len(to) + 1
           /\ Len(from) \in Nat /\ Len(to) \in Nat
    OBVIOUS

(* The place of the item that is held is a queue of at most one.           *)
LEMMA ReadMoves ==
    ASSUME NEW line \in Seq(Nat), line = << >>, NEW item \in Nat
    PROVE  <<item>> = Append(line, item) /\ Len(line) = 0
    OBVIOUS

LEMMA PassMoves ==
    ASSUME NEW line \in Seq(Nat), line # << >>, Len(line) <= 1
    PROVE  << >> = Tail(line)
<1>1. Tail(line) \in Seq(Nat) /\ Len(Tail(line)) = 0
  <2>1. Tail(line) \in Seq(Nat) /\ Len(Tail(line)) = Len(line) - 1 /\ Len(line) \in Nat
      OBVIOUS
  <2> QED BY <2>1
<1>2. PICK t : t = Tail(line)
    OBVIOUS
<1>3. t = << >>
    BY ONLY <1>1, <1>2
<1> QED BY <1>2, <1>3

LEMMA SumMoves ==
    ASSUME ItemsFlow, CmSum
    PROVE  \/ /\ Moved(s_axis_data, lineData) /\ Len(lineData) = 0
              /\ Len(currentSum) < regSampleSize /\ UNCHANGED <<data_1, sums, currentSum>>
           \/ /\ Moved(lineData, data_1) /\ Len(data_1) < DataDepth /\ lineData' = << >>
              /\ currentSum' = Append(currentSum, Head(lineData))
              /\ UNCHANGED <<s_axis_data, sums>>
           \/ /\ WriteSum(currentSum, sums, SumLanes)
              /\ UNCHANGED <<s_axis_data, lineData, data_1>>
<1> USE DEF ItemsFlow
<1>1. CASE ReadLine(s_axis_data, lineData, currentSum) /\ UNCHANGED <<data_1, sums, currentSum>>
  <2>1. Head(s_axis_data) \in Nat BY <1>1 DEF ReadLine
  <2> QED BY <1>1, <2>1, ReadMoves DEF ReadLine, Moved
<1>2. CASE PassOn(lineData, data_1, DataDepth, currentSum) /\ UNCHANGED <<s_axis_data, sums>>
  BY <1>2, PassMoves DEF PassOn, Moved
<1> QED BY <1>1, <1>2 DEF CmSum

LEMMA SquaresMoves ==
    ASSUME ItemsFlow, CmSumSquares
    PROVE  \/ /\ Moved(data_1, lineDataS) /\ Len(lineDataS) = 0
              /\ Len(currentSumS) < regSampleSize /\ UNCHANGED <<data_2, sumsS, currentSumS>>
           \/ /\ Moved(lineDataS, data_2) /\ Len(data_2) < Data2Depth /\ lineDataS' = << >>
              /\ currentSumS' = Append(currentSumS, Head(lineDataS))
              /\ UNCHANGED <<data_1, sumsS>>
           \/ /\ WriteSum(currentSumS, sumsS, SquareLanes)
              /\ UNCHANGED <<data_1, lineDataS, data_2>>
<1> USE DEF ItemsFlow
<1>1. CASE ReadLine(data_1, lineDataS, currentSumS) /\ UNCHANGED <<data_2, sumsS, currentSumS>>
  <2>1. Head(data_1) \in Nat BY <1>1 DEF ReadLine
  <2> QED BY <1>1, <2>1, ReadMoves DEF ReadLine, Moved
<1>2. CASE PassOn(lineDataS, data_2, Data2Depth, currentSumS) /\ UNCHANGED <<data_1, sumsS>>
  BY <1>2, PassMoves DEF PassOn, Moved
<1> QED BY <1>1, <1>2 DEF CmSumSquares

(* Wherever an item moves, nothing is lost.                                *)
LEMMA FlowOfAMove ==
    ASSUME ItemsFlow, UNCHANGED <<sampleCounter, state>>,
           \/ /\ Moved(s_axis_data, lineData) /\ Len(lineData) = 0
              /\ UNCHANGED <<data_1, lineDataS, data_2>>
           \/ /\ Moved(lineData, data_1) /\ Len(data_1) < DataDepth
              /\ UNCHANGED <<s_axis_data, lineDataS, data_2>>
           \/ /\ Moved(data_1, lineDataS) /\ Len(lineDataS) = 0
              /\ UNCHANGED <<s_axis_data, lineData, data_2>>
           \/ /\ Moved(lineDataS, data_2) /\ Len(data_2) < Data2Depth
              /\ UNCHANGED <<s_axis_data, lineData, data_1>>
           \/ UNCHANGED <<s_axis_data, lineData, data_1, lineDataS, data_2>>
    PROVE  ItemsFlow'
<1> USE FunctionAssumption
<1>1. TakenByProducts' = TakenByProducts /\ TakenByProducts \in Int
    BY DEF ItemsFlow, TakenByProducts
<1>2. /\ Len(s_axis_data) \in Nat /\ Len(lineData) \in Nat /\ Len(data_1) \in Nat
      /\ Len(lineDataS) \in Nat /\ Len(data_2) \in Nat
    BY DEF ItemsFlow
<1> DEFINE s == Len(s_axis_data)
           l == Len(lineData)
           d == Len(data_1)
           m == Len(lineDataS)
           e == Len(data_2)
<1>3. PICK t \in Int : t = TakenByProducts
    BY <1>1
<1>4. s + l + d + m + e + t = Items /\ l <= 1 /\ d <= DataDepth /\ m <= 1 /\ e <= Data2Depth
    BY <1>3 DEF ItemsFlow
<1>5. ASSUME Len(s_axis_data') + Len(lineData') + Len(data_1') + Len(lineDataS') + Len(data_2')
               = s + l + d + m + e,
             Len(lineData') <= 1, Len(data_1') <= DataDepth,
             Len(lineDataS') <= 1, Len(data_2') <= Data2Depth,
             s_axis_data' \in Seq(Nat), lineData' \in Seq(Nat), data_1' \in Seq(Nat),
             lineDataS' \in Seq(Nat), data_2' \in Seq(Nat)
      PROVE  ItemsFlow'
  <2>1. Len(s_axis_data') + Len(lineData') + Len(data_1') + Len(lineDataS') + Len(data_2') + t
          = Items
      BY <1>4, <1>5
  <2> QED BY <1>1, <1>3, <1>5, <2>1 DEF ItemsFlow
<1>11. {s, l, d, m, e} \subseteq Nat
    BY <1>2
<1>6. CASE /\ Moved(s_axis_data, lineData) /\ Len(lineData) = 0
           /\ UNCHANGED <<data_1, lineDataS, data_2>>
  <2>1. s_axis_data \in Seq(Nat) /\ lineData \in Seq(Nat) /\ s_axis_data # << >>
      BY <1>6 DEF Moved, ItemsFlow
  <2>2. /\ s_axis_data' \in Seq(Nat) /\ Len(s_axis_data') = s - 1
        /\ lineData' \in Seq(Nat) /\ Len(lineData') = l + 1
      BY <1>6, <2>1, OnePassed DEF Moved
  <2>3. /\ data_1' \in Seq(Nat) /\ lineDataS' \in Seq(Nat) /\ data_2' \in Seq(Nat)
        /\ Len(data_1') = d /\ Len(lineDataS') = m /\ Len(data_2') = e
      BY <1>6 DEF ItemsFlow
  <2>4. /\ Len(s_axis_data') + Len(lineData') + Len(data_1') + Len(lineDataS') + Len(data_2')
             = s + l + d + m + e
        /\ Len(lineData') <= 1 /\ Len(data_1') <= DataDepth
        /\ Len(lineDataS') <= 1 /\ Len(data_2') <= Data2Depth
    <3>1. l = 0
        BY <1>6
    <3>2. DataDepth \in Nat /\ Data2Depth \in Nat
        BY FunctionAssumption
    <3>3. /\ Len(s_axis_data') = s - 1 /\ Len(lineData') = l + 1 /\ Len(data_1') = d
          /\ Len(lineDataS') = m /\ Len(data_2') = e
        BY <2>2, <2>3
    <3> HIDE DEF s, l, d, m, e
    <3>4. /\ Len(lineData') <= 1 /\ Len(data_1') <= DataDepth
          /\ Len(lineDataS') <= 1 /\ Len(data_2') <= Data2Depth
        BY ONLY <1>11, <1>4, <3>1, <3>2, <3>3
    <3>5. Len(s_axis_data') + Len(lineData') + Len(data_1') + Len(lineDataS') + Len(data_2')
             = s + l + d + m + e
        BY ONLY <1>11, <3>3
    <3> QED BY ONLY <3>4, <3>5
  <2> QED BY <1>5, <2>2, <2>3, <2>4
<1>7. CASE /\ Moved(lineData, data_1) /\ Len(data_1) < DataDepth
           /\ UNCHANGED <<s_axis_data, lineDataS, data_2>>
  <2>1. lineData \in Seq(Nat) /\ data_1 \in Seq(Nat) /\ lineData # << >>
      BY <1>7 DEF Moved, ItemsFlow
  <2>2. /\ lineData' \in Seq(Nat) /\ Len(lineData') = l - 1
        /\ data_1' \in Seq(Nat) /\ Len(data_1') = d + 1
      BY <1>7, <2>1, OnePassed DEF Moved
  <2>3. /\ s_axis_data' \in Seq(Nat) /\ lineDataS' \in Seq(Nat) /\ data_2' \in Seq(Nat)
        /\ Len(s_axis_data') = s /\ Len(lineDataS') = m /\ Len(data_2') = e
      BY <1>7 DEF ItemsFlow
  <2>4. /\ Len(s_axis_data') + Len(lineData') + Len(data_1') + Len(lineDataS') + Len(data_2')
             = s + l + d + m + e
        /\ Len(lineData') <= 1 /\ Len(data_1') <= DataDepth
        /\ Len(lineDataS') <= 1 /\ Len(data_2') <= Data2Depth
    <3>1. d < DataDepth
        BY <1>7
    <3>2. DataDepth \in Nat /\ Data2Depth \in Nat
        BY FunctionAssumption
    <3>3. /\ Len(s_axis_data') = s /\ Len(lineData') = l - 1 /\ Len(data_1') = d + 1
          /\ Len(lineDataS') = m /\ Len(data_2') = e
        BY <2>2, <2>3
    <3> HIDE DEF s, l, d, m, e
    <3>4. /\ Len(lineData') <= 1 /\ Len(data_1') <= DataDepth
          /\ Len(lineDataS') <= 1 /\ Len(data_2') <= Data2Depth
        BY ONLY <1>11, <1>4, <3>1, <3>2, <3>3
    <3>5. Len(s_axis_data') + Len(lineData') + Len(data_1') + Len(lineDataS') + Len(data_2')
             = s + l + d + m + e
        BY ONLY <1>11, <3>3
    <3> QED BY ONLY <3>4, <3>5
  <2> QED BY <1>5, <2>2, <2>3, <2>4
<1>8. CASE /\ Moved(data_1, lineDataS) /\ Len(lineDataS) = 0
           /\ UNCHANGED <<s_axis_data, lineData, data_2>>
  <2>1. data_1 \in Seq(Nat) /\ lineDataS \in Seq(Nat) /\ data_1 # << >>
      BY <1>8 DEF Moved, ItemsFlow
  <2>2. /\ data_1' \in Seq(Nat) /\ Len(data_1') = d - 1
        /\ lineDataS' \in Seq(Nat) /\ Len(lineDataS') = m + 1
      BY <1>8, <2>1, OnePassed DEF Moved
  <2>3. /\ s_axis_data' \in Seq(Nat) /\ lineData' \in Seq(Nat) /\ data_2' \in Seq(Nat)
        /\ Len(s_axis_data') = s /\ Len(lineData') = l /\ Len(data_2') = e
      BY <1>8 DEF ItemsFlow
  <2>4. /\ Len(s_axis_data') + Len(lineData') + Len(data_1') + Len(lineDataS') + Len(data_2')
             = s + l + d + m + e
        /\ Len(lineData') <= 1 /\ Len(data_1') <= DataDepth
        /\ Len(lineDataS') <= 1 /\ Len(data_2') <= Data2Depth
    <3>1. m = 0
        BY <1>8
    <3>2. DataDepth \in Nat /\ Data2Depth \in Nat
        BY FunctionAssumption
    <3>3. /\ Len(s_axis_data') = s /\ Len(lineData') = l /\ Len(data_1') = d - 1
          /\ Len(lineDataS') = m + 1 /\ Len(data_2') = e
        BY <2>2, <2>3
    <3> HIDE DEF s, l, d, m, e
    <3>4. /\ Len(lineData') <= 1 /\ Len(data_1') <= DataDepth
          /\ Len(lineDataS') <= 1 /\ Len(data_2') <= Data2Depth
        BY ONLY <1>11, <1>4, <3>1, <3>2, <3>3
    <3>5. Len(s_axis_data') + Len(lineData') + Len(data_1') + Len(lineDataS') + Len(data_2')
             = s + l + d + m + e
        BY ONLY <1>11, <3>3
    <3> QED BY ONLY <3>4, <3>5
  <2> QED BY <1>5, <2>2, <2>3, <2>4
<1>9. CASE /\ Moved(lineDataS, data_2) /\ Len(data_2) < Data2Depth
           /\ UNCHANGED <<s_axis_data, lineData, data_1>>
  <2>1. lineDataS \in Seq(Nat) /\ data_2 \in Seq(Nat) /\ lineDataS # << >>
      BY <1>9 DEF Moved, ItemsFlow
  <2>2. /\ lineDataS' \in Seq(Nat) /\ Len(lineDataS') = m - 1
        /\ data_2' \in Seq(Nat) /\ Len(data_2') = e + 1
      BY <1>9, <2>1, OnePassed DEF Moved
  <2>3. /\ s_axis_data' \in Seq(Nat) /\ lineData' \in Seq(Nat) /\ data_1' \in Seq(Nat)
        /\ Len(s_axis_data') = s /\ Len(lineData') = l /\ Len(data_1') = d
      BY <1>9 DEF ItemsFlow
  <2>4. /\ Len(s_axis_data') + Len(lineData') + Len(data_1') + Len(lineDataS') + Len(data_2')
             = s + l + d + m + e
        /\ Len(lineData') <= 1 /\ Len(data_1') <= DataDepth
        /\ Len(lineDataS') <= 1 /\ Len(data_2') <= Data2Depth
    <3>1. e < Data2Depth
        BY <1>9
    <3>2. DataDepth \in Nat /\ Data2Depth \in Nat
        BY FunctionAssumption
    <3>3. /\ Len(s_axis_data') = s /\ Len(lineData') = l /\ Len(data_1') = d
          /\ Len(lineDataS') = m - 1 /\ Len(data_2') = e + 1
        BY <2>2, <2>3
    <3> HIDE DEF s, l, d, m, e
    <3>4. /\ Len(lineData') <= 1 /\ Len(data_1') <= DataDepth
          /\ Len(lineDataS') <= 1 /\ Len(data_2') <= Data2Depth
        BY ONLY <1>11, <1>4, <3>1, <3>2, <3>3
    <3>5. Len(s_axis_data') + Len(lineData') + Len(data_1') + Len(lineDataS') + Len(data_2')
             = s + l + d + m + e
        BY ONLY <1>11, <3>3
    <3> QED BY ONLY <3>4, <3>5
  <2> QED BY <1>5, <2>2, <2>3, <2>4
<1>10. CASE UNCHANGED <<s_axis_data, lineData, data_1, lineDataS, data_2>>
    BY <1>10 DEF ItemsFlow, TakenByProducts
<1> QED BY <1>6, <1>7, <1>8, <1>9, <1>10

LEMMA StepItemsFlow == ItemsFlow /\ [FunctionNext]_functionVars => ItemsFlow'
<1> USE FunctionAssumption
<1> SUFFICES ASSUME ItemsFlow, [FunctionNext]_functionVars PROVE ItemsFlow'
    OBVIOUS
<1>1. CASE CmSum
  <2>1. UNCHANGED <<lineDataS, data_2, sampleCounter, state>>
      BY <1>1 DEF CmSum
  <2> QED BY <1>1, <2>1, SumMoves, FlowOfAMove
<1>2. CASE CmSumSquares
  <2>1. UNCHANGED <<s_axis_data, lineData, sampleCounter, state>>
      BY <1>2 DEF CmSumSquares
  <2> QED BY <1>2, <2>1, SquaresMoves, FlowOfAMove
<1>3. CASE CmSumProducts
  <2>0. UNCHANGED <<s_axis_data, lineData, data_1, lineDataS>>
      BY <1>3 DEF CmSumProducts
  <2>1. CASE ComputeProducts
    <3>1. /\ Tail(data_2) \in Seq(Nat) /\ Len(Tail(data_2)) = Len(data_2) - 1
          /\ data_2' = Tail(data_2)
        BY <2>1, OnePassed DEF ComputeProducts, ItemsFlow
    <3>3. TakenByProducts' = TakenByProducts + 1 /\ sampleCounter' \in 0 .. regSampleSize - 1
          /\ state' \in {"COMPUTE", "WRITE", "REINIT"}
      <4>1. sampleCounter \in 0 .. regSampleSize - 1 /\ regSampleSize \in Nat \ {0}
          BY DEF ItemsFlow
      <4>2. state = "COMPUTE" /\ TakenByProducts = sampleCounter
          BY <2>1 DEF ComputeProducts, TakenByProducts
      <4>3. CASE sampleCounter + 1 = regSampleSize
        <5>1. sampleCounter' = 0 /\ state' = "WRITE"
            BY <2>1, <4>3 DEF ComputeProducts
        <5>2. TakenByProducts' = regSampleSize
            BY <5>1 DEF TakenByProducts
        <5> QED BY <4>1, <4>2, <4>3, <5>1, <5>2
      <4>4. CASE sampleCounter + 1 # regSampleSize
        <5>1. sampleCounter' = sampleCounter + 1 /\ state' = "COMPUTE"
            BY <2>1, <4>4 DEF ComputeProducts
        <5>2. TakenByProducts' = sampleCounter + 1
            BY <5>1 DEF TakenByProducts
        <5> QED BY <4>1, <4>2, <4>4, <5>1, <5>2
      <4> QED BY <4>3, <4>4
    <3>4. TakenByProducts \in Int
        BY DEF ItemsFlow, TakenByProducts
    <3>5. Len(s_axis_data') + Len(lineData') + Len(data_1') + Len(lineDataS') + Len(data_2')
            + TakenByProducts' = Items
      <4>1. /\ Len(s_axis_data') = Len(s_axis_data) /\ Len(lineData') = Len(lineData)
            /\ Len(data_1') = Len(data_1) /\ Len(lineDataS') = Len(lineDataS)
            /\ Len(data_2') = Len(data_2) - 1
          BY <2>0, <3>1
      <4>2. /\ {Len(s_axis_data), Len(lineData), Len(data_1), Len(lineDataS), Len(data_2),
                TakenByProducts} \subseteq Int
            /\ Len(s_axis_data) + Len(lineData) + Len(data_1) + Len(lineDataS) + Len(data_2)
                 + TakenByProducts = Items
          BY <3>4 DEF ItemsFlow
      <4>3. TakenByProducts' = TakenByProducts + 1
          BY <3>3
      <4> QED BY ONLY <4>1, <4>2, <4>3
    <3>6. Len(data_2') <= Data2Depth
        BY <3>1 DEF ItemsFlow
    <3>7. data_2' \in Seq(Nat)
        BY <3>1
    <3> QED BY <2>0, <3>3, <3>5, <3>6, <3>7 DEF ItemsFlow
  <2>2. CASE WriteProducts
    <3>1. UNCHANGED <<data_2, sampleCounter>>
        BY <2>2 DEF WriteProducts
    <3>2. state = "WRITE" /\ state' \in {"WRITE", "REINIT"}
        BY <2>2 DEF WriteProducts, AfterWrite
    <3> QED BY <2>0, <3>1, <3>2 DEF ItemsFlow, TakenByProducts
  <2> QED BY <1>3, <2>1, <2>2 DEF CmSumProducts
<1>4. CASE CmWriteSums \/ UNCHANGED functionVars
    BY <1>4 DEF CmWriteSums, functionVars, ItemsFlow, TakenByProducts
<1> QED BY <1>1, <1>2, <1>3, <1>4 DEF FunctionNext

(* REINIT is left by nothing: the function-style kernel never takes more   *)
(* than a batch, what its streams hold and the item each process waits to  *)
(* pass on, for any width, batch or depth.                                 *)
THEOREM OneBatchTaken == FunctionSpec => []TakesOneBatch
<1>1. ItemsFlow => TakesOneBatch
  <2> SUFFICES ASSUME ItemsFlow PROVE TakesOneBatch
      OBVIOUS
  <2>1. TakenByProducts \in Int /\ TakenByProducts <= regSampleSize
      BY FunctionAssumption DEF ItemsFlow, TakenByProducts
  <2> DEFINE s == Len(s_axis_data)
             l == Len(lineData)
             d == Len(data_1)
             m == Len(lineDataS)
             e == Len(data_2)
             t == TakenByProducts
  <2>2. Items - s = Items - Len(s_axis_data)
      OBVIOUS
  <2>3. {s, l, d, m, e} \subseteq Nat /\ t \in Int /\ t <= regSampleSize
    <3>1. s \in Nat /\ l \in Nat /\ d \in Nat /\ m \in Nat /\ e \in Nat
        BY DEF ItemsFlow
    <3> QED BY <2>1, <3>1
  <2>4. s + l + d + m + e + t = Items /\ l <= 1 /\ d <= DataDepth /\ m <= 1 /\ e <= Data2Depth
      BY DEF ItemsFlow
  <2>5. {regSampleSize, DataDepth, Data2Depth} \subseteq Nat
      BY FunctionAssumption
  <2> HIDE DEF s, l, d, m, e, t
  <2>6. Items - s <= regSampleSize + DataDepth + Data2Depth + 2
      BY ONLY <2>3, <2>4, <2>5
  <2> QED BY <2>2, <2>6 DEF TakesOneBatch
<1> QED BY <1>1, InitItemsFlow, StepItemsFlow, PTL DEF FunctionSpec
-----------------------------------------------------------------------------
(* What is in a stream, whatever it is, is a sequence.                     *)
IsAStream(s) == s \in Seq(Range(s))

LEMMA SequenceIsAStream ==
    ASSUME NEW S, NEW t \in Seq(S) PROVE IsAStream(t)
<1>1. t \in [1 .. Len(t) -> S] /\ Len(t) \in Nat
    BY LenProperties
<1>2. t \in [1 .. Len(t) -> Range(t)]
    BY <1>1 DEF Range
<1>3. t \in UNION {[1 .. n -> Range(t)] : n \in Nat}
    BY <1>1, <1>2
<1> QED BY <1>3, SeqDef DEF IsAStream

LEMMA StreamStep ==
    ASSUME NEW s, IsAStream(s)
    PROVE  /\ \A x : IsAStream(Append(s, x))
           /\ s # << >> => IsAStream(Tail(s)) /\ Len(Tail(s)) < Len(s)
<1>1. ASSUME NEW x PROVE IsAStream(Append(s, x))
  <2>1. s \in Seq(Range(s) \cup {x})
      BY SeqMonotonic DEF IsAStream
  <2>2. Append(s, x) \in Seq(Range(s) \cup {x})
      BY <2>1, AppendProperties
  <2> QED BY <2>2, SequenceIsAStream
<1>2. ASSUME s # << >> PROVE IsAStream(Tail(s)) /\ Len(Tail(s)) < Len(s)
  <2>1. Tail(s) \in Seq(Range(s)) /\ Len(Tail(s)) = Len(s) - 1 /\ Len(s) \in Nat
    <3>1. s \in Seq(Range(s))
        BY DEF IsAStream
    <3> QED BY <1>2, <3>1
  <2>2. IsAStream(Tail(s))
      BY <2>1, SequenceIsAStream
  <2> QED BY <2>1, <2>2
<1> QED BY <1>1, <1>2

(* fair_merger takes from the input it prefers, unless that has no word.   *)
(* So an input that was passed by is the preferred one, and has a word.    *)
Preferred == IF merge_pref THEN 0 ELSE 1
PassedByIsPreferred ==
    /\ merge_pref \in BOOLEAN /\ passedBy \subseteq {Preferred}
    /\ \A i \in passedBy : inputs[i] # << >>
InputsAreStreams == DOMAIN inputs = {0, 1} /\ \A i \in {0, 1} : IsAStream(inputs[i])
FairInv ==
    merging \in MergerKinds /\ InputsAreStreams /\ (merging = "fair_merger" => PassedByIsPreferred)

LEMMA InitFairInv == MergeInit => FairInv
<1>1. IsAStream(<< >>)
    BY SequenceIsAStream, EmptySeq
<1> QED BY <1>1, MergerAssumption DEF MergeInit, FairInv, InputsAreStreams, PassedByIsPreferred, Preferred

(* The splitter only adds words.                                           *)
LEMMA SplitKeepsFairInv == FairInv /\ Split => FairInv'
<1> SUFFICES ASSUME FairInv, Split PROVE FairInv'
    OBVIOUS
<1>1. UNCHANGED <<merging, merge_pref, passedBy>>
    BY DEF Split
<1>2. ASSUME \A i \in {0, 1} : \/ inputs'[i] = inputs[i]
                               \/ inputs'[i] = Append(inputs[i], Head(source)),
             DOMAIN inputs' = {0, 1}
      PROVE  FairInv'
  <2>1. InputsAreStreams'
      BY <1>2, StreamStep DEF FairInv, InputsAreStreams
  <2>2. \A i \in {0, 1} : inputs[i] # << >> => inputs'[i] # << >>
    <3> SUFFICES ASSUME NEW i \in {0, 1}, inputs[i] # << >> PROVE inputs'[i] # << >>
        OBVIOUS
    <3>1. Append(inputs[i], Head(source)) # << >>
        BY DEF FairInv, InputsAreStreams, IsAStream
    <3> QED BY <1>2, <3>1
  <2>3. merging = "fair_merger" => PassedByIsPreferred'
      BY <1>1, <2>2 DEF FairInv, PassedByIsPreferred, Preferred
  <2> QED BY <1>1, <2>1, <2>3 DEF FairInv
<1>3. ASSUME NEW i, Deliver(i) PROVE FairInv'
    BY <1>2, <1>3 DEF Deliver, FairInv, InputsAreStreams
<1>4. CASE SplitToAll
    BY <1>2, <1>4 DEF SplitToAll
<1>5. CASE UNCHANGED inputs
    BY <1>2, <1>5 DEF FairInv, InputsAreStreams
<1> QED BY <1>3, <1>4, <1>5 DEF Split, SplitPackages

(* A merger takes at most one word from each input.                        *)
LEMMA MergeKeepsStreams == FairInv /\ Merge => InputsAreStreams'
<1> USE DEF FairInv
<1> SUFFICES ASSUME FairInv, Merge PROVE InputsAreStreams'
    OBVIOUS
<1>1. ASSUME NEW i, Take(i) PROVE InputsAreStreams'
    BY <1>1, StreamStep DEF Take, Ready, InputsAreStreams
<1>2. CASE StreamFold
    BY <1>2, StreamStep DEF StreamFold, AllReady, Ready, InputsAreStreams
<1>3. CASE Waits
    BY <1>3 DEF Waits, InputsAreStreams
<1>4. ASSUME NEW packages, ByOrigin(packages) PROVE InputsAreStreams'
    BY <1>1, <1>3, <1>4 DEF ByOrigin
<1>5. ASSUME NEW packages, RoundRobin(packages) PROVE InputsAreStreams'
    BY <1>1, <1>5 DEF RoundRobin
<1>6. CASE StreamMerger \/ FairMerger
    BY <1>1, <1>6 DEF StreamMerger, FairMerger
<1>7. CASE FairPkgMerger
    BY <1>1, <1>7 DEF FairPkgMerger
<1> QED
    BY <1>2, <1>4, <1>5, <1>6, <1>7
       DEF Merge, StreamMergerOrigin, StreamPkgMerger, Concatenator, Interleaver, MergerKinds

LEMMA StepFairInv == FairInv /\ [MergeNext]_mergeVars => FairInv'
<1> SUFFICES ASSUME FairInv, [MergeNext]_mergeVars PROVE FairInv'
    OBVIOUS
<1>1. CASE Merge
  <2>1. InputsAreStreams' /\ UNCHANGED merging
      BY <1>1, MergeKeepsStreams DEF Merge
  <2>2. ASSUME merging = "fair_merger" PROVE PassedByIsPreferred'
    <3>1. FairMerger
        BY <1>1, <2>2 DEF Merge
    <3>2. PassedByIsPreferred
        BY <2>2 DEF FairInv
    <3>3. CASE Take(Preferred) /\ merge_pref' = ~merge_pref
      <4>1. Preferred \in {0, 1} /\ Preferred' = 1 - Preferred
        <5>1. merge_pref \in BOOLEAN /\ (merge_pref' <=> ~merge_pref)
            BY <3>2, <3>3, Zenon DEF PassedByIsPreferred
        <5> QED BY <5>1 DEF Preferred
      <4>2. passedBy' \subseteq {1 - Preferred}
          BY <3>2, <3>3 DEF Take, PassedByIsPreferred
      <4>3. 1 - Preferred \in passedBy' => inputs'[1 - Preferred] # << >>
          BY <3>2, <3>3, <4>1 DEF Take, Ready, PassedByIsPreferred, FairInv, InputsAreStreams
      <4> QED BY <3>2, <3>3, <4>1, <4>2, <4>3 DEF PassedByIsPreferred
    <3>4. CASE ~Ready(Preferred) /\ Take(1 - Preferred) /\ UNCHANGED merge_pref
      <4>1. passedBy = {}
          BY <3>2, <3>4 DEF PassedByIsPreferred, Ready
      <4>2. passedBy' = {}
        <5>1. Preferred \in {0, 1} /\ 1 - (1 - Preferred) = Preferred
            BY DEF Preferred
        <5>2. passedBy' = (passedBy \ {1 - Preferred}) \cup {j \in {Preferred} : Ready(j)}
            BY <3>4, <5>1 DEF Take
        <5> QED BY <3>4, <4>1, <5>2
      <4> QED BY <3>2, <3>4, <4>2 DEF PassedByIsPreferred
    <3> QED BY <3>1, <3>3, <3>4 DEF FairMerger, NextPreference, Preferred
  <2> QED BY <2>1, <2>2 DEF FairInv
<1>2. CASE UNCHANGED mergeVars
    BY <1>2 DEF mergeVars, FairInv, InputsAreStreams, PassedByIsPreferred, Preferred
<1> QED BY <1>1, <1>2, SplitKeepsFairInv DEF MergeNext

(* Whatever the packages and however the inputs fill, fair_merger passes   *)
(* nobody by twice.                                                        *)
THEOREM FairMergerIsFair == MergeSpec => NobodyIsPassedByTwice
<1> DEFINE Served == merging = "fair_merger" /\ merged' # merged
                        => \A i \in passedBy : Len(inputs'[i]) < Len(inputs[i])
<1>1. FairInv /\ [MergeNext]_mergeVars => [Served]_mergeVars
  <2> SUFFICES ASSUME FairInv, MergeNext, merging = "fair_merger", merged' # merged,
                      NEW i \in passedBy
               PROVE  Len(inputs'[i]) < Len(inputs[i])
      BY DEF mergeVars
  <2>1. FairMerger
      BY DEF MergeNext, Split, Merge
  <2>2. i = Preferred /\ inputs[i] # << >> /\ i \in {0, 1} /\ merge_pref \in BOOLEAN
      BY DEF FairInv, PassedByIsPreferred, Preferred
  <2>3. Take(i)
      BY <2>1, <2>2 DEF FairMerger, Ready, Preferred
  <2> QED BY <2>2, <2>3, StreamStep DEF Take, FairInv, InputsAreStreams
<1> QED
    BY <1>1, InitFairInv, StepFairInv, PTL DEF MergeSpec, NobodyIsPassedByTwice
-----------------------------------------------------------------------------
(* Quotient and remainder are those of any way to write a number so.       *)
LEMMA PlaceOf ==
    ASSUME NEW n \in Nat \ {0}, NEW q \in Nat, NEW r \in 0 .. n - 1
    PROVE  (q * n + r) \div n = q /\ (q * n + r) % n = r
<1> DEFINE a == q * n + r
           d == a \div n
           m == a % n
<1>1. a \in Nat /\ q * n \in Nat /\ d \in Int /\ m \in 0 .. n - 1 /\ a = n * d + m
  BY Z3
<1>2. n * (q - d) = m - r /\ q - d \in Int
  BY <1>1
<1> HIDE DEF a, d, m
<1>3. q - d = 0
  <2> PICK e \in Int : e = q - d BY <1>2
  <2>1. n * e = m - r /\ m - r < n /\ m - r > -n BY <1>1, <1>2
  <2>2. e >= 1 => n * e >= n
    <3>1. ASSUME e >= 1 PROVE n * e >= n
      <4>1. n * (e - 1) >= 0 /\ n * (e - 1) = n * e - n BY <3>1
      <4> QED BY <4>1
    <3> QED BY <3>1
  <2>3. e <= -1 => n * e <= -n
    <3>1. ASSUME e <= -1 PROVE n * e <= -n
      <4>1. n * ((-1) - e) >= 0 /\ n * ((-1) - e) = (-n) - n * e BY <3>1
      <4> QED BY <4>1
    <3> QED BY <3>1
  <2> QED BY <2>1, <2>2, <2>3
<1>4. d = q /\ m = r
  BY <1>1, <1>2, <1>3
<1> QED BY <1>4 DEF a, d, m

(* The products fill N \div 2 lines, the last of them half.                *)
HalfN == N \div 2

LEMMA LineSizes ==
    /\ N \in Nat \ {0} /\ HalfN \in Nat \ {0} /\ N = 2 * HalfN
    /\ noProd = (HalfN - 1) * N + HalfN /\ M = HalfN
    /\ (noProd + N - 1) \div N = HalfN /\ Words = 0 .. N - 1
<1>1. PICK h \in Nat \ {0} : N = 2 * h /\ HalfN = h
  BY FunctionAssumption DEF HalfN
<1>2. noProd = (h - 1) * N + h
  <2>1. N * (N - 1) = 2 * (h * (N - 1)) BY <1>1
  <2>2. h * (N - 1) = (h - 1) * N + h BY <1>1
  <2>3. PICK k \in Int : k = h * (N - 1) BY <1>1
  <2>4. (2 * k) \div 2 = k BY <2>3
  <2> QED BY <2>1, <2>2, <2>3, <2>4 DEF noProd
<1>3. N \in Nat \ {0} /\ h \in 0 .. N - 1 /\ h - 1 \in Nat /\ N - 1 >= h
  BY <1>1
<1>4. M = h
  BY <1>2, <1>3, PlaceOf DEF M
<1>5. noProd + N - 1 = h * N + (h - 1)
  BY <1>1, <1>2
<1>6. (noProd + N - 1) \div N = h
  <2>1. h - 1 \in 0 .. N - 1 BY <1>3
  <2> QED BY <1>3, <1>5, <2>1, PlaceOf
<1> QED BY <1>1, <1>2, <1>3, <1>4, <1>6 DEF Words

(* The lines of the first batch, one by one.                               *)
Stage1Line(lanes) == [data |-> [w \in Words |-> Sum(lanes[w], FirstBatch)], last |-> FALSE]
ProductLine(l) ==
    [data |-> [w \in Words |-> LET k == (l - 1) * N + w IN
                 IF k < noProd THEN Sum(LanesAt(k), FirstBatch) ELSE Undefined],
     last |-> l = HalfN]

LEMMA LinesAre ==
    /\ IsAStream(Lines) /\ Len(Lines) = HalfN + 2
    /\ Lines[1] = Stage1Line(SumLanes) /\ Lines[2] = Stage1Line(SquareLanes)
    /\ \A l \in 1 .. HalfN : Lines[l + 2] = ProductLine(l)
<1>1. PICK s1 : s1 = Stage1Line(SumLanes) OBVIOUS
<1>2. PICK s2 : s2 = Stage1Line(SquareLanes) OBVIOUS
<1>3. PICK p : p = [l \in 1 .. HalfN |-> ProductLine(l)] OBVIOUS
<1>4. Lines = <<s1, s2>> \o p
  <2>1. s1 = [data |-> [w \in Words |-> Sum(<<w>>, FirstBatch)], last |-> FALSE]
    BY <1>1 DEF Stage1Line, SumLanes
  <2>2. s2 = [data |-> [w \in Words |-> Sum(<<w, w>>, FirstBatch)], last |-> FALSE]
    BY <1>2 DEF Stage1Line, SquareLanes
  <2>3. p = [l \in 1 .. HalfN |->
          [data |-> [w \in Words |-> LET k == (l - 1) * N + w IN
                       IF k < noProd THEN Sum(LanesAt(k), FirstBatch) ELSE Undefined],
           last |-> l = HalfN]]
    BY <1>3 DEF ProductLine
  <2>4. (noProd + N - 1) \div N = HalfN BY LineSizes
  <2> HIDE DEF HalfN
  <2> QED BY <2>1, <2>2, <2>3, <2>4, Zenon DEF Lines
<1> PICK h \in Nat \ {0} : h = HalfN BY LineSizes
<1> DEFINE S == {s1, s2} \cup {p[l] : l \in 1 .. h}
<1>5. p \in [1 .. h -> S] /\ <<s1, s2>> \in Seq(S)
  BY <1>3
<1>6. p \in Seq(S) /\ Len(p) = h
  BY <1>5
<1> HIDE DEF S
<1>7. PICK t : t = <<s1, s2>> OBVIOUS
<1>8. t \in Seq(S) /\ Len(t) = 2 /\ t[1] = s1 /\ t[2] = s2
  BY <1>5, <1>7
<1>9. /\ t \o p \in Seq(S) /\ Len(t \o p) = 2 + h
      /\ \A k \in 1 .. 2 + h : (t \o p)[k] = IF k <= 2 THEN t[k] ELSE p[k - 2]
  <2>1. /\ t \o p \in Seq(S) /\ Len(t \o p) = Len(t) + Len(p)
        /\ \A k \in 1 .. Len(t) + Len(p) :
              (t \o p)[k] = IF k <= Len(t) THEN t[k] ELSE p[k - Len(t)]
    BY ONLY <1>6, <1>8, ConcatProperties, Zenon
  <2> QED BY ONLY <1>6, <1>8, <2>1, Zenon
<1>10. \A l \in 1 .. h : p[l] = ProductLine(l)
  BY <1>3
<1>11. /\ 1 \in 1 .. 2 + h /\ 2 \in 1 .. 2 + h
       /\ \A l \in 1 .. h : l + 2 \in 1 .. 2 + h /\ ~(l + 2 <= 2) /\ (l + 2) - 2 = l
  OBVIOUS
<1>12. (t \o p)[1] = s1 /\ (t \o p)[2] = s2 /\ \A l \in 1 .. h : (t \o p)[l + 2] = p[l]
  <2>1. PICK q : q = t \o p OBVIOUS
  <2>2. \A k \in 1 .. 2 + h : q[k] = IF k <= 2 THEN t[k] ELSE p[k - 2]
    BY ONLY <1>9, <2>1
  <2>3. q[1] = s1 /\ q[2] = s2
    BY ONLY <1>8, <1>11, <2>2
  <2>4. ASSUME NEW l \in 1 .. h PROVE q[l + 2] = p[l]
    BY ONLY <1>11, <2>2
  <2> QED BY ONLY <2>1, <2>3, <2>4
<1>13. IsAStream(t \o p)
  BY <1>9, SequenceIsAStream
<1> QED BY <1>1, <1>2, <1>4, <1>7, <1>9, <1>10, <1>12, <1>13

(* A stream that agrees with a list as far as it goes is a prefix of it.   *)
LEMMA PrefixByWords ==
    ASSUME NEW s, IsAStream(s), NEW t, IsAStream(t), Len(s) <= Len(t),
           \A k \in 1 .. Len(s) : s[k] = t[k]
    PROVE  IsPrefix(s, t)
<1> DEFINE S == Range(s) \cup Range(t)
<1>1. s \in Seq(S) /\ t \in Seq(S)
  BY SeqMonotonic DEF IsAStream
<1> HIDE DEF S
<1>2. PICK m \in Nat : m = Len(s) BY <1>1
<1>3. Len(t) \in Nat /\ m <= Len(t) BY <1>1, <1>2
<1>4. \A k \in 1 .. m : k \in 1 .. Len(t) BY <1>3
<1>5. PICK a : a = SubSeq(s, 1, m) OBVIOUS
<1>6. PICK b : b = SubSeq(t, 1, m) OBVIOUS
<1>7. a \in Seq(S) /\ Len(a) = m /\ \A k \in 1 .. m : a[k] = s[k]
  BY <1>1, <1>2, <1>5, SubSeqProperties
<1>8. b \in Seq(S) /\ Len(b) = m /\ \A k \in 1 .. m : b[k] = t[k]
  BY <1>1, <1>3, <1>4, <1>6, SubSeqProperties
<1>9. a = b
  BY <1>2, <1>7, <1>8, SeqEqual
<1> QED BY <1>2, <1>5, <1>6, <1>9 DEF IsPrefix

(* The items are numbered as they are sent: behind the first q of them, a  *)
(* stream s holds the ones that follow.                                    *)
Numbered(s, q) == \A k \in 1 .. Len(s) : s[k] = q + k
FirstItems(q)  == [n \in 1 .. q |-> n]

ReadBySums     == Items - Len(s_axis_data)
TakenBySums    == ReadBySums - Len(lineData)
ReadBySquares  == TakenBySums - Len(data_1)
TakenBySquares == ReadBySquares - Len(lineDataS)

ItemsNumbered ==
    /\ Numbered(s_axis_data, ReadBySums) /\ Numbered(lineData, TakenBySums)
    /\ Numbered(data_1, ReadBySquares) /\ Numbered(lineDataS, TakenBySquares)
    /\ Numbered(data_2, TakenByProducts)

(* Until cm_sum or cm_sum_squares has sent its first line, it has added up *)
(* the items it has passed on, no more than a batch, and sent nothing;     *)
(* from then on the line of the first batch is the first in its stream,    *)
(* until that line is written as number `at'.  While its sum is complete   *)
(* it holds no item.                                                       *)
NotSent(taken, current, out, at, i) ==
    taken <= regSampleSize /\ current = FirstItems(taken) /\ out = << >> /\ i <= at
HasSent(taken, out, lanes, at, i) ==
    taken >= regSampleSize /\ (i <= at => out # << >> /\ out[1] = Stage1Line(lanes))

StageInv(taken, line, current, out, lanes, at, i) ==
    /\ IsAStream(out)
    /\ line # << >> => Len(current) < regSampleSize
    /\ NotSent(taken, current, out, at, i) \/ HasSent(taken, out, lanes, at, i)

(* The products of all pairs are of the items taken; w lines of them have  *)
(* been sent, and those not written are in the stream.                     *)
LinesRead == IF lines_i > 2 THEN lines_i - 2 ELSE 0
ProductsInv(w) ==
    /\ currentSumP = [k \in 0 .. noProd - 1 |-> Sum(LanesAt(k), FirstItems(TakenByProducts))]
    /\ IsAStream(sumsP) /\ LinesRead + Len(sumsP) = w
    /\ \A k \in 1 .. Len(sumsP) : sumsP[k] = ProductLine(LinesRead + k)
    /\ state = "COMPUTE" => w = 0 /\ productCounter = 0
    /\ state = "WRITE"   => w < HalfN /\ productCounter = w * N
    /\ state = "REINIT"  => w = HalfN

WrittenInOrder ==
    /\ IsAStream(m_axis_write_data) /\ lines_i \in 0 .. HalfN + 2
    /\ Len(m_axis_write_data) = lines_i
    /\ \A k \in 1 .. lines_i : m_axis_write_data[k] = Lines[k]

LinesInv ==
    /\ ItemsFlow /\ ItemsNumbered /\ WrittenInOrder
    /\ StageInv(TakenBySums, lineData, currentSum, sums, SumLanes, 0, lines_i)
    /\ StageInv(TakenBySquares, lineDataS, currentSumS, sumsS, SquareLanes, 1, lines_i)
    /\ \E w \in 0 .. HalfN : ProductsInv(w)

LEMMA EmptyStream == IsAStream(<< >>) /\ Len(<< >>) = 0 /\ FirstItems(0) = << >>
<1>1. IsAStream(<< >>) BY SequenceIsAStream, EmptySeq
<1>2. FirstItems(0) = << >>
  <2>1. 1 .. 0 = {} OBVIOUS
  <2> QED BY <2>1 DEF FirstItems
<1> QED BY <1>1, <1>2

LEMMA InitLinesInv == FunctionInit => LinesInv
<1> SUFFICES ASSUME FunctionInit PROVE LinesInv
  OBVIOUS
<1>1. ItemsFlow BY InitItemsFlow
<1>2. /\ Items \in Nat /\ s_axis_data \in Seq(Nat) /\ Len(s_axis_data) = Items
      /\ \A k \in 1 .. Items : s_axis_data[k] = k
  BY FunctionAssumption DEF FunctionInit
<1>3. /\ lineData = << >> /\ lineDataS = << >>
      /\ data_1 = << >> /\ data_2 = << >> /\ sums = << >> /\ sumsS = << >> /\ sumsP = << >>
      /\ m_axis_write_data = << >> /\ lines_i = 0 /\ state = "COMPUTE" /\ sampleCounter = 0
      /\ productCounter = 0 /\ currentSum = << >> /\ currentSumS = << >>
      /\ currentSumP = [k \in 0 .. noProd - 1 |-> Sum(LanesAt(k), << >>)]
  BY DEF FunctionInit
<1>4. /\ ReadBySums = 0 /\ TakenBySums = 0 /\ ReadBySquares = 0 /\ TakenBySquares = 0
      /\ TakenByProducts = 0
  <2>1. ReadBySums = 0 BY <1>2 DEF ReadBySums
  <2>2. Len(lineData) = 0 /\ Len(data_1) = 0 /\ Len(lineDataS) = 0 BY <1>3
  <2>3. TakenBySums = 0 BY <2>1, <2>2 DEF TakenBySums
  <2>4. ReadBySquares = 0 BY <2>2, <2>3 DEF ReadBySquares
  <2>5. TakenBySquares = 0 BY <2>2, <2>4 DEF TakenBySquares
  <2>6. TakenByProducts = 0 BY <1>3, Zenon DEF TakenByProducts
  <2> QED BY <2>1, <2>3, <2>4, <2>5, <2>6
<1>5. ItemsNumbered
  BY <1>2, <1>3, <1>4, EmptyStream DEF ItemsNumbered, Numbered
<1>6. WrittenInOrder
  BY <1>3, EmptyStream, LineSizes DEF WrittenInOrder
<1>7. ASSUME NEW lanes, NEW at \in {0, 1} PROVE StageInv(0, << >>, << >>, << >>, lanes, at, 0)
  <2>1. 0 <= regSampleSize BY FunctionAssumption
  <2> QED BY <2>1, EmptyStream DEF StageInv, NotSent
<1>8. 0 \in 0 .. HalfN BY LineSizes
<1>9. LinesRead + Len(sumsP) = 0 /\ Len(sumsP) = 0 BY <1>3, EmptyStream DEF LinesRead
<1>10. ProductsInv(0)
  BY <1>3, <1>4, <1>9, EmptyStream DEF ProductsInv
<1> QED BY <1>1, <1>3, <1>4, <1>5, <1>6, <1>7, <1>8, <1>10 DEF LinesInv

(* Items stay numbered as they are taken and passed on.                    *)
LEMMA TakenInOrder ==
    ASSUME NEW from \in Seq(Nat), from # << >>, NEW a \in Int, Numbered(from, a)
    PROVE  Head(from) = a + 1 /\ Numbered(Tail(from), a + 1)
<1>1. PICK l \in Nat : l = Len(from) /\ l >= 1 OBVIOUS
<1>2. Head(from) = a + 1
  <2>1. Head(from) = from[1] /\ 1 \in 1 .. Len(from) BY <1>1
  <2> QED BY <2>1 DEF Numbered
<1>3. Numbered(Tail(from), a + 1)
  <2>1. PICK t : t = Tail(from) OBVIOUS
  <2>2. t \in Seq(Nat) /\ Len(t) = l - 1 /\ \A k \in 1 .. l - 1 : t[k] = from[k + 1]
    BY <1>1, <2>1
  <2>3. \A k \in 1 .. l - 1 : k + 1 \in 1 .. l /\ a + (k + 1) = (a + 1) + k
    BY <1>1
  <2> QED BY <1>1, <2>1, <2>2, <2>3 DEF Numbered
<1> QED BY <1>2, <1>3

LEMMA PassedInOrder ==
    ASSUME NEW from \in Seq(Nat), NEW to \in Seq(Nat), from # << >>,
           NEW a \in Int, NEW b \in Int, b + Len(to) = a, Numbered(from, a), Numbered(to, b)
    PROVE  /\ Head(from) = a + 1
           /\ Numbered(Tail(from), a + 1)
           /\ Numbered(Append(to, Head(from)), b)
<1>2. Head(from) = a + 1 /\ Numbered(Tail(from), a + 1)
  BY TakenInOrder
<1>4. Numbered(Append(to, Head(from)), b)
  <2>1. PICK t : t = Append(to, Head(from)) OBVIOUS
  <2>2. Head(from) \in Nat OBVIOUS
  <2>3. PICK m \in Nat : m = Len(to) OBVIOUS
  <2>4. Len(t) = m + 1 /\ (\A k \in 1 .. m : t[k] = to[k]) /\ t[m + 1] = Head(from)
    BY <2>1, <2>2, <2>3
  <2>5. a + 1 = b + (m + 1) BY <2>3
  <2>6. \A k \in 1 .. m + 1 : k \in 1 .. m \/ k = m + 1 BY <2>3
  <2> QED BY <1>2, <2>1, <2>3, <2>4, <2>5, <2>6 DEF Numbered
<1> QED BY <1>2, <1>4

(* What cm_sum or cm_sum_squares does to its line: nothing when it reads   *)
(* an item, it adds up the item that it passes on, and sends the sum of a  *)
(* batch.                                                                  *)
LEMMA StagePasses ==
    ASSUME NEW taken \in Nat, NEW line, NEW current, NEW out, NEW lanes, NEW at, NEW i,
           StageInv(taken, line, current, out, lanes, at, i), line # << >>,
           NEW current2, current2 = Append(current, taken + 1)
    PROVE  StageInv(taken + 1, << >>, current2, out, lanes, at, i)
<1>0. regSampleSize \in Nat \ {0}
  BY FunctionAssumption
<1>1. CASE NotSent(taken, current, out, at, i)
  <2>1. current = FirstItems(taken) /\ out = << >> /\ i <= at BY <1>1 DEF NotSent
  <2>2. current2 = FirstItems(taken + 1) /\ Len(current) = taken
    BY <2>1 DEF FirstItems
  <2>3. taken + 1 <= regSampleSize BY <1>0, <2>2 DEF StageInv
  <2> QED BY <2>1, <2>2, <2>3 DEF StageInv, NotSent
<1>2. CASE HasSent(taken, out, lanes, at, i)
  <2>1. taken + 1 >= regSampleSize BY <1>0, <1>2 DEF HasSent
  <2> QED BY <1>2, <2>1 DEF StageInv, HasSent
<1> QED BY <1>1, <1>2 DEF StageInv

LEMMA StageSends ==
    ASSUME NEW taken \in Nat, NEW line, NEW current, NEW out, NEW lanes, NEW at, NEW i,
           StageInv(taken, line, current, out, lanes, at, i), Len(current) = regSampleSize,
           NEW sent, sent = [data |-> [w \in Words |-> Sum(lanes[w], current)], last |-> FALSE],
           NEW out2, out2 = Append(out, sent)
    PROVE  StageInv(taken, line, << >>, out2, lanes, at, i)
<1>0. regSampleSize \in Nat \ {0} /\ Len(<< >>) = 0
  BY FunctionAssumption
<1>1. IsAStream(out2) /\ Len(<< >>) < regSampleSize
  BY <1>0, StreamStep DEF StageInv
<1>2. CASE NotSent(taken, current, out, at, i)
  <2>1. current = FirstItems(taken) /\ out = << >> BY <1>2 DEF NotSent
  <2>2. Len(current) = taken BY <2>1 DEF FirstItems
  <2>3. taken = regSampleSize BY <2>2
  <2>4. sent = Stage1Line(lanes)
    <3>1. current = FirstBatch BY <2>1, <2>3 DEF FirstItems, FirstBatch
    <3> QED BY <3>1 DEF Stage1Line
  <2>5. out2 # << >> /\ out2[1] = sent BY <2>1
  <2>6. taken >= regSampleSize BY <1>0, <2>3
  <2>7. HasSent(taken, out2, lanes, at, i) BY <2>4, <2>5, <2>6, Zenon DEF HasSent
  <2> QED BY <1>1, <2>7 DEF StageInv
<1>3. CASE HasSent(taken, out, lanes, at, i)
  <2>1. ASSUME i <= at PROVE out2 # << >> /\ out2[1] = Stage1Line(lanes)
    <3>1. out # << >> /\ out[1] = Stage1Line(lanes) BY <1>3, <2>1 DEF HasSent
    <3>2. out \in Seq(Range(out) \cup {sent}) BY SeqMonotonic DEF IsAStream, StageInv
    <3>3. 1 \in 1 .. Len(out) BY <3>1, <3>2
    <3>4. Append(out, sent) # << >> /\ Append(out, sent)[1] = out[1]
      BY <3>2, <3>3
    <3> QED BY <3>1, <3>4
  <2> QED BY <1>1, <1>3, <2>1 DEF StageInv, HasSent
<1> QED BY <1>2, <1>3 DEF StageInv

(* A line that is written.                                                 *)
LEMMA WrittenStep ==
    ASSUME WrittenInOrder, m_axis_write_data' = Append(m_axis_write_data, Lines[lines_i + 1]),
           lines_i' = lines_i + 1, lines_i < HalfN + 2
    PROVE  WrittenInOrder'
<1>1. PICK i \in 0 .. HalfN + 2 : i = lines_i /\ i < HalfN + 2
  BY DEF WrittenInOrder
<1>2. PICK m : m = m_axis_write_data OBVIOUS
<1>3. PICK z : z = Lines[i + 1] OBVIOUS
<1>4. IsAStream(m) /\ Len(m) = i /\ \A k \in 1 .. i : m[k] = Lines[k]
  BY <1>1, <1>2 DEF WrittenInOrder
<1>5. PICK g : g = Append(m, z) OBVIOUS
<1>6. m \in Seq(Range(m) \cup {z}) BY <1>4, SeqMonotonic DEF IsAStream
<1>7. Len(g) = i + 1 /\ (\A k \in 1 .. i : g[k] = m[k]) /\ g[i + 1] = z
  BY ONLY <1>4, <1>5, <1>6
<1>8. IsAStream(g) BY <1>4, <1>5, StreamStep
<1>9. i + 1 \in 0 .. HalfN + 2 BY <1>1, LineSizes
<1>10. \A k \in 1 .. i + 1 : g[k] = Lines[k]
  <2>1. \A k \in 1 .. i + 1 : k \in 1 .. i \/ k = i + 1 BY <1>1, LineSizes
  <2> QED BY <1>3, <1>4, <1>7, <2>1
<1>11. m_axis_write_data' = g /\ lines_i' = i + 1 /\ HalfN' = HalfN /\ Lines' = Lines
  <2>1. m_axis_write_data' = g /\ lines_i' = i + 1 BY <1>1, <1>2, <1>3, <1>5
  <2>2. HalfN' = HalfN /\ Lines' = Lines BY DEF HalfN, Lines
  <2> QED BY <2>1, <2>2
<1> QED BY <1>7, <1>8, <1>9, <1>10, <1>11 DEF WrittenInOrder

(* The counts of what each process has read and passed on are naturals,    *)
(* and no item is anywhere but in the places between two of them.          *)
LEMMA TakenAre ==
    ASSUME ItemsFlow
    PROVE  /\ ReadBySums \in Nat /\ TakenBySums \in Nat /\ ReadBySquares \in Nat
           /\ TakenBySquares \in Nat /\ TakenByProducts \in Nat
           /\ TakenBySums + Len(lineData) = ReadBySums
           /\ ReadBySquares + Len(data_1) = TakenBySums
           /\ TakenBySquares + Len(lineDataS) = ReadBySquares
           /\ TakenByProducts + Len(data_2) = TakenBySquares
<1> DEFINE a == Len(s_axis_data)
           l == Len(lineData)
           b == Len(data_1)
           m == Len(lineDataS)
           c == Len(data_2)
<1>1. a \in Nat /\ l \in Nat /\ b \in Nat /\ m \in Nat /\ c \in Nat
  BY DEF ItemsFlow
<1>2. PICK t \in Nat : t = TakenByProducts
  BY FunctionAssumption DEF ItemsFlow, TakenByProducts
<1>3. Items \in Nat /\ a + l + b + m + c + t = Items
  BY <1>2, FunctionAssumption DEF ItemsFlow
<1>4. /\ ReadBySums = Items - a /\ TakenBySums = (Items - a) - l
      /\ ReadBySquares = ((Items - a) - l) - b /\ TakenBySquares = (((Items - a) - l) - b) - m
  BY DEF ReadBySums, TakenBySums, ReadBySquares, TakenBySquares
<1> HIDE DEF a, l, b, m, c
<1>5. /\ Items - a \in Nat /\ (Items - a) - l \in Nat /\ ((Items - a) - l) - b \in Nat
      /\ (((Items - a) - l) - b) - m = t + c
  BY ONLY <1>1, <1>2, <1>3
<1>6. /\ ((Items - a) - l) + l = Items - a
      /\ (((Items - a) - l) - b) + b = (Items - a) - l
      /\ (t + c) + m = ((Items - a) - l) - b /\ t + c \in Nat
  BY ONLY <1>1, <1>2, <1>3
<1> QED BY <1>2, <1>4, <1>5, <1>6 DEF a, l, b, m, c

(* The counts and the numbers of an item that moves.                       *)
LEMMA MovedOne ==
    ASSUME NEW from \in Seq(Nat), NEW to \in Seq(Nat), from # << >>,
           NEW a \in Nat, NEW b \in Nat, b + Len(to) = a, Numbered(from, a), Numbered(to, b)
    PROVE  /\ Len(from) \in Nat /\ Len(Tail(from)) = Len(from) - 1
           /\ Len(Append(to, Head(from))) \in Nat /\ b + Len(Append(to, Head(from))) = a + 1
           /\ Head(from) = a + 1
           /\ Numbered(Tail(from), a + 1) /\ Numbered(Append(to, Head(from)), b)
<1>1. /\ Len(Tail(from)) = Len(from) - 1 /\ Len(Append(to, Head(from))) = Len(to) + 1
      /\ Len(from) \in Nat /\ Len(to) \in Nat
  BY OnePassed
<1>2. Head(from) = a + 1 /\ Numbered(Tail(from), a + 1) /\ Numbered(Append(to, Head(from)), b)
  BY PassedInOrder
<1>3. PICK k \in Nat : k = Len(to) /\ Len(Append(to, Head(from))) = k + 1
  BY <1>1
<1>4. b + k = a
  BY <1>3
<1>5. b + (k + 1) = a + 1
  <2>1. \A i, j, n \in Nat : i + n = j => i + (n + 1) = j + 1
    OBVIOUS
  <2> QED BY ONLY <1>4, <2>1, k \in Nat, a \in Nat, b \in Nat
<1> QED BY <1>1, <1>2, <1>3, <1>5

LEMMA SumsStep ==
    ASSUME LinesInv, CmSum PROVE LinesInv'
<1>1. /\ ItemsFlow /\ ItemsFlow' /\ ItemsNumbered /\ WrittenInOrder
      /\ StageInv(TakenBySums, lineData, currentSum, sums, SumLanes, 0, lines_i)
      /\ StageInv(TakenBySquares, lineDataS, currentSumS, sumsS, SquareLanes, 1, lines_i)
  BY StepItemsFlow DEF LinesInv, FunctionNext
<1>2. /\ s_axis_data \in Seq(Nat) /\ lineData \in Seq(Nat) /\ data_1 \in Seq(Nat)
      /\ lineDataS \in Seq(Nat) /\ Len(lineDataS) \in Nat
  BY <1>1 DEF ItemsFlow
<1>3. UNCHANGED <<data_2, sumsS, sumsP, m_axis_write_data, lineDataS, currentSumS, currentSumP,
                  sampleCounter, productCounter, state, lines_i>>
  BY DEF CmSum
<1>4. PICK q, a, b, c, t \in Nat :
         /\ q = ReadBySums /\ a = TakenBySums /\ b = ReadBySquares /\ c = TakenBySquares
         /\ t = TakenByProducts
  BY <1>1, TakenAre
<1>14. q \in Nat /\ a \in Nat /\ b \in Nat /\ c \in Nat /\ t \in Nat
  OBVIOUS
<1>5. /\ a + Len(lineData) = q /\ b + Len(data_1) = a /\ c + Len(lineDataS) = b
      /\ q = Items - Len(s_axis_data) /\ Items \in Nat
  BY <1>1, <1>4, TakenAre, FunctionAssumption DEF ReadBySums
<1>6. TakenByProducts' = t
  BY <1>3, <1>4 DEF TakenByProducts
<1>7. /\ Numbered(s_axis_data, q) /\ Numbered(lineData, a) /\ Numbered(data_1, b)
      /\ Numbered(lineDataS, c) /\ Numbered(data_2, t)
  BY <1>1, <1>4 DEF ItemsNumbered
<1>8. WrittenInOrder' BY <1>1, <1>3 DEF WrittenInOrder, Lines, HalfN
<1>9. StageInv(a, lineData, currentSum, sums, SumLanes, 0, lines_i)
  BY <1>1, <1>4
(* It suffices that the items stay numbered and the line is kept, for the  *)
(* counts after the step.                                                  *)
<1>10. ASSUME NEW q2 \in Nat, NEW a2 \in Nat, ReadBySums' = q2, TakenBySums' = a2,
              b + Len(data_1') = a2,
              Numbered(s_axis_data', q2), Numbered(lineData', a2), Numbered(data_1', b),
              StageInv(a2, lineData', currentSum', sums', SumLanes, 0, lines_i)
       PROVE  LinesInv'
  <2>1. ReadBySquares' = b /\ TakenBySquares' = c
    <3>1. Len(data_1') \in Nat BY <1>1 DEF ItemsFlow
    <3>2. ReadBySquares' = b BY <1>10, <3>1 DEF ReadBySquares
    <3> QED BY <1>2, <1>3, <1>5, <3>2 DEF TakenBySquares
  <2>2. ItemsNumbered'
    <3>1. Numbered(lineDataS', c) /\ Numbered(data_2', t) BY <1>3, <1>7
    <3>2. /\ Numbered(s_axis_data', ReadBySums') /\ Numbered(lineData', TakenBySums')
          /\ Numbered(data_1', ReadBySquares') /\ Numbered(lineDataS', TakenBySquares')
          /\ Numbered(data_2', TakenByProducts')
      BY <1>6, <1>10, <2>1, <3>1
    <3> QED BY <3>2 DEF ItemsNumbered, Numbered
  <2>3. StageInv(TakenBySums, lineData, currentSum, sums, SumLanes, 0, lines_i)'
    BY <1>3, <1>10
       DEF StageInv, NotSent, HasSent, SumLanes, IsAStream, FirstItems, Stage1Line, FirstBatch, Words, Sum
  <2>4. StageInv(TakenBySquares, lineDataS, currentSumS, sumsS, SquareLanes, 1, lines_i)'
    BY <1>1, <1>3, <1>4, <2>1
       DEF StageInv, NotSent, HasSent, SquareLanes, IsAStream, FirstItems, Stage1Line, FirstBatch, Words,
           Sum
  <2>5. (\E w \in 0 .. HalfN : ProductsInv(w))'
    BY <1>3, <1>4, <1>6 DEF LinesInv, ProductsInv, LinesRead, IsAStream, FirstItems, ProductLine, HalfN
  <2> QED BY <1>1, <1>8, <2>2, <2>3, <2>4, <2>5 DEF LinesInv
<1>11. CASE /\ Moved(s_axis_data, lineData) /\ Len(lineData) = 0
           /\ Len(currentSum) < regSampleSize /\ UNCHANGED <<data_1, sums, currentSum>>
  <2>1. /\ s_axis_data # << >> /\ s_axis_data' = Tail(s_axis_data)
        /\ lineData' = Append(lineData, Head(s_axis_data))
    BY <1>11 DEF Moved
  <2>2. /\ Len(s_axis_data) \in Nat /\ Len(s_axis_data') = Len(s_axis_data) - 1
        /\ Len(lineData') \in Nat /\ a + Len(lineData') = q + 1
        /\ Head(s_axis_data) = q + 1 /\ Numbered(s_axis_data', q + 1) /\ Numbered(lineData', a)
    <3>1. PICK f, g, f2, g2 : f = s_axis_data /\ g = lineData /\ f2 = s_axis_data' /\ g2 = lineData'
      OBVIOUS
    <3>2. f \in Seq(Nat) /\ g \in Seq(Nat) /\ f # << >> /\ f2 = Tail(f) /\ g2 = Append(g, Head(f))
      BY <1>2, <2>1, <3>1
    <3>3. a + Len(g) = q /\ Numbered(f, q) /\ Numbered(g, a)
      BY <1>5, <1>7, <3>1
    <3>4. /\ Len(f) \in Nat /\ Len(Tail(f)) = Len(f) - 1
          /\ Len(Append(g, Head(f))) \in Nat /\ a + Len(Append(g, Head(f))) = q + 1
          /\ Head(f) = q + 1
          /\ Numbered(Tail(f), q + 1) /\ Numbered(Append(g, Head(f)), a)
      BY ONLY <1>14, <3>2, <3>3, MovedOne
    <3> QED BY <3>1, <3>2, <3>4, Zenon
  <2>3. ReadBySums' = q + 1 BY <1>5, <2>2 DEF ReadBySums
  <2>4. TakenBySums' = a BY <2>2, <2>3 DEF TakenBySums
  <2>5. StageInv(a, lineData', currentSum', sums', SumLanes, 0, lines_i)
    BY <1>9, <1>11 DEF StageInv
  <2>6. b + Len(data_1') = a /\ Numbered(data_1', b) /\ q + 1 \in Nat BY <1>5, <1>7, <1>11
  <2> QED BY <1>10, <2>2, <2>3, <2>4, <2>5, <2>6
<1>12. CASE /\ Moved(lineData, data_1) /\ lineData' = << >>
           /\ currentSum' = Append(currentSum, Head(lineData))
           /\ UNCHANGED <<s_axis_data, sums>>
  <2>1. /\ lineData # << >> /\ lineData' = Tail(lineData)
        /\ data_1' = Append(data_1, Head(lineData))
    BY <1>12 DEF Moved
  <2>2. /\ Len(lineData) \in Nat /\ Len(lineData') = Len(lineData) - 1
        /\ Len(data_1') \in Nat /\ b + Len(data_1') = a + 1
        /\ Head(lineData) = a + 1 /\ Numbered(lineData', a + 1) /\ Numbered(data_1', b)
    <3>1. PICK f, g, f2, g2 : f = lineData /\ g = data_1 /\ f2 = lineData' /\ g2 = data_1'
      OBVIOUS
    <3>2. f \in Seq(Nat) /\ g \in Seq(Nat) /\ f # << >> /\ f2 = Tail(f) /\ g2 = Append(g, Head(f))
      BY <1>2, <2>1, <3>1
    <3>3. b + Len(g) = a /\ Numbered(f, a) /\ Numbered(g, b)
      BY <1>5, <1>7, <3>1
    <3>4. /\ Len(f) \in Nat /\ Len(Tail(f)) = Len(f) - 1
          /\ Len(Append(g, Head(f))) \in Nat /\ b + Len(Append(g, Head(f))) = a + 1
          /\ Head(f) = a + 1
          /\ Numbered(Tail(f), a + 1) /\ Numbered(Append(g, Head(f)), b)
      BY ONLY <1>14, <3>2, <3>3, MovedOne
    <3> QED BY <3>1, <3>2, <3>4, Zenon
  <2>3. ReadBySums' = q BY <1>4, <1>12 DEF ReadBySums
  <2>4. TakenBySums' = a + 1
    <3>1. PICK k \in Nat : k = Len(lineData) /\ Len(lineData') = k - 1 BY <2>2
    <3>2. a + k = q BY <1>5, <3>1
    <3>3. q - (k - 1) = a + 1 BY <3>2
    <3> QED BY <2>3, <3>1, <3>3 DEF TakenBySums
  <2>5. StageInv(a + 1, lineData', currentSum', sums', SumLanes, 0, lines_i)
    BY <1>9, <1>12, <2>2, StagePasses DEF Moved
  <2>6. Numbered(s_axis_data', q) /\ a + 1 \in Nat BY <1>7, <1>12
  <2> QED BY <1>10, <2>2, <2>3, <2>4, <2>5, <2>6
<1>13. CASE WriteSum(currentSum, sums, SumLanes) /\ UNCHANGED <<s_axis_data, lineData, data_1>>
  <2>1. ReadBySums' = q /\ TakenBySums' = a
    BY <1>4, <1>13 DEF ReadBySums, TakenBySums
  <2>2. PICK sent : sent = [data |-> [w \in Words |-> Sum(SumLanes[w], currentSum)], last |-> FALSE]
    OBVIOUS
  <2>3. Len(currentSum) = regSampleSize /\ sums' = Append(sums, sent) /\ currentSum' = << >>
    BY <1>13, <2>2, Zenon DEF WriteSum
  <2>4. StageInv(a, lineData', currentSum', sums', SumLanes, 0, lines_i)
    <3>1. StageInv(a, lineData, << >>, sums', SumLanes, 0, lines_i)
      BY <1>9, <2>2, <2>3, StageSends
    <3> QED BY <1>13, <2>3, <3>1
  <2>5. /\ b + Len(data_1') = a /\ Numbered(s_axis_data', q) /\ Numbered(lineData', a)
        /\ Numbered(data_1', b)
    BY <1>5, <1>7, <1>13
  <2> QED BY <1>10, <2>1, <2>4, <2>5
<1> QED BY <1>1, <1>11, <1>12, <1>13, SumMoves

LEMMA SquaresStep ==
    ASSUME LinesInv, CmSumSquares PROVE LinesInv'
<1>1. /\ ItemsFlow /\ ItemsFlow' /\ ItemsNumbered /\ WrittenInOrder
      /\ StageInv(TakenBySums, lineData, currentSum, sums, SumLanes, 0, lines_i)
      /\ StageInv(TakenBySquares, lineDataS, currentSumS, sumsS, SquareLanes, 1, lines_i)
  BY StepItemsFlow DEF LinesInv, FunctionNext
<1>2. /\ data_1 \in Seq(Nat) /\ lineDataS \in Seq(Nat) /\ data_2 \in Seq(Nat)
      /\ Len(data_1) \in Nat
  BY <1>1 DEF ItemsFlow
<1>3. UNCHANGED <<s_axis_data, sums, sumsP, m_axis_write_data, lineData, currentSum, currentSumP,
                  sampleCounter, productCounter, state, lines_i>>
  BY DEF CmSumSquares
<1>4. PICK q, a, b, c, t \in Nat :
         /\ q = ReadBySums /\ a = TakenBySums /\ b = ReadBySquares /\ c = TakenBySquares
         /\ t = TakenByProducts
  BY <1>1, TakenAre
<1>14. q \in Nat /\ a \in Nat /\ b \in Nat /\ c \in Nat /\ t \in Nat
  OBVIOUS
<1>5. /\ b + Len(data_1) = a /\ c + Len(lineDataS) = b /\ t + Len(data_2) = c
  BY <1>1, <1>4, TakenAre
<1>6. ReadBySums' = q /\ TakenBySums' = a /\ TakenByProducts' = t
  BY <1>3, <1>4 DEF ReadBySums, TakenBySums, TakenByProducts
<1>7. /\ Numbered(s_axis_data, q) /\ Numbered(lineData, a) /\ Numbered(data_1, b)
      /\ Numbered(lineDataS, c) /\ Numbered(data_2, t)
  BY <1>1, <1>4 DEF ItemsNumbered
<1>8. WrittenInOrder' BY <1>1, <1>3 DEF WrittenInOrder, Lines, HalfN
<1>9. StageInv(c, lineDataS, currentSumS, sumsS, SquareLanes, 1, lines_i)
  BY <1>1, <1>4
<1>10. ASSUME NEW b2 \in Nat, NEW c2 \in Nat, ReadBySquares' = b2, TakenBySquares' = c2,
              Numbered(data_1', b2), Numbered(lineDataS', c2), Numbered(data_2', t),
              StageInv(c2, lineDataS', currentSumS', sumsS', SquareLanes, 1, lines_i)
       PROVE  LinesInv'
  <2>2. ItemsNumbered'
    <3>1. Numbered(s_axis_data', q) /\ Numbered(lineData', a) BY <1>3, <1>7
    <3>2. /\ Numbered(s_axis_data', ReadBySums') /\ Numbered(lineData', TakenBySums')
          /\ Numbered(data_1', ReadBySquares') /\ Numbered(lineDataS', TakenBySquares')
          /\ Numbered(data_2', TakenByProducts')
      BY <1>6, <1>10, <3>1
    <3> QED BY <3>2 DEF ItemsNumbered, Numbered
  <2>3. StageInv(TakenBySquares, lineDataS, currentSumS, sumsS, SquareLanes, 1, lines_i)'
    BY <1>3, <1>10
       DEF StageInv, NotSent, HasSent, SquareLanes, IsAStream, FirstItems, Stage1Line, FirstBatch, Words,
           Sum
  <2>4. StageInv(TakenBySums, lineData, currentSum, sums, SumLanes, 0, lines_i)'
    BY <1>1, <1>3, <1>4, <1>6
       DEF StageInv, NotSent, HasSent, SumLanes, IsAStream, FirstItems, Stage1Line, FirstBatch, Words, Sum
  <2>5. (\E w \in 0 .. HalfN : ProductsInv(w))'
    BY <1>3, <1>4, <1>6 DEF LinesInv, ProductsInv, LinesRead, IsAStream, FirstItems, ProductLine, HalfN
  <2> QED BY <1>1, <1>8, <2>2, <2>3, <2>4, <2>5 DEF LinesInv
<1>11. CASE /\ Moved(data_1, lineDataS) /\ Len(lineDataS) = 0
           /\ Len(currentSumS) < regSampleSize /\ UNCHANGED <<data_2, sumsS, currentSumS>>
  <2>1. /\ data_1 # << >> /\ data_1' = Tail(data_1)
        /\ lineDataS' = Append(lineDataS, Head(data_1))
    BY <1>11 DEF Moved
  <2>2. /\ Len(data_1) \in Nat /\ Len(data_1') = Len(data_1) - 1
        /\ Len(lineDataS') \in Nat /\ c + Len(lineDataS') = b + 1
        /\ Head(data_1) = b + 1 /\ Numbered(data_1', b + 1) /\ Numbered(lineDataS', c)
    <3>1. PICK f, g, f2, g2 : f = data_1 /\ g = lineDataS /\ f2 = data_1' /\ g2 = lineDataS'
      OBVIOUS
    <3>2. f \in Seq(Nat) /\ g \in Seq(Nat) /\ f # << >> /\ f2 = Tail(f) /\ g2 = Append(g, Head(f))
      BY <1>2, <2>1, <3>1
    <3>3. c + Len(g) = b /\ Numbered(f, b) /\ Numbered(g, c)
      BY <1>5, <1>7, <3>1
    <3>4. /\ Len(f) \in Nat /\ Len(Tail(f)) = Len(f) - 1
          /\ Len(Append(g, Head(f))) \in Nat /\ c + Len(Append(g, Head(f))) = b + 1
          /\ Head(f) = b + 1
          /\ Numbered(Tail(f), b + 1) /\ Numbered(Append(g, Head(f)), c)
      BY ONLY <1>14, <3>2, <3>3, MovedOne
    <3> QED BY <3>1, <3>2, <3>4, Zenon
  <2>3. ReadBySquares' = b + 1
    <3>1. ReadBySquares' = a - Len(data_1') BY <1>6 DEF ReadBySquares
    <3>2. PICK k \in Nat : k = Len(data_1) BY <1>2
    <3>3. b + k = a /\ Len(data_1') = k - 1 BY <1>5, <2>2, <3>2
    <3>4. a - (k - 1) = b + 1 BY <3>3
    <3> QED BY <3>1, <3>3, <3>4
  <2>4. TakenBySquares' = c BY <2>2, <2>3 DEF TakenBySquares
  <2>5. StageInv(c, lineDataS', currentSumS', sumsS', SquareLanes, 1, lines_i)
    BY <1>9, <1>11 DEF StageInv
  <2>6. Numbered(data_2', t) /\ b + 1 \in Nat BY <1>7, <1>11
  <2> QED BY <1>10, <2>2, <2>3, <2>4, <2>5, <2>6
<1>12. CASE /\ Moved(lineDataS, data_2) /\ lineDataS' = << >>
           /\ currentSumS' = Append(currentSumS, Head(lineDataS))
           /\ UNCHANGED <<data_1, sumsS>>
  <2>1. /\ lineDataS # << >> /\ lineDataS' = Tail(lineDataS)
        /\ data_2' = Append(data_2, Head(lineDataS))
    BY <1>12 DEF Moved
  <2>2. /\ Len(lineDataS) \in Nat /\ Len(lineDataS') = Len(lineDataS) - 1
        /\ Len(data_2') \in Nat /\ t + Len(data_2') = c + 1
        /\ Head(lineDataS) = c + 1 /\ Numbered(lineDataS', c + 1) /\ Numbered(data_2', t)
    <3>1. PICK f, g, f2, g2 : f = lineDataS /\ g = data_2 /\ f2 = lineDataS' /\ g2 = data_2'
      OBVIOUS
    <3>2. f \in Seq(Nat) /\ g \in Seq(Nat) /\ f # << >> /\ f2 = Tail(f) /\ g2 = Append(g, Head(f))
      BY <1>2, <2>1, <3>1
    <3>3. t + Len(g) = c /\ Numbered(f, c) /\ Numbered(g, t)
      BY <1>5, <1>7, <3>1
    <3>4. /\ Len(f) \in Nat /\ Len(Tail(f)) = Len(f) - 1
          /\ Len(Append(g, Head(f))) \in Nat /\ t + Len(Append(g, Head(f))) = c + 1
          /\ Head(f) = c + 1
          /\ Numbered(Tail(f), c + 1) /\ Numbered(Append(g, Head(f)), t)
      BY ONLY <1>14, <3>2, <3>3, MovedOne
    <3> QED BY <3>1, <3>2, <3>4, Zenon
  <2>3. ReadBySquares' = b BY <1>4, <1>6, <1>12 DEF ReadBySquares
  <2>4. TakenBySquares' = c + 1 BY <1>5, <2>2, <2>3 DEF TakenBySquares
  <2>5. StageInv(c + 1, lineDataS', currentSumS', sumsS', SquareLanes, 1, lines_i)
    BY <1>9, <1>12, <2>2, StagePasses DEF Moved
  <2>6. Numbered(data_1', b) /\ c + 1 \in Nat BY <1>7, <1>12
  <2> QED BY <1>10, <2>2, <2>3, <2>4, <2>5, <2>6
<1>13. CASE /\ WriteSum(currentSumS, sumsS, SquareLanes)
            /\ UNCHANGED <<data_1, lineDataS, data_2>>
  <2>1. ReadBySquares' = b /\ TakenBySquares' = c
    BY <1>4, <1>6, <1>13 DEF ReadBySquares, TakenBySquares
  <2>2. PICK sent : sent = [data |-> [w \in Words |-> Sum(SquareLanes[w], currentSumS)],
                            last |-> FALSE]
    OBVIOUS
  <2>3. Len(currentSumS) = regSampleSize /\ sumsS' = Append(sumsS, sent) /\ currentSumS' = << >>
    BY <1>13, <2>2, Zenon DEF WriteSum
  <2>4. StageInv(c, lineDataS', currentSumS', sumsS', SquareLanes, 1, lines_i)
    <3>1. StageInv(c, lineDataS, << >>, sumsS', SquareLanes, 1, lines_i)
      BY <1>9, <2>2, <2>3, StageSends
    <3> QED BY <1>13, <2>3, <3>1
  <2>5. Numbered(data_1', b) /\ Numbered(lineDataS', c) /\ Numbered(data_2', t)
    BY <1>7, <1>13
  <2> QED BY <1>10, <2>1, <2>4, <2>5
<1> QED BY <1>1, <1>11, <1>12, <1>13, SquaresMoves

(* Whether product line w + 1 is full, and its words.                      *)
LEMMA LineOfProducts ==
    ASSUME NEW w \in Nat, w < HalfN
    PROVE  /\ w * N + N < noProd <=> w + 1 < HalfN
           /\ \A v \in Words : w * N + v < noProd <=> (w + 1 < HalfN \/ v < HalfN)
<1> PICK h \in Nat \ {0} : h = HalfN /\ N = 2 * h
  BY LineSizes
<1>1. PICK d \in Nat : d = h - 1 - w BY LineSizes
<1>2. noProd = (h - 1) * N + h /\ N \in Nat \ {0} /\ Words = 0 .. N - 1 BY LineSizes
<1>3. h - 1 = d + w BY <1>1
<1>4. (h - 1) * N = d * N + w * N /\ d * N \in Nat /\ w * N \in Nat
  <2>1. (d + w) * N = d * N + w * N BY <1>2
  <2> QED BY <1>2, <1>3, <2>1
<1>5. noProd = d * N + w * N + h BY <1>2, <1>4
<1>6. CASE d = 0
  <2>1. d * N = 0 /\ ~(w + 1 < h) BY <1>1, <1>2, <1>6
  <2> QED BY <1>2, <1>4, <1>5, <2>1
<1>7. CASE d > 0
  <2>1. d * N >= N
    <3>1. (d - 1) * N >= 0 /\ (d - 1) * N = d * N - N BY <1>2, <1>7
    <3> QED BY <1>2, <1>4, <3>1
  <2>2. w + 1 < h BY <1>1, <1>7
  <2> QED BY <1>2, <1>4, <1>5, <2>1, <2>2
<1> QED BY <1>1, <1>6, <1>7

LEMMA ProductsStep ==
    ASSUME LinesInv, CmSumProducts PROVE LinesInv'
<1>1. /\ ItemsFlow /\ ItemsFlow' /\ ItemsNumbered /\ WrittenInOrder
      /\ StageInv(TakenBySums, lineData, currentSum, sums, SumLanes, 0, lines_i)
      /\ StageInv(TakenBySquares, lineDataS, currentSumS, sumsS, SquareLanes, 1, lines_i)
  BY StepItemsFlow DEF LinesInv, FunctionNext
<1>2. PICK w \in 0 .. HalfN : ProductsInv(w)
  BY DEF LinesInv
<1>3. UNCHANGED <<s_axis_data, lineData, data_1, lineDataS, sums, sumsS, m_axis_write_data,
                  currentSum, currentSumS, lines_i>>
  BY DEF CmSumProducts
<1>4. /\ ReadBySums' = ReadBySums /\ TakenBySums' = TakenBySums
      /\ ReadBySquares' = ReadBySquares /\ TakenBySquares' = TakenBySquares
  BY <1>3 DEF ReadBySums, TakenBySums, ReadBySquares, TakenBySquares
<1>5. WrittenInOrder' BY <1>1, <1>3 DEF WrittenInOrder, Lines, HalfN
<1>6. /\ StageInv(TakenBySums, lineData, currentSum, sums, SumLanes, 0, lines_i)'
      /\ StageInv(TakenBySquares, lineDataS, currentSumS, sumsS, SquareLanes, 1, lines_i)'
  BY <1>1, <1>3, <1>4
     DEF StageInv, NotSent, HasSent, SumLanes, SquareLanes, IsAStream, FirstItems, Stage1Line,
         FirstBatch, Words, Sum
<1>7. PICK t \in Nat : t = TakenByProducts /\ t + Len(data_2) = TakenBySquares
  BY <1>1, TakenAre
<1>8. ASSUME ItemsNumbered', (\E v \in 0 .. HalfN : ProductsInv(v))' PROVE LinesInv'
  BY <1>1, <1>5, <1>6, <1>8 DEF LinesInv
<1>9. CASE ComputeProducts
  <2>1. /\ state = "COMPUTE" /\ data_2 # << >> /\ data_2 \in Seq(Nat) /\ data_2' = Tail(data_2)
        /\ UNCHANGED <<sumsP, productCounter>>
    BY <1>1, <1>9 DEF ComputeProducts, ItemsFlow
  <2>2. Head(data_2) = t + 1 /\ Numbered(data_2', t + 1)
    <3>1. Numbered(data_2, t) BY <1>1, <1>7, Zenon DEF ItemsNumbered
    <3>2. t \in Int OBVIOUS
    <3> QED BY <2>1, <3>1, <3>2, TakenInOrder
  <2>3. TakenByProducts' = t + 1
    <3>1. t = sampleCounter BY <1>7, <2>1 DEF TakenByProducts
    <3>2. CASE sampleCounter + 1 = regSampleSize
      <4>1. state' = "WRITE" BY <1>9, <3>2 DEF ComputeProducts
      <4> QED BY <3>1, <3>2, <4>1 DEF TakenByProducts
    <3>3. CASE sampleCounter + 1 # regSampleSize
      <4>1. state' = "COMPUTE" /\ sampleCounter' = sampleCounter + 1
        BY <1>9, <3>3 DEF ComputeProducts
      <4> QED BY <3>1, <4>1 DEF TakenByProducts
    <3> QED BY <3>2, <3>3
  <2>4. ItemsNumbered'
    <3>1. /\ Numbered(s_axis_data, ReadBySums) /\ Numbered(lineData, TakenBySums)
          /\ Numbered(data_1, ReadBySquares) /\ Numbered(lineDataS, TakenBySquares)
      BY <1>1 DEF ItemsNumbered
    <3>2. /\ Numbered(s_axis_data', ReadBySums') /\ Numbered(lineData', TakenBySums')
          /\ Numbered(data_1', ReadBySquares') /\ Numbered(lineDataS', TakenBySquares')
      BY <1>3, <1>4, <3>1, Zenon
    <3>3. Numbered(data_2', TakenByProducts') BY <2>2, <2>3, Zenon
    <3> QED BY <3>2, <3>3 DEF ItemsNumbered, Numbered
  <2>5. w = 0 /\ productCounter = 0 BY <1>2, <2>1 DEF ProductsInv
  <2>6. currentSumP' = [k \in 0 .. noProd - 1 |-> Sum(LanesAt(k), FirstItems(t + 1))]
    <3>1. currentSumP = [k \in 0 .. noProd - 1 |-> Sum(LanesAt(k), FirstItems(t))]
      BY <1>2, <1>7 DEF ProductsInv
    <3>2. Append(FirstItems(t), t + 1) = FirstItems(t + 1) BY DEF FirstItems
    <3>3. currentSumP' = [k \in DOMAIN currentSumP |->
                            [currentSumP[k] EXCEPT !.items = Append(@, t + 1)]]
      BY <1>9, <2>2 DEF ComputeProducts
    <3>4. ASSUME NEW k \in 0 .. noProd - 1
          PROVE  [currentSumP[k] EXCEPT !.items = Append(@, t + 1)]
                   = Sum(LanesAt(k), FirstItems(t + 1))
      <4>1. currentSumP[k] = Sum(LanesAt(k), FirstItems(t)) BY <3>1
      <4>2. PICK l, f : l = LanesAt(k) /\ f = FirstItems(t) OBVIOUS
      <4>3. PICK c : c = [of |-> l, items |-> f] OBVIOUS
      <4>4. [c EXCEPT !.items = Append(@, t + 1)] = [of |-> l, items |-> Append(f, t + 1)]
        <5>1. PICK z : z = Append(f, t + 1) OBVIOUS
        <5>2. c.items = f BY <4>3
        <5>3. [c EXCEPT !.items = z] = [of |-> l, items |-> z] BY ONLY <4>3
        <5> QED BY <5>1, <5>2, <5>3
      <4>5. currentSumP[k] = c BY <4>1, <4>2, <4>3 DEF Sum
      <4> QED BY <3>2, <4>2, <4>4, <4>5 DEF Sum
    <3>5. DOMAIN currentSumP = 0 .. noProd - 1 BY <3>1
    <3> QED BY <3>3, <3>4, <3>5
  <2>7. state' \in {"COMPUTE", "WRITE"} BY <1>9 DEF ComputeProducts
  <2>8. 0 < HalfN /\ 0 = 0 * N /\ 0 \in 0 .. HalfN BY LineSizes
  <2>9. ProductsInv(0)'
    <3>1. LinesRead' = LinesRead BY <1>3 DEF LinesRead
    <3>2. /\ IsAStream(sumsP)' /\ (LinesRead + Len(sumsP) = 0)'
          /\ (\A k \in 1 .. Len(sumsP) : sumsP[k] = ProductLine(LinesRead + k))'
      BY <1>2, <2>1, <2>5, <3>1
         DEF ProductsInv, IsAStream, ProductLine, Sum, FirstBatch, LanesAt, Index, Words, Undefined
    <3>3. (currentSumP = [k \in 0 .. noProd - 1 |-> Sum(LanesAt(k), FirstItems(TakenByProducts))])'
      BY <2>3, <2>6 DEF Sum, LanesAt, Index, Words, FirstItems, noProd
    <3>4. /\ (state = "COMPUTE" => 0 = 0 /\ productCounter = 0)'
          /\ (state = "WRITE" => 0 < HalfN /\ productCounter = 0 * N)'
          /\ (state = "REINIT" => 0 = HalfN)'
      BY <2>1, <2>5, <2>7, <2>8 DEF HalfN
    <3> QED BY <3>2, <3>3, <3>4 DEF ProductsInv
  <2>10. (\E v \in 0 .. HalfN : ProductsInv(v))' BY <2>8, <2>9 DEF HalfN
  <2> QED BY <1>8, <2>4, <2>10
<1>10. CASE WriteProducts
  <2>1. /\ state = "WRITE" /\ UNCHANGED <<data_2, currentSumP, sampleCounter>>
    BY <1>10 DEF WriteProducts
  <2>2. w < HalfN /\ productCounter = w * N /\ w \in Nat
    BY <1>2, <2>1, LineSizes DEF ProductsInv
  <2>3. t = regSampleSize /\ TakenByProducts' = t
    <3>1. state' # "COMPUTE"
      BY <1>10, <2>1 DEF WriteProducts, AfterWrite
    <3> QED BY <1>7, <2>1, <3>1 DEF TakenByProducts
  <2>4. ItemsNumbered'
    <3>1. /\ Numbered(s_axis_data, ReadBySums) /\ Numbered(lineData, TakenBySums)
          /\ Numbered(data_1, ReadBySquares) /\ Numbered(lineDataS, TakenBySquares)
          /\ Numbered(data_2, TakenByProducts)
      BY <1>1 DEF ItemsNumbered
    <3>2. /\ Numbered(s_axis_data', ReadBySums') /\ Numbered(lineData', TakenBySums')
          /\ Numbered(data_1', ReadBySquares') /\ Numbered(lineDataS', TakenBySquares')
          /\ Numbered(data_2', TakenByProducts')
      BY <1>3, <1>4, <1>7, <2>1, <2>3, <3>1, Zenon
    <3> QED BY <3>2 DEF ItemsNumbered, Numbered
  <2>5. /\ FullLine <=> w + 1 < HalfN
        /\ \A v \in Words : w * N + v < noProd <=> (w + 1 < HalfN \/ v < HalfN)
    BY <2>2, LineOfProducts DEF FullLine
  <2>6. PICK line : line = [data |-> [v \in Words |->
                                IF v < (IF FullLine THEN N ELSE M)
                                THEN currentSumP[productCounter + v] ELSE Undefined],
                            last |-> ~FullLine]
    OBVIOUS
  <2>7. sumsP' = Append(sumsP, line)
    BY <1>10, <2>6, Zenon DEF WriteProducts
  <2>8. line = ProductLine(w + 1)
    <3>1. ASSUME NEW v \in Words
          PROVE  (IF v < (IF FullLine THEN N ELSE M)
                  THEN currentSumP[productCounter + v] ELSE Undefined)
                 = (IF w * N + v < noProd THEN Sum(LanesAt(w * N + v), FirstBatch)
                                          ELSE Undefined)
      <4>1. v \in 0 .. N - 1 /\ M = HalfN BY LineSizes
      <4>2. v < (IF FullLine THEN N ELSE M) <=> w * N + v < noProd
        BY <2>5, <4>1, LineSizes
      <4>3. ASSUME w * N + v < noProd
            PROVE  currentSumP[w * N + v] = Sum(LanesAt(w * N + v), FirstBatch)
        <5>1. currentSumP = [k \in 0 .. noProd - 1 |-> Sum(LanesAt(k), FirstItems(t))]
          BY <1>2, <1>7 DEF ProductsInv
        <5>2. PICK k \in Nat : k = w * N + v BY <2>2, <4>1, LineSizes
        <5>3. noProd \in Int BY LineSizes
        <5>4. k \in 0 .. noProd - 1 BY <4>3, <5>2, <5>3
        <5>5. FirstItems(t) = FirstBatch BY <2>3 DEF FirstItems, FirstBatch
        <5> QED BY <5>1, <5>2, <5>4, <5>5
      <4> QED BY <2>2, <4>2, <4>3, Zenon
    <3>2. (w + 1) - 1 = w /\ (~FullLine <=> w + 1 = HalfN)
      BY <2>2, <2>5, LineSizes
    <3>3. [v \in Words |-> IF v < (IF FullLine THEN N ELSE M)
                           THEN currentSumP[productCounter + v] ELSE Undefined]
          = [v \in Words |-> LET k == ((w + 1) - 1) * N + v IN
                             IF k < noProd THEN Sum(LanesAt(k), FirstBatch) ELSE Undefined]
      BY <3>1, <3>2, Zenon
    <3>4. (~FullLine) = (w + 1 = HalfN) BY <3>2
    <3> QED BY <2>6, <3>3, <3>4, Zenon DEF ProductLine
  <2>9. w + 1 \in 0 .. HalfN BY <2>2, LineSizes
  <2>10. ProductsInv(w + 1)'
    <3>1. LinesRead' = LinesRead /\ LinesRead \in Nat
      BY <1>1, <1>3, LineSizes DEF LinesRead, WrittenInOrder
    <3>2. PICK r \in Nat : r = LinesRead BY <3>1
    <3>3. PICK s : s = sumsP OBVIOUS
    <3>4. IsAStream(s) /\ r + Len(s) = w /\ \A k \in 1 .. Len(s) : s[k] = ProductLine(r + k)
      BY <1>2, <3>2, <3>3 DEF ProductsInv
    <3>5. PICK g : g = Append(s, line) OBVIOUS
    <3>6. s \in Seq(Range(s) \cup {line}) BY <3>4, SeqMonotonic DEF IsAStream
    <3>7. PICK l \in Nat : l = Len(s) BY <3>6
    <3>8. Len(g) = l + 1 /\ (\A k \in 1 .. l : g[k] = s[k]) /\ g[l + 1] = line
      BY ONLY <3>5, <3>6, <3>7
    <3>9. r + (l + 1) = w + 1 BY <2>2, <3>2, <3>4, <3>7
    <3>10. \A k \in 1 .. l + 1 : g[k] = ProductLine(r + k)
      <4>1. \A k \in 1 .. l + 1 : k \in 1 .. l \/ k = l + 1 BY <3>7
      <4> QED BY <2>8, <3>4, <3>7, <3>8, <3>9, <4>1
    <3>11. IsAStream(g) BY <3>4, <3>5, StreamStep
    <3>12. /\ IsAStream(sumsP)' /\ (LinesRead + Len(sumsP) = w + 1)'
           /\ (\A k \in 1 .. Len(sumsP) : sumsP[k] = ProductLine(LinesRead + k))'
      <4>1. sumsP' = g /\ LinesRead' = r
        BY <2>7, <3>1, <3>2, <3>3, <3>5
      <4>2. Len(g) = l + 1 /\ r + Len(g) = w + 1
        BY <3>8, <3>9
      <4>3. IsAStream(sumsP)'
        BY <3>11, <4>1 DEF IsAStream
      <4>4. (LinesRead + Len(sumsP) = w + 1)'
        BY <4>1, <4>2
      <4>5. ASSUME NEW k \in 1 .. Len(sumsP')
            PROVE  sumsP'[k] = ProductLine(LinesRead' + k)
        BY <3>10, <4>1, <4>2
      <4> QED
        BY <4>3, <4>4, <4>5
           DEF ProductLine, Sum, FirstBatch, LanesAt, Index, Words, Undefined, HalfN
    <3>13. (currentSumP = [k \in 0 .. noProd - 1 |-> Sum(LanesAt(k), FirstItems(TakenByProducts))])'
      BY <1>2, <1>7, <2>1, <2>3 DEF ProductsInv, Sum, LanesAt, Index, Words, FirstItems, noProd
    <3>14. /\ (state = "COMPUTE" => w + 1 = 0 /\ productCounter = 0)'
           /\ (state = "WRITE" => w + 1 < HalfN /\ productCounter = (w + 1) * N)'
           /\ (state = "REINIT" => w + 1 = HalfN)'
      <4>1. CASE FullLine
        <5>1. state' = "WRITE" /\ productCounter' = w * N + N
          BY <1>10, <2>1, <2>2, <4>1 DEF WriteProducts
        <5>2. (w + 1) * N = w * N + N BY <2>2, LineSizes
        <5> QED BY <2>5, <4>1, <5>1, <5>2 DEF HalfN
      <4>2. CASE ~FullLine
        <5>1. state' = "REINIT" BY <1>10, <4>2 DEF WriteProducts, AfterWrite
        <5>2. w + 1 = HalfN BY <2>2, <2>5, <4>2, LineSizes
        <5> QED BY <5>1, <5>2 DEF HalfN
      <4> QED BY <4>1, <4>2
    <3> QED BY <3>12, <3>13, <3>14 DEF ProductsInv
  <2>11. (\E v \in 0 .. HalfN : ProductsInv(v))' BY <2>9, <2>10 DEF HalfN
  <2> QED BY <1>8, <2>4, <2>11
<1> QED BY <1>9, <1>10 DEF CmSumProducts

LEMMA WriteStep ==
    ASSUME LinesInv, CmWriteSums PROVE LinesInv'
<1>1. /\ ItemsFlow /\ ItemsFlow' /\ ItemsNumbered /\ WrittenInOrder
      /\ StageInv(TakenBySums, lineData, currentSum, sums, SumLanes, 0, lines_i)
      /\ StageInv(TakenBySquares, lineDataS, currentSumS, sumsS, SquareLanes, 1, lines_i)
  BY StepItemsFlow DEF LinesInv, FunctionNext
<1>2. PICK w \in 0 .. HalfN : ProductsInv(w)
  BY DEF LinesInv
<1>3. UNCHANGED <<s_axis_data, data_1, data_2, lineData, lineDataS, currentSum, currentSumS,
                  currentSumP, sampleCounter, productCounter, state>>
  BY DEF CmWriteSums
<1>4. /\ ReadBySums' = ReadBySums /\ TakenBySums' = TakenBySums
      /\ ReadBySquares' = ReadBySquares /\ TakenBySquares' = TakenBySquares
      /\ TakenByProducts' = TakenByProducts
  BY <1>3 DEF ReadBySums, TakenBySums, ReadBySquares, TakenBySquares, TakenByProducts
<1>5. ItemsNumbered'
  <2>1. /\ Numbered(s_axis_data, ReadBySums) /\ Numbered(lineData, TakenBySums)
        /\ Numbered(data_1, ReadBySquares) /\ Numbered(lineDataS, TakenBySquares)
        /\ Numbered(data_2, TakenByProducts)
    BY <1>1 DEF ItemsNumbered
  <2>2. /\ Numbered(s_axis_data', ReadBySums') /\ Numbered(lineData', TakenBySums')
        /\ Numbered(data_1', ReadBySquares') /\ Numbered(lineDataS', TakenBySquares')
        /\ Numbered(data_2', TakenByProducts')
    BY <1>3, <1>4, <2>1, Zenon
  <2> QED BY <2>2 DEF ItemsNumbered, Numbered
<1>6. PICK i \in Nat : i = lines_i /\ i <= HalfN + 2
  BY <1>1, LineSizes DEF WrittenInOrder
<1>7. PICK a, b \in Nat : a = TakenBySums /\ b = TakenBySquares
  BY <1>1, TakenAre
<1>8. regSampleSize \in Nat \ {0} BY FunctionAssumption
<1>9. PICK lines1 : lines1 = Stage1Line(SumLanes) OBVIOUS
<1>10. PICK lines2 : lines2 = Stage1Line(SquareLanes) OBVIOUS
<1>11. lines1' = lines1 /\ Stage1Line(SumLanes)' = lines1 /\ Stage1Line(SquareLanes)' = lines2
  BY <1>9, <1>10 DEF Stage1Line, SumLanes, SquareLanes, FirstBatch, Words, Sum
<1> DEFINE Stages(j, o1, o2) ==
      /\ StageInv(a, lineData, currentSum, o1, SumLanes, 0, j)
      /\ StageInv(b, lineDataS, currentSumS, o2, SquareLanes, 1, j)
<1>12. ASSUME Stages(i + 1, sums', sumsS'), WrittenInOrder', ProductsInv(w)', lines_i' = i + 1
       PROVE  LinesInv'
  <2>1. (\E v \in 0 .. HalfN : ProductsInv(v))' BY <1>12 DEF HalfN
  <2>2. StageInv(TakenBySums, lineData, currentSum, sums, SumLanes, 0, lines_i)'
    BY <1>3, <1>4, <1>7, <1>12
       DEF StageInv, NotSent, HasSent, SumLanes, IsAStream, FirstItems, Stage1Line, FirstBatch, Words,
           Sum
  <2>3. StageInv(TakenBySquares, lineDataS, currentSumS, sumsS, SquareLanes, 1, lines_i)'
    BY <1>3, <1>4, <1>7, <1>12
       DEF StageInv, NotSent, HasSent, SquareLanes, IsAStream, FirstItems, Stage1Line, FirstBatch, Words,
           Sum
  <2> QED BY <1>1, <1>5, <1>12, <2>1, <2>2, <2>3 DEF LinesInv
<1>13. Stages(i, sums, sumsS) BY <1>1, <1>6, <1>7
<1>14. CASE lines_i = 0 /\ TakeLine(sums) /\ UNCHANGED <<sumsS, sumsP>>
  <2>1. /\ i = 0 /\ sums # << >> /\ sums' = Tail(sums) /\ lines_i' = i + 1
        /\ m_axis_write_data' = Append(m_axis_write_data, Head(sums))
    BY <1>6, <1>14 DEF TakeLine
  <2>2. a >= regSampleSize /\ sums[1] = lines1 /\ IsAStream(sums)
    <3>1. HasSent(a, sums, SumLanes, 0, i) BY <1>13, <2>1 DEF StageInv, NotSent
    <3> QED BY <1>9, <1>13, <2>1, <3>1 DEF StageInv, HasSent
  <2>3. Head(sums) = Lines[i + 1] /\ IsAStream(Tail(sums))
    <3>1. Head(sums) = sums[1] BY <2>1, <2>2 DEF IsAStream
    <3> QED BY <1>9, <2>1, <2>2, <3>1, LinesAre, StreamStep
  <2>4. WrittenInOrder'
    BY <1>1, <1>6, <2>1, <2>3, LineSizes, WrittenStep
  <2>5. Stages(i + 1, sums', sumsS')
    <3>1. StageInv(a, lineData, currentSum, sums', SumLanes, 0, 1)
      BY <1>8, <1>13, <2>1, <2>2, <2>3 DEF StageInv, HasSent
    <3>2. StageInv(b, lineDataS, currentSumS, sumsS, SquareLanes, 1, 1)
      BY <1>13, <2>1 DEF StageInv, NotSent, HasSent
    <3> QED BY <1>14, <2>1, <3>1, <3>2
  <2>6. LinesRead' = LinesRead BY <1>6, <2>1 DEF LinesRead
  <2>7. ProductsInv(w)'
    BY <1>2, <1>3, <1>4, <1>14, <2>6
       DEF ProductsInv, IsAStream, FirstItems, ProductLine, HalfN
  <2> QED BY <1>12, <2>1, <2>4, <2>5, <2>7
<1>15. CASE lines_i = 1 /\ TakeLine(sumsS) /\ UNCHANGED <<sums, sumsP>>
  <2>1. /\ i = 1 /\ sumsS # << >> /\ sumsS' = Tail(sumsS) /\ lines_i' = i + 1
        /\ m_axis_write_data' = Append(m_axis_write_data, Head(sumsS))
    BY <1>6, <1>15 DEF TakeLine
  <2>2. b >= regSampleSize /\ sumsS[1] = lines2 /\ IsAStream(sumsS)
    <3>1. HasSent(b, sumsS, SquareLanes, 1, i) BY <1>13, <2>1 DEF StageInv, NotSent
    <3> QED BY <1>10, <1>13, <2>1, <3>1 DEF StageInv, HasSent
  <2>3. Head(sumsS) = Lines[i + 1] /\ IsAStream(Tail(sumsS))
    <3>1. Head(sumsS) = sumsS[1] BY <2>1, <2>2 DEF IsAStream
    <3> QED BY <1>10, <2>1, <2>2, <3>1, LinesAre, StreamStep
  <2>4. WrittenInOrder'
    BY <1>1, <1>6, <2>1, <2>3, LineSizes, WrittenStep
  <2>5. Stages(i + 1, sums', sumsS')
    <3>1. StageInv(b, lineDataS, currentSumS, sumsS', SquareLanes, 1, 2)
      BY <1>8, <1>13, <2>1, <2>2, <2>3 DEF StageInv, HasSent
    <3>2. StageInv(a, lineData, currentSum, sums, SumLanes, 0, 2)
      <4>1. HasSent(a, sums, SumLanes, 0, i) BY <1>13, <2>1 DEF StageInv, NotSent
      <4> QED BY <1>13, <2>1, <4>1 DEF StageInv, HasSent
    <3> QED BY <1>15, <2>1, <3>1, <3>2
  <2>6. LinesRead' = LinesRead BY <1>6, <2>1 DEF LinesRead
  <2>7. ProductsInv(w)'
    BY <1>2, <1>3, <1>4, <1>15, <2>6
       DEF ProductsInv, IsAStream, FirstItems, ProductLine, HalfN
  <2> QED BY <1>12, <2>1, <2>4, <2>5, <2>7
<1>16. CASE OnlyProducts /\ TakeLine(sumsP) /\ UNCHANGED <<sums, sumsS>>
  <2>1. /\ i > 1 /\ sumsP # << >> /\ sumsP' = Tail(sumsP) /\ lines_i' = i + 1
        /\ m_axis_write_data' = Append(m_axis_write_data, Head(sumsP))
    BY <1>6, <1>16 DEF TakeLine, OnlyProducts
  <2>2. PICK r \in Nat : r = LinesRead /\ i = r + 2 /\ LinesRead' = r + 1
    <3>1. LinesRead = i - 2 /\ i - 2 \in Nat /\ LinesRead' = (i - 2) + 1
      BY <1>6, <2>1 DEF LinesRead
    <3> QED BY <1>6, <3>1
  <2>3. PICK s : s = sumsP OBVIOUS
  <2>4. IsAStream(s) /\ r + Len(s) = w /\ \A k \in 1 .. Len(s) : s[k] = ProductLine(r + k)
    BY <1>2, <2>2, <2>3 DEF ProductsInv
  <2>5. s \in Seq(Range(s)) /\ s # << >> BY <2>1, <2>3, <2>4 DEF IsAStream
  <2>6. PICK g : g = Tail(s) OBVIOUS
  <2>7. PICK l \in Nat : l + 1 = Len(s) /\ l = Len(g) /\ \A k \in 1 .. l : g[k] = s[k + 1]
    BY <2>5, <2>6
  <2>8. Head(s) = s[1] /\ s[1] = ProductLine(r + 1) /\ r + (l + 1) = w
    BY <2>4, <2>5, <2>7
  <2>9. r + 1 \in 1 .. HalfN /\ (r + 1) + 2 = i + 1 BY <2>2, <2>7, <2>8, LineSizes
  <2>10. Head(sumsP) = Lines[i + 1]
    BY <2>3, <2>8, <2>9, LinesAre
  <2>11. WrittenInOrder'
    <3>1. i < HalfN + 2 BY <2>2, <2>9, LineSizes
    <3> QED BY <1>1, <1>6, <2>1, <2>10, <3>1, WrittenStep
  <2>12. Stages(i + 1, sums', sumsS')
    <3>1. ~(i <= 0) /\ ~(i <= 1) /\ ~(i + 1 <= 0) /\ ~(i + 1 <= 1) BY <2>1
    <3>2. HasSent(a, sums, SumLanes, 0, i) /\ HasSent(b, sumsS, SquareLanes, 1, i)
      BY <1>13, <3>1 DEF StageInv, NotSent
    <3> QED BY <1>13, <1>16, <3>1, <3>2 DEF StageInv, HasSent
  <2>13. \A k \in 1 .. l : g[k] = ProductLine((r + 1) + k)
    <3>1. \A k \in 1 .. l : k + 1 \in 1 .. Len(s) /\ r + (k + 1) = (r + 1) + k
      BY <2>7
    <3> QED BY <2>4, <2>7, <3>1
  <2>14. ProductsInv(w)'
    <3>1. /\ IsAStream(g) /\ (r + 1) + l = w /\ Len(g) = l
          /\ sumsP' = g /\ LinesRead' = r + 1
      <4>1. IsAStream(g) BY <2>4, <2>5, <2>6, StreamStep
      <4>2. (r + 1) + l = w BY <2>8
      <4>3. sumsP' = g /\ LinesRead' = r + 1 BY <2>1, <2>2, <2>3, <2>6
      <4> QED BY <2>7, <4>1, <4>2, <4>3
    <3>2. /\ IsAStream(sumsP)' /\ (LinesRead + Len(sumsP) = w)'
          /\ (\A k \in 1 .. Len(sumsP) : sumsP[k] = ProductLine(LinesRead + k))'
      <4>1. IsAStream(sumsP)' BY <3>1 DEF IsAStream
      <4>2. (LinesRead + Len(sumsP) = w)' BY <3>1
      <4>3. ASSUME NEW k \in 1 .. Len(sumsP')
            PROVE  sumsP'[k] = ProductLine(LinesRead' + k)
        BY <2>13, <3>1
      <4> QED
        BY <4>1, <4>2, <4>3
           DEF ProductLine, Sum, FirstBatch, LanesAt, Index, Words, Undefined, HalfN
    <3> QED BY <1>2, <1>3, <1>4, <3>2 DEF ProductsInv, FirstItems, HalfN
  <2> QED BY <1>12, <2>1, <2>11, <2>12, <2>14
<1> QED BY <1>14, <1>15, <1>16 DEF CmWriteSums

LEMMA StepLinesInv == LinesInv /\ [FunctionNext]_functionVars => LinesInv'
<1> SUFFICES ASSUME LinesInv, [FunctionNext]_functionVars PROVE LinesInv'
  OBVIOUS
<1>1. CASE UNCHANGED functionVars
  BY <1>1 DEF functionVars, LinesInv, ItemsFlow, ItemsNumbered, ReadBySums, TakenBySums,
     ReadBySquares, TakenBySquares, TakenByProducts, WrittenInOrder, StageInv, NotSent, HasSent,
     ProductsInv, LinesRead, Numbered
<1> QED
  BY <1>1, SumsStep, SquaresStep, ProductsStep, WriteStep DEF FunctionNext

(* Whatever the order of the processes and the items behind the batch, the *)
(* function-style kernel writes the lines of its first batch, whole and in *)
(* order, and nothing else: for any width, batch and stream depths.        *)
THEOREM FirstBatchWritten == FunctionSpec => []OneBatchInOrder
<1>1. LinesInv => OneBatchInOrder
  <2> SUFFICES ASSUME LinesInv PROVE OneBatchInOrder
    OBVIOUS
  <2>1. /\ IsAStream(m_axis_write_data) /\ Len(m_axis_write_data) <= HalfN + 2
        /\ \A k \in 1 .. Len(m_axis_write_data) : m_axis_write_data[k] = Lines[k]
    BY LineSizes DEF LinesInv, WrittenInOrder
  <2> QED BY <2>1, LinesAre, PrefixByWords DEF OneBatchInOrder
<1> QED BY <1>1, InitLinesInv, StepLinesInv, PTL DEF FunctionSpec
-----------------------------------------------------------------------------
(* Every non-empty set of naturals has a least element. *)
LEMMA LeastNatural ==
    ASSUME NEW T, T \subseteq Nat, T # {}
    PROVE  \E m \in T : \A k \in T : m <= k
<1>1. IsWellFoundedOn(OpToRel(<, Nat), Nat)
  BY NatLessThanWellFounded
<1>2. \E m \in T : \A k \in T : ~ (<<k, m>> \in OpToRel(<, Nat))
  BY <1>1, WFMin
<1>3. \A k, m \in Nat : ~(<<k, m>> \in OpToRel(<, Nat)) => m <= k
  BY DEF OpToRel
<1> QED BY <1>2, <1>3

(* Induction over the naturals, for a set in place of a predicate. *)
LEMMA SetInduction ==
    ASSUME NEW S, 0 \in S, \A n \in Nat : n \in S => n + 1 \in S
    PROVE  Nat \subseteq S
<1> SUFFICES ASSUME Nat \ S # {} PROVE FALSE
  OBVIOUS
<1>1. PICK m \in Nat \ S : \A k \in Nat \ S : m <= k
  BY LeastNatural
<1>2. m # 0 /\ m - 1 \in Nat /\ m - 1 \notin Nat \ S
  BY <1>1
<1> QED BY <1>1, <1>2

(* Words, and what From selects of a sequence of them.                     *)
MergedWord == [package : Nat, place : Nat, dest : {0, 1}, last : BOOLEAN]
WordTo(i) == {w \in MergedWord : w.dest = i}

Selected(i, words, w) == IF w.dest = i THEN Append(words, w) ELSE words

IsUpTo(g, i, words, n) ==
    g = [k \in 0 .. n |->
            IF k = 0 THEN << >>
            ELSE IF words[k].dest = i THEN Append(g[k - 1], words[k])
            ELSE g[k - 1]]

(* A function that satisfies the recursion of From is the one it defines.  *)
LEMMA FromIs ==
    ASSUME NEW i, NEW words, Len(words) \in Nat, NEW g, IsUpTo(g, i, words, Len(words))
    PROVE  From(i, words) = g[Len(words)]
<1> DEFINE n == Len(words)
           s == CHOOSE f : f = [k \in 0 .. Len(words) |->
                    IF k = 0 THEN << >>
                    ELSE IF words[k].dest = i THEN Append(f[k - 1], words[k])
                    ELSE f[k - 1]]
<1>1. s = [k \in 0 .. n |->
              IF k = 0 THEN << >>
              ELSE IF words[k].dest = i THEN Append(s[k - 1], words[k])
              ELSE s[k - 1]]
  BY DEF IsUpTo
<1>2. From(i, words) = s[n]
  BY DEF From
<1> HIDE DEF s
<1> DEFINE Same == {k \in Nat : k <= n => s[k] = g[k]}
<1>3. 0 \in Same
  <2>1. 0 \in 0 .. n OBVIOUS
  <2>2. s[0] = << >> BY <1>1, <2>1
  <2>3. g[0] = << >> BY <2>1 DEF IsUpTo
  <2> QED BY <2>2, <2>3
<1>4. ASSUME NEW k \in Nat, k \in Same, k + 1 <= n PROVE s[k + 1] = g[k + 1]
  <2>1. k + 1 \in 0 .. n /\ k + 1 # 0 /\ (k + 1) - 1 = k /\ s[k] = g[k] BY <1>4
  <2>2. s[k + 1] = IF words[k + 1].dest = i THEN Append(s[k], words[k + 1]) ELSE s[k]
    BY <1>1, <2>1
  <2>3. g[k + 1] = IF words[k + 1].dest = i THEN Append(g[k], words[k + 1]) ELSE g[k]
    BY <2>1 DEF IsUpTo
  <2> QED BY <2>1, <2>2, <2>3
<1>5. \A k \in Nat : k \in Same => k + 1 \in Same
  BY <1>4
<1> HIDE DEF Same
<1>6. Nat \subseteq Same
  BY <1>3, <1>5, SetInduction
<1> QED BY <1>2, <1>6 DEF Same

(* One more word on the recursion of From.                                 *)
LEMMA UpToNext ==
    ASSUME NEW i, NEW words \in Seq(MergedWord), NEW n \in Nat, n + 1 <= Len(words),
           NEW g \in [0 .. n -> Seq(WordTo(i))], IsUpTo(g, i, words, n)
    PROVE  \E h \in [0 .. n + 1 -> Seq(WordTo(i))] :
              /\ IsUpTo(h, i, words, n + 1)
              /\ h[n + 1] = Selected(i, g[n], words[n + 1])
<1> DEFINE w == words[n + 1]
           next == IF w.dest = i THEN Append(g[n], w) ELSE g[n]
           h == [k \in 0 .. n + 1 |-> IF k = n + 1 THEN next ELSE g[k]]
<1>1. w \in MergedWord /\ g[n] \in Seq(WordTo(i))
  OBVIOUS
<1>2. next \in Seq(WordTo(i))
  BY <1>1 DEF WordTo
<1> HIDE DEF next
<1>3. h \in [0 .. n + 1 -> Seq(WordTo(i))]
  BY <1>2
<1>4. ASSUME NEW k \in 0 .. n + 1
      PROVE  h[k] = IF k = 0 THEN << >>
                    ELSE IF words[k].dest = i THEN Append(h[k - 1], words[k]) ELSE h[k - 1]
  <2>1. CASE k = n + 1
    <3>1. h[k] = next /\ k # 0 /\ k - 1 = n /\ n \in 0 .. n + 1 /\ n # n + 1
      BY <2>1
    <3>2. h[k - 1] = g[n]
      BY <3>1
    <3> QED BY <3>1, <3>2, <2>1 DEF next
  <2>2. CASE k # n + 1
    <3>1. k \in 0 .. n /\ h[k] = g[k] BY <2>2
    <3>2. k # 0 => k - 1 \in 0 .. n /\ h[k - 1] = g[k - 1] BY <3>1
    <3>3. g[k] = IF k = 0 THEN << >>
                 ELSE IF words[k].dest = i THEN Append(g[k - 1], words[k]) ELSE g[k - 1]
      BY <3>1 DEF IsUpTo
    <3> QED BY <3>1, <3>2, <3>3
  <2> QED BY <2>1, <2>2
<1>5. h = [k \in 0 .. n + 1 |-> h[k]]
  OBVIOUS
<1>6. h[n + 1] = next
  OBVIOUS
<1> HIDE DEF h
<1>7. IsUpTo(h, i, words, n + 1)
  BY <1>4, <1>5 DEF IsUpTo
<1> QED BY <1>3, <1>6, <1>7 DEF next, Selected

(* The recursion of From has a solution.                                   *)
LEMMA UpToExists ==
    ASSUME NEW i, NEW words \in Seq(MergedWord)
    PROVE  \E g \in [0 .. Len(words) -> Seq(WordTo(i))] : IsUpTo(g, i, words, Len(words))
<1> DEFINE Built == {n \in Nat : n <= Len(words) =>
                        \E g \in [0 .. n -> Seq(WordTo(i))] : IsUpTo(g, i, words, n)}
<1>1. 0 \in Built
  <2> DEFINE g == [k \in 0 .. 0 |-> << >>]
  <2>1. g \in [0 .. 0 -> Seq(WordTo(i))] /\ IsUpTo(g, i, words, 0)
    BY DEF IsUpTo
  <2> QED BY <2>1
<1>2. ASSUME NEW n \in Nat, n \in Built PROVE n + 1 \in Built
  <2> SUFFICES ASSUME n + 1 <= Len(words)
               PROVE  \E g \in [0 .. n + 1 -> Seq(WordTo(i))] : IsUpTo(g, i, words, n + 1)
    OBVIOUS
  <2>1. PICK g \in [0 .. n -> Seq(WordTo(i))] : IsUpTo(g, i, words, n)
    BY <1>2
  <2> QED BY <2>1, UpToNext
<1> HIDE DEF Built
<1>3. Nat \subseteq Built
  BY <1>1, <1>2, SetInduction
<1> QED BY <1>3 DEF Built

LEMMA FromType ==
    ASSUME NEW i, NEW words \in Seq(MergedWord)
    PROVE  From(i, words) \in Seq(WordTo(i))
<1>1. PICK g \in [0 .. Len(words) -> Seq(WordTo(i))] : IsUpTo(g, i, words, Len(words))
  BY UpToExists
<1>2. From(i, words) = g[Len(words)]
  BY <1>1, FromIs
<1> QED BY <1>2

LEMMA FromEmpty == ASSUME NEW i PROVE From(i, << >>) = << >>
<1> DEFINE g == [k \in 0 .. 0 |-> << >>]
<1>1. IsUpTo(g, i, << >>, 0) /\ g[0] = << >> BY DEF IsUpTo
<1> HIDE DEF g
<1>2. Len(<< >>) = 0 OBVIOUS
<1> QED BY <1>1, <1>2, FromIs

(* A word more is a word more of its own input.                            *)
LEMMA FromAppend ==
    ASSUME NEW i, NEW words \in Seq(MergedWord), NEW w \in MergedWord
    PROVE  From(i, Append(words, w)) = Selected(i, From(i, words), w)
<1>1. PICK more \in Seq(MergedWord), n \in Nat :
          /\ more = Append(words, w) /\ n = Len(words) /\ Len(more) = n + 1
          /\ \A k \in 1 .. n : more[k] = words[k]
          /\ more[n + 1] = w
  <2>1. /\ Append(words, w) \in Seq(MergedWord) /\ Len(words) \in Nat
        /\ Len(Append(words, w)) = Len(words) + 1
        /\ \A k \in 1 .. Len(words) : Append(words, w)[k] = words[k]
        /\ Append(words, w)[Len(words) + 1] = w
    OBVIOUS
  <2> QED BY ONLY <2>1
<1>2. PICK g \in [0 .. n -> Seq(WordTo(i))] : IsUpTo(g, i, words, n)
  <2>1. \E g \in [0 .. Len(words) -> Seq(WordTo(i))] : IsUpTo(g, i, words, Len(words))
    BY ONLY UpToExists
  <2> QED BY <1>1, <2>1
<1>3. IsUpTo(g, i, more, n)
  <2>1. ASSUME NEW k \in 0 .. n
        PROVE  g[k] = IF k = 0 THEN << >>
                      ELSE IF more[k].dest = i THEN Append(g[k - 1], more[k]) ELSE g[k - 1]
    <3>1. g[k] = IF k = 0 THEN << >>
                 ELSE IF words[k].dest = i THEN Append(g[k - 1], words[k]) ELSE g[k - 1]
      BY <1>2 DEF IsUpTo
    <3>2. k # 0 => more[k] = words[k]
      BY <1>1
    <3> QED BY <3>1, <3>2
  <2>2. g = [k \in 0 .. n |-> g[k]]
    BY <1>2
  <2> QED BY <2>1, <2>2 DEF IsUpTo
<1>4. PICK h \in [0 .. n + 1 -> Seq(WordTo(i))] :
          /\ IsUpTo(h, i, more, n + 1)
          /\ h[n + 1] = Selected(i, g[n], more[n + 1])
  <2>1. n + 1 <= Len(more) BY <1>1
  <2> QED BY ONLY more \in Seq(MergedWord), n \in Nat, g \in [0 .. n -> Seq(WordTo(i))],
                  <1>3, <2>1, UpToNext, Zenon
<1>5. From(i, words) = g[n]
  BY <1>1, <1>2, FromIs
<1>6. From(i, more) = h[n + 1]
  <2>1. Len(more) \in Nat /\ IsUpTo(h, i, more, Len(more)) BY <1>1, <1>4
  <2>2. From(i, more) = h[Len(more)] BY <2>1, FromIs
  <2> QED BY <1>1, <2>2
<1> QED BY <1>1, <1>4, <1>5, <1>6
-----------------------------------------------------------------------------
(* One sequence is how another one begins.                                 *)
Begins(s, t) == Len(s) <= Len(t) /\ \A k \in 1 .. Len(s) : s[k] = t[k]

LEMMA BeginsIsPrefix ==
    ASSUME NEW S, NEW s \in Seq(S), NEW t \in Seq(S), Begins(s, t)
    PROVE  IsPrefix(s, t)
<1>1. /\ Len(s) \in Nat /\ Len(t) \in Nat /\ Len(s) <= Len(t)
      /\ \A k \in 1 .. Len(s) : s[k] = t[k]
  BY DEF Begins
<1>2. SubSeq(s, 1, Len(s)) = s
  OBVIOUS
<1>3. SubSeq(t, 1, Len(s)) = s
  <2>1. /\ SubSeq(t, 1, Len(s)) \in Seq(S)
        /\ Len(SubSeq(t, 1, Len(s))) = Len(s)
        /\ \A k \in 1 .. Len(s) : SubSeq(t, 1, Len(s))[k] = t[k]
    BY <1>1, SubSeqProperties
  <2> QED BY <1>1, <2>1, SeqEqual
<1> QED BY <1>1, <1>2, <1>3 DEF IsPrefix

LEMMA PrefixNext ==
    ASSUME NEW S, NEW s \in Seq(S), NEW k \in Nat, k < Len(s)
    PROVE  /\ SubSeq(s, 1, k) \in Seq(S) /\ Len(SubSeq(s, 1, k)) = k
           /\ SubSeq(s, 1, k + 1) = Append(SubSeq(s, 1, k), s[k + 1])
           /\ s[k + 1] \in S
  OBVIOUS

LEMMA Prefix ==
    ASSUME NEW S, NEW s \in Seq(S), NEW k \in Nat, k <= Len(s)
    PROVE  /\ SubSeq(s, 1, k) \in Seq(S) /\ Len(SubSeq(s, 1, k)) = k
           /\ \A j \in 1 .. k : SubSeq(s, 1, k)[j] = s[j]
  OBVIOUS

LEMMA AppendedTo ==
    ASSUME NEW S, NEW s \in Seq(S), NEW e \in S
    PROVE  /\ Append(s, e) \in Seq(S) /\ Len(Append(s, e)) = Len(s) + 1
           /\ \A k \in 1 .. Len(s) : Append(s, e)[k] = s[k]
           /\ Append(s, e)[Len(s) + 1] = e
  OBVIOUS

(* The words of an input among the first k + 1, from those among the first *)
(* k.                                                                      *)
LEMMA FromNext ==
    ASSUME NEW i, NEW words \in Seq(MergedWord), NEW k \in Nat, k < Len(words)
    PROVE  From(i, SubSeq(words, 1, k + 1)) =
               Selected(i, From(i, SubSeq(words, 1, k)), words[k + 1])
<1>1. /\ SubSeq(words, 1, k) \in Seq(MergedWord) /\ words[k + 1] \in MergedWord
      /\ SubSeq(words, 1, k + 1) = Append(SubSeq(words, 1, k), words[k + 1])
  BY PrefixNext
<1> QED BY <1>1, FromAppend

LEMMA FromPrefix ==
    ASSUME NEW i, NEW words \in Seq(MergedWord), NEW k \in Nat, k <= Len(words)
    PROVE  /\ From(i, SubSeq(words, 1, k)) \in Seq(WordTo(i))
           /\ Len(From(i, SubSeq(words, 1, k))) \in Nat
<1>1. SubSeq(words, 1, k) \in Seq(MergedWord)
  BY Prefix
<1>2. From(i, SubSeq(words, 1, k)) \in Seq(WordTo(i))
  BY <1>1, FromType
<1> HIDE DEF WordTo
<1> QED BY <1>2, LenProperties

LEMMA FromGrows ==
    ASSUME NEW i, NEW words \in Seq(MergedWord), NEW j \in Nat, NEW k \in Nat,
           j <= k, k <= Len(words)
    PROVE  Begins(From(i, SubSeq(words, 1, j)), From(i, SubSeq(words, 1, k)))
<1> DEFINE f(m) == From(i, SubSeq(words, 1, m))
           Grown == {d \in Nat : j + d <= Len(words) => Begins(f(j), f(j + d))}
<1>1. 0 \in Grown
  <2>1. j + 0 = j OBVIOUS
  <2>2. j <= Len(words) BY LenProperties
  <2>3. Len(f(j)) \in Nat BY <2>2, FromPrefix
  <2> QED BY <2>1, <2>3 DEF Begins
<1>2. ASSUME NEW d \in Nat, d \in Grown PROVE d + 1 \in Grown
  <2> SUFFICES ASSUME j + (d + 1) <= Len(words) PROVE Begins(f(j), f(j + (d + 1)))
    OBVIOUS
  <2>1. j + d \in Nat /\ j + d < Len(words) /\ j + d <= Len(words)
        /\ j + (d + 1) = (j + d) + 1
    OBVIOUS
  <2>2. Begins(f(j), f(j + d))
    BY <1>2, <2>1
  <2>3. /\ f(j) \in Seq(WordTo(i)) /\ f(j + d) \in Seq(WordTo(i))
        /\ words[(j + d) + 1] \in MergedWord
    <3>1. j <= Len(words) BY LenProperties
    <3> QED BY <2>1, <3>1, FromPrefix
  <2>4. f((j + d) + 1) = Selected(i, f(j + d), words[(j + d) + 1])
    BY <2>1, FromNext
  <2> HIDE DEF f
  <2>5. CASE words[(j + d) + 1].dest = i
    <3>1. words[(j + d) + 1] \in WordTo(i) BY <2>3, <2>5 DEF WordTo
    <3>2. f((j + d) + 1) = Append(f(j + d), words[(j + d) + 1])
      BY <2>4, <2>5 DEF Selected
    <3>3. /\ Len(f((j + d) + 1)) = Len(f(j + d)) + 1
          /\ \A m \in 1 .. Len(f(j + d)) : f((j + d) + 1)[m] = f(j + d)[m]
      <4> DEFINE s == f(j + d)
                 e == words[(j + d) + 1]
      <4>1. s \in Seq(WordTo(i)) /\ e \in WordTo(i) BY <2>3, <3>1
      <4> HIDE DEF s, e
      <4>2. /\ Len(Append(s, e)) = Len(s) + 1
            /\ \A m \in 1 .. Len(s) : Append(s, e)[m] = s[m]
        BY ONLY <4>1, AppendedTo
      <4> QED BY <3>2, <4>2 DEF s, e
    <3>4. Len(f(j)) \in Nat /\ Len(f(j + d)) \in Nat BY <2>3
    <3> QED BY <2>1, <2>2, <3>3, <3>4 DEF Begins
  <2>6. CASE words[(j + d) + 1].dest # i
    BY <2>1, <2>2, <2>4, <2>6 DEF Selected
  <2> QED BY <2>5, <2>6
<1> HIDE DEF Grown
<1>3. Nat \subseteq Grown
  BY <1>1, <1>2, SetInduction
<1>4. k - j \in Nat /\ j + (k - j) = k
  OBVIOUS
<1>5. k - j \in Grown
  BY <1>3, <1>4
<1> QED BY <1>4, <1>5 DEF Grown

(* Packages one after another: the next word is of the next package when   *)
(* the word was its package's last, of the same package otherwise.         *)
Packed(words, packages) ==
    /\ words \in Seq(MergedWord)
    /\ \A k \in 1 .. Len(words) :
          /\ words[k].package \in 1 .. Len(packages)
          /\ words[k].dest = packages[words[k].package].dest
    /\ words # << >> => words[1].package = 1
    /\ \A k \in 1 .. Len(words) - 1 :
          words[k + 1].package =
              IF words[k].last THEN words[k].package + 1 ELSE words[k].package

(* The words of one input are the words of whole packages.                 *)
Linked(words) ==
    \A k \in 1 .. Len(words) - 1 :
        words[k].last \/ words[k + 1].package = words[k].package

LEMMA LinkedAppend ==
    ASSUME NEW words \in Seq(MergedWord), NEW w \in MergedWord, Linked(words),
           words # << >> => \/ words[Len(words)].last
                            \/ w.package = words[Len(words)].package
    PROVE  Linked(Append(words, w))
<1>1. /\ Append(words, w) \in Seq(MergedWord) /\ Len(words) \in Nat
      /\ Len(Append(words, w)) = Len(words) + 1
      /\ \A k \in 1 .. Len(words) : Append(words, w)[k] = words[k]
      /\ Append(words, w)[Len(words) + 1] = w
  OBVIOUS
<1> SUFFICES ASSUME NEW k \in 1 .. Len(words)
             PROVE  \/ Append(words, w)[k].last
                    \/ Append(words, w)[k + 1].package = Append(words, w)[k].package
  BY <1>1 DEF Linked
<1>2. CASE k = Len(words)
  <2>1. words # << >> BY <1>2
  <2> QED BY <1>1, <1>2, <2>1
<1>3. CASE k # Len(words)
  <2>1. k \in 1 .. Len(words) - 1 /\ k + 1 \in 1 .. Len(words) BY <1>1, <1>3
  <2>2. words[k].last \/ words[k + 1].package = words[k].package BY <2>1 DEF Linked
  <2> QED BY <1>1, <2>1, <2>2
<1> QED BY <1>2, <1>3

LEMMA FromLinked ==
    ASSUME NEW i, NEW packages, NEW words, Packed(words, packages)
    PROVE  Linked(From(i, words))
<1> DEFINE f(m) == From(i, SubSeq(words, 1, m))
           Open(m) == f(m) # << >> /\ ~f(m)[Len(f(m))].last
           Good == {m \in Nat : m <= Len(words) =>
                        /\ Linked(f(m))
                        /\ Open(m) => m > 0 /\ f(m)[Len(f(m))] = words[m]}
<1>0. words \in Seq(MergedWord) /\ Len(words) \in Nat
  BY DEF Packed
<1>1. 0 \in Good
  <2>1. SubSeq(words, 1, 0) = << >> BY <1>0
  <2>2. f(0) = << >> BY <2>1, FromEmpty
  <2>3. Len(<< >>) = 0 OBVIOUS
  <2> QED BY <2>2, <2>3 DEF Linked
<1>2. ASSUME NEW m \in Nat, m \in Good PROVE m + 1 \in Good
  <2> SUFFICES ASSUME m + 1 <= Len(words)
               PROVE  /\ Linked(f(m + 1))
                      /\ Open(m + 1) => f(m + 1)[Len(f(m + 1))] = words[m + 1]
    OBVIOUS
  <2> DEFINE w == words[m + 1]
  <2>1. m < Len(words) /\ m <= Len(words) BY <1>0
  <2>2. Linked(f(m)) /\ (Open(m) => m > 0 /\ f(m)[Len(f(m))] = words[m])
    BY <1>2, <2>1
  <2>3. f(m) \in Seq(WordTo(i)) /\ f(m) \in Seq(MergedWord) /\ w \in MergedWord
    <3>1. SubSeq(words, 1, m) \in Seq(MergedWord) BY <1>0, <2>1, Prefix
    <3>2. f(m) \in Seq(WordTo(i)) BY <3>1, FromType
    <3>3. WordTo(i) \subseteq MergedWord BY DEF WordTo
    <3> QED BY <1>0, <2>1, <3>2, <3>3
  <2>4. f(m + 1) = Selected(i, f(m), w)
    BY <1>0, <2>1, FromNext
  <2>5. Open(m) => /\ m \in 1 .. Len(words) - 1 /\ words[m] = f(m)[Len(f(m))]
                   /\ words[m].dest = i /\ w.package = words[m].package
    <3> SUFFICES ASSUME Open(m)
                 PROVE  /\ m \in 1 .. Len(words) - 1 /\ words[m] = f(m)[Len(f(m))]
                        /\ words[m].dest = i /\ w.package = words[m].package
      OBVIOUS
    <3>1. m \in 1 .. Len(words) - 1 /\ words[m] = f(m)[Len(f(m))] /\ ~words[m].last
      BY <1>0, <2>1, <2>2
    <3>2. f(m)[Len(f(m))] \in WordTo(i)
      BY <2>3
    <3>3. w.package = words[m].package
      BY <3>1 DEF Packed
    <3> QED BY <3>1, <3>2, <3>3 DEF WordTo
  <2> HIDE DEF f, w
  <2>6. CASE w.dest = i
    <3>1. f(m + 1) = Append(f(m), w) BY <2>4, <2>6 DEF Selected
    <3>2. f(m) # << >> => f(m)[Len(f(m))].last \/ w.package = f(m)[Len(f(m))].package
      BY <2>5
    <3>3. Linked(f(m + 1))
      BY <2>2, <2>3, <3>1, <3>2, LinkedAppend
    <3>4. f(m + 1)[Len(f(m + 1))] = w
      BY <2>3, <3>1, AppendedTo
    <3> QED BY <3>3, <3>4 DEF w
  <2>7. CASE w.dest # i
    <3>1. f(m + 1) = f(m) BY <2>4, <2>7 DEF Selected
    <3>2. ~Open(m)
      <4> SUFFICES ASSUME Open(m) PROVE FALSE
        OBVIOUS
      <4>1. /\ m \in 1 .. Len(words) - 1 /\ words[m].dest = i
            /\ w.package = words[m].package
        BY <2>5
      <4>2. /\ words[m].dest = packages[words[m].package].dest
            /\ w.dest = packages[w.package].dest
        <5>1. m \in 1 .. Len(words) /\ m + 1 \in 1 .. Len(words) BY <1>0, <4>1
        <5>2. /\ words[m].dest = packages[words[m].package].dest
              /\ words[m + 1].dest = packages[words[m + 1].package].dest
          BY <5>1 DEF Packed
        <5> QED BY <5>2 DEF w
      <4> QED BY <4>1, <4>2, <2>7
    <3> QED BY <2>2, <3>1, <3>2
  <2> QED BY <2>6, <2>7
<1> HIDE DEF Good
<1>3. Nat \subseteq Good
  BY <1>1, <1>2, SetInduction
<1>4. SubSeq(words, 1, Len(words)) = words
  BY <1>0
<1>5. Len(words) \in Good
  BY <1>0, <1>3
<1>6. Linked(f(Len(words)))
  BY <1>0, <1>5 DEF Good
<1> QED BY <1>4, <1>6
-----------------------------------------------------------------------------
(* The words of a package, and of the first packages of a plan.            *)
Plan == Seq([dest : {0, 1}, length : Nat \ {0}])
WordsOfPackage(packages, p) ==
    [k \in 1 .. packages[p].length |->
        [package |-> p, place |-> k, dest |-> packages[p].dest,
         last |-> k = packages[p].length]]

PackedTo(words, packages, n) ==
    /\ Packed(words, packages)
    /\ words # << >>
    /\ words[Len(words)].last /\ words[Len(words)].package = n

LEMMA PackageWordsType ==
    ASSUME NEW packages \in Plan, NEW p \in 1 .. Len(packages)
    PROVE  LET words == WordsOfPackage(packages, p) IN
           /\ words \in Seq(MergedWord) /\ Len(words) \in Nat \ {0}
           /\ \A k \in 1 .. Len(words) :
                 /\ words[k].package = p /\ words[k].dest = packages[p].dest
                 /\ words[k].last <=> k = Len(words)
<1> DEFINE words == WordsOfPackage(packages, p)
<1>1. /\ packages[p].dest \in {0, 1} /\ packages[p].length \in Nat \ {0}
      /\ p \in Nat
  <2> DEFINE S == [dest : {0, 1}, length : Nat \ {0}]
  <2>1. packages \in Seq(S) BY DEF Plan
  <2> HIDE DEF S
  <2>2. packages[p] \in S /\ p \in Nat BY <2>1
  <2>3. packages[p] \in [dest : {0, 1}, length : Nat \ {0}]
    BY <2>2 DEF S
  <2> QED BY <2>2, <2>3
<1>2. PICK n \in Nat \ {0} : n = packages[p].length
  BY <1>1
<1>3. words = [k \in 1 .. n |->
                  [package |-> p, place |-> k, dest |-> packages[p].dest, last |-> k = n]]
  BY <1>2 DEF WordsOfPackage
<1> HIDE DEF words
<1>4. ASSUME NEW k \in 1 .. n PROVE words[k] \in MergedWord
  <2>1. k \in Nat /\ (k = n) \in BOOLEAN OBVIOUS
  <2>2. [package |-> p, place |-> k, dest |-> packages[p].dest, last |-> k = n] \in MergedWord
    BY <1>1, <2>1 DEF MergedWord
  <2> QED BY <1>3, <2>2
<1>5. words \in [1 .. n -> MergedWord] /\ words \in Seq(MergedWord) /\ Len(words) = n
  BY <1>3, <1>4
<1>6. ASSUME NEW k \in 1 .. n
      PROVE  /\ words[k].package = p /\ words[k].dest = packages[p].dest
             /\ words[k].last <=> k = n
  BY <1>3
<1> QED BY <1>5, <1>6 DEF words

LEMMA FirstPacked ==
    ASSUME NEW packages \in Plan, packages # << >>
    PROVE  PackedTo(WordsOfPackage(packages, 1), packages, 1)
<1> DEFINE words == WordsOfPackage(packages, 1)
<1>1. 1 \in 1 .. Len(packages)
  BY DEF Plan
<1>2. /\ words \in Seq(MergedWord) /\ Len(words) \in Nat \ {0}
      /\ \A k \in 1 .. Len(words) :
            /\ words[k].package = 1 /\ words[k].dest = packages[1].dest
            /\ words[k].last <=> k = Len(words)
  BY <1>1, PackageWordsType
<1> HIDE DEF words
<1>3. words # << >> /\ 1 \in 1 .. Len(words) /\ Len(words) \in 1 .. Len(words)
  BY <1>2
<1>4. \A k \in 1 .. Len(words) - 1 :
          /\ words[k + 1].package = words[k].package
          /\ ~words[k].last
  BY <1>2
<1>5. Packed(words, packages)
  BY <1>1, <1>2, <1>3, <1>4 DEF Packed
<1> QED BY <1>2, <1>3, <1>5 DEF PackedTo, words

LEMMA NextPacked ==
    ASSUME NEW packages \in Plan, NEW n \in Nat \ {0}, n + 1 <= Len(packages),
           NEW words, PackedTo(words, packages, n)
    PROVE  PackedTo(words \o WordsOfPackage(packages, n + 1), packages, n + 1)
<1> DEFINE more == WordsOfPackage(packages, n + 1)
           all == words \o more
<1>1. n + 1 \in 1 .. Len(packages)
  BY DEF Plan
<1>2. /\ more \in Seq(MergedWord) /\ Len(more) \in Nat \ {0}
      /\ \A k \in 1 .. Len(more) :
            /\ more[k].package = n + 1 /\ more[k].dest = packages[n + 1].dest
            /\ more[k].last <=> k = Len(more)
  BY <1>1, PackageWordsType
<1> HIDE DEF more
<1>3. /\ words \in Seq(MergedWord) /\ Len(words) \in Nat \ {0}
      /\ words[Len(words)].last /\ words[Len(words)].package = n
      /\ words[1].package = 1
      /\ \A k \in 1 .. Len(words) :
          /\ words[k].package \in 1 .. Len(packages)
          /\ words[k].dest = packages[words[k].package].dest
      /\ \A k \in 1 .. Len(words) - 1 :
          words[k + 1].package =
              IF words[k].last THEN words[k].package + 1 ELSE words[k].package
  BY DEF PackedTo, Packed
<1>4. /\ all \in Seq(MergedWord) /\ Len(all) = Len(words) + Len(more)
      /\ \A k \in 1 .. Len(words) : all[k] = words[k]
      /\ \A k \in 1 .. Len(more) : all[Len(words) + k] = more[k]
  BY <1>2, <1>3
<1> HIDE DEF all
<1>5. PICK a \in Nat \ {0}, b \in Nat \ {0} : a = Len(words) /\ b = Len(more)
  BY <1>2, <1>3
<1>6. ASSUME NEW k \in 1 .. a + b
      PROVE  /\ all[k].package \in 1 .. Len(packages)
             /\ all[k].dest = packages[all[k].package].dest
  <2>1. CASE k <= a BY <1>3, <1>4, <1>5, <2>1
  <2>2. CASE k > a
    <3>1. k - a \in 1 .. b /\ a + (k - a) = k BY <1>5, <2>2
    <3>2. all[k] = more[k - a] BY <1>4, <1>5, <3>1
    <3>3. more[k - a].package = n + 1 /\ more[k - a].dest = packages[n + 1].dest
      BY <1>2, <1>5, <3>1
    <3> QED BY <1>1, <3>2, <3>3
  <2> QED BY <2>1, <2>2
<1>7. ASSUME NEW k \in 1 .. a + b - 1
      PROVE  all[k + 1].package =
                 IF all[k].last THEN all[k].package + 1 ELSE all[k].package
  <2>1. CASE k < a
    <3>1. k \in 1 .. a - 1 /\ k \in 1 .. a /\ k + 1 \in 1 .. a BY <2>1
    <3>2. all[k] = words[k] /\ all[k + 1] = words[k + 1] BY <1>4, <1>5, <3>1
    <3> QED BY <1>3, <1>5, <3>1, <3>2
  <2>2. CASE k = a
    <3>1. all[k] = words[a] /\ all[k + 1] = more[1] BY <1>4, <1>5, <2>2
    <3> QED BY <1>2, <1>3, <1>5, <3>1
  <2>3. CASE k > a
    <3>1. /\ k - a \in 1 .. b /\ (k - a) + 1 \in 1 .. b /\ k - a # b
          /\ a + (k - a) = k /\ a + ((k - a) + 1) = k + 1
      BY <1>5, <2>3
    <3>2. all[k] = more[k - a] /\ all[k + 1] = more[(k - a) + 1]
      BY <1>4, <1>5, <3>1
    <3> QED BY <1>2, <1>5, <3>1, <3>2
  <2> QED BY <2>1, <2>2, <2>3
<1>8. all # << >> /\ all[1].package = 1
  BY <1>3, <1>4, <1>5
<1>9. Packed(all, packages)
  BY <1>4, <1>5, <1>6, <1>7, <1>8 DEF Packed
<1>10. all[Len(all)] = more[b] /\ more[b].last /\ more[b].package = n + 1
  BY <1>2, <1>4, <1>5
<1> QED BY <1>8, <1>9, <1>10 DEF PackedTo, all, more

(* A function that satisfies the recursion of FlattenSeq is the one it     *)
(* defines.                                                                *)
IsFlat(g, seqs, n) ==
    g = [k \in 1 .. n |-> IF k = 1 THEN seqs[k] ELSE g[k - 1] \o seqs[k]]

LEMMA FlattenIs ==
    ASSUME NEW seqs, Len(seqs) \in Nat, Len(seqs) # 0,
           NEW g, IsFlat(g, seqs, Len(seqs))
    PROVE  FlattenSeq(seqs) = g[Len(seqs)]
<1> DEFINE n == Len(seqs)
           s == CHOOSE f : f = [k \in 1 .. Len(seqs) |->
                    IF k = 1 THEN seqs[k] ELSE f[k - 1] \o seqs[k]]
<1>1. s = [k \in 1 .. n |-> IF k = 1 THEN seqs[k] ELSE s[k - 1] \o seqs[k]]
  BY DEF IsFlat
<1>2. FlattenSeq(seqs) = s[n]
  BY DEF FlattenSeq
<1> HIDE DEF s
<1> DEFINE Same == {k \in Nat : k + 1 <= n => s[k + 1] = g[k + 1]}
<1>3. 0 \in Same
  <2>1. 1 \in 1 .. n OBVIOUS
  <2>2. s[1] = seqs[1] BY <1>1, <2>1
  <2>3. g[1] = seqs[1] BY <2>1 DEF IsFlat
  <2> QED BY <2>2, <2>3
<1>4. ASSUME NEW k \in Nat, k \in Same, (k + 1) + 1 <= n
      PROVE  s[(k + 1) + 1] = g[(k + 1) + 1]
  <2> DEFINE j == (k + 1) + 1
  <2>1. j \in 1 .. n /\ j # 1 /\ j - 1 = k + 1 /\ s[k + 1] = g[k + 1] BY <1>4
  <2> HIDE DEF j
  <2>2. s[j] = s[j - 1] \o seqs[j] BY <1>1, <2>1
  <2>3. g[j] = g[j - 1] \o seqs[j] BY <2>1 DEF IsFlat
  <2> QED BY <2>1, <2>2, <2>3 DEF j
<1>5. ASSUME NEW k \in Nat, k \in Same PROVE k + 1 \in Same
  <2> SUFFICES ASSUME (k + 1) + 1 <= n PROVE s[(k + 1) + 1] = g[(k + 1) + 1]
    OBVIOUS
  <2> QED BY <1>4, <1>5
<1> HIDE DEF Same
<1>6. Nat \subseteq Same
  BY <1>3, <1>5, SetInduction
<1>7. n - 1 \in Same /\ (n - 1) + 1 = n
  BY <1>6
<1> QED BY <1>2, <1>7 DEF Same

(* What is sent is package after package.                                  *)
LEMMA PlanIsPacked ==
    ASSUME NEW packages \in Plan
    PROVE  Packed(FlattenSeq([p \in 1 .. Len(packages) |-> WordsOfPackage(packages, p)]),
                  packages)
<1> DEFINE n == Len(packages)
           seqs == [p \in 1 .. Len(packages) |-> WordsOfPackage(packages, p)]
<1>1. n \in Nat /\ Len(seqs) = n /\ \A p \in 1 .. n : seqs[p] = WordsOfPackage(packages, p)
  BY DEF Plan
<1>2. CASE n = 0
  <2>1. seqs = << >> /\ Len(seqs) = 0 BY <1>1, <1>2
  <2> HIDE DEF seqs
  <2>2. FlattenSeq(seqs) = << >> BY <2>1 DEF FlattenSeq
  <2>3. << >> \in Seq(MergedWord) /\ Len(<< >>) = 0 OBVIOUS
  <2>4. Packed(<< >>, packages) BY <2>3 DEF Packed
  <2> QED BY <2>2, <2>4 DEF seqs
<1>3. CASE n # 0
  <2> HIDE DEF seqs
  <2> DEFINE Built == {k \in Nat : k + 1 <= n =>
                 \E g \in [1 .. k + 1 -> Seq(MergedWord)] :
                     IsFlat(g, seqs, k + 1) /\ PackedTo(g[k + 1], packages, k + 1)}
  <2>1. 0 \in Built
    <3>1. packages # << >> /\ 1 \in 1 .. n /\ 0 + 1 = 1 BY <1>1, <1>3 DEF Plan
    <3>2. PackedTo(seqs[1], packages, 1) BY <1>1, <3>1, FirstPacked
    <3>3. seqs[1] \in Seq(MergedWord) BY <3>2 DEF PackedTo, Packed
    <3> DEFINE g == [k \in 1 .. 1 |-> seqs[k]]
    <3>4. g \in [1 .. 1 -> Seq(MergedWord)] /\ g[1] = seqs[1] BY <3>3
    <3>5. IsFlat(g, seqs, 1) BY DEF IsFlat
    <3> QED BY <3>1, <3>2, <3>4, <3>5
  <2>2. ASSUME NEW k \in Nat, k \in Built PROVE k + 1 \in Built
    <3> DEFINE j == k + 1
    <3> SUFFICES ASSUME j + 1 <= n
                 PROVE  \E h \in [1 .. j + 1 -> Seq(MergedWord)] :
                            IsFlat(h, seqs, j + 1) /\ PackedTo(h[j + 1], packages, j + 1)
      OBVIOUS
    <3>1. j \in Nat \ {0} /\ j <= n BY <1>1
    <3>2. PICK g \in [1 .. j -> Seq(MergedWord)] :
              IsFlat(g, seqs, j) /\ PackedTo(g[j], packages, j)
      BY <2>2, <3>1
    <3> HIDE DEF j
    <3> DEFINE h == [m \in 1 .. j + 1 |->
                        IF m = j + 1 THEN g[j] \o seqs[j + 1] ELSE g[m]]
    <3>3. h[j + 1] = g[j] \o seqs[j + 1]
      <4>1. j + 1 \in 1 .. j + 1 BY <3>1
      <4> QED BY ONLY <4>1
    <3>4. PackedTo(g[j] \o seqs[j + 1], packages, j + 1)
      BY <1>1, <3>1, <3>2, NextPacked
    <3>5. g[j] \o seqs[j + 1] \in Seq(MergedWord) BY <3>4 DEF PackedTo, Packed
    <3>6. h \in [1 .. j + 1 -> Seq(MergedWord)] BY <3>1, <3>5
    <3>7. ASSUME NEW m \in 1 .. j + 1
          PROVE  h[m] = IF m = 1 THEN seqs[m] ELSE h[m - 1] \o seqs[m]
      <4>1. CASE m = j + 1
        <5>1. m # 1 /\ m - 1 = j /\ j \in 1 .. j + 1 /\ j # j + 1 BY <3>1, <4>1
        <5>2. h[m - 1] = g[j] BY <5>1
        <5> HIDE DEF h
        <5> QED BY <3>3, <4>1, <5>1, <5>2
      <4>2. CASE m # j + 1
        <5>1. m \in 1 .. j /\ h[m] = g[m] BY <3>1, <4>2
        <5>2. m # 1 => m - 1 \in 1 .. j + 1 /\ h[m - 1] = g[m - 1] BY <3>1, <5>1
        <5>3. g[m] = IF m = 1 THEN seqs[m] ELSE g[m - 1] \o seqs[m]
          BY <3>2, <5>1 DEF IsFlat
        <5> HIDE DEF h
        <5> QED BY <5>1, <5>2, <5>3
      <4> QED BY <4>1, <4>2
    <3>8. h = [m \in 1 .. j + 1 |-> h[m]] OBVIOUS
    <3> HIDE DEF h
    <3>9. IsFlat(h, seqs, j + 1) BY <3>7, <3>8 DEF IsFlat
    <3>10. PackedTo(h[j + 1], packages, j + 1) BY <3>3, <3>4
    <3> QED BY <3>6, <3>9, <3>10
  <2> HIDE DEF Built
  <2>3. Nat \subseteq Built
    BY <2>1, <2>2, SetInduction
  <2>4. n - 1 \in Built /\ (n - 1) + 1 = n
    BY <1>1, <1>3, <2>3
  <2>5. PICK g \in [1 .. n -> Seq(MergedWord)] : IsFlat(g, seqs, n) /\ PackedTo(g[n], packages, n)
    BY <2>4 DEF Built
  <2>6. FlattenSeq(seqs) = g[n]
    <3>1. Len(seqs) \in Nat /\ Len(seqs) # 0 /\ IsFlat(g, seqs, Len(seqs))
      BY <1>1, <1>3, <2>5
    <3> QED BY <1>1, <3>1, FlattenIs
  <2> QED BY <2>5, <2>6 DEF PackedTo, seqs
<1> QED BY <1>2, <1>3
-----------------------------------------------------------------------------
(* What is left of a sequence of which the first elements were taken.      *)
Remains(queue, all) ==
    /\ Len(queue) <= Len(all)
    /\ \A k \in 1 .. Len(queue) : queue[k] = all[(Len(all) - Len(queue)) + k]

(* A process that has taken so many destinations and passed the first k of *)
(* the words is in the right state for the next word.                      *)
Tracks(st, taken, k, words, packages) ==
    /\ st \in {"IDLE", "FWD0", "FWD1"}
    /\ taken \in 0 .. Len(packages)
    /\ st = "IDLE" /\ k < Len(words) => words[k + 1].package = taken + 1
    /\ \A i \in {0, 1} : st = Forwarding(i) =>
          /\ taken > 0 /\ packages[taken].dest = i
          /\ k < Len(words) => words[k + 1].package = taken

Sent == Len(PlannedWords) - Len(source)

PlannedDests == [p \in 1 .. Len(plan) |-> plan[p].dest]

(* The splitter, and stream_split, send the words one after another, each  *)
(* where it belongs.                                                       *)
SplitInv ==
    /\ plan \in Plan /\ merging \in MergerKinds
    /\ source \in Seq(MergedWord) /\ Remains(source, PlannedWords)
    /\ dests \in Seq({0, 1}) /\ Remains(dests, PlannedDests)
    /\ merging # "stream_fold" =>
          Tracks(spState, Len(plan) - Len(dests), Sent, PlannedWords, plan)

(* What was merged and what waits is what was sent.                        *)
WordsConserved ==
    /\ merged \in Seq(MergedWord)
    /\ inputs \in [{0, 1} -> Seq(MergedWord)]
    /\ \A i \in {0, 1} :
          /\ inputs[i] \in Seq(WordTo(i))
          /\ From(i, merged) \o inputs[i] = From(i, SubSeq(PlannedWords, 1, Sent))
FoldConserved ==
    /\ merged \in Seq(MergedWord)
    /\ inputs \in [{0, 1} -> Seq(MergedWord)]
    /\ \A i \in {0, 1} : merged \o inputs[i] = SubSeq(PlannedWords, 1, Sent)
ConservedInv == IF merging = "stream_fold" THEN FoldConserved ELSE WordsConserved
-----------------------------------------------------------------------------
LEMMA RemainsTail ==
    ASSUME NEW S, NEW queue \in Seq(S), queue # << >>, NEW all, Len(all) \in Nat,
           Remains(queue, all)
    PROVE  /\ Len(queue) \in Nat \ {0} /\ Len(queue) <= Len(all)
           /\ Tail(queue) \in Seq(S) /\ Len(Tail(queue)) = Len(queue) - 1
           /\ Head(queue) \in S
           /\ Head(queue) = all[(Len(all) - Len(queue)) + 1]
           /\ Remains(Tail(queue), all)
<1>1. /\ Len(queue) \in Nat \ {0} /\ Tail(queue) \in Seq(S)
      /\ Len(Tail(queue)) = Len(queue) - 1 /\ Head(queue) = queue[1] /\ Head(queue) \in S
      /\ \A k \in 1 .. Len(queue) - 1 : Tail(queue)[k] = queue[k + 1]
  OBVIOUS
<1>2. PICK n \in Nat \ {0}, m \in Nat : n = Len(queue) /\ m = Len(all)
  BY <1>1
<1>3. /\ n <= m
      /\ \A k \in 1 .. n : queue[k] = all[(m - n) + k]
  BY <1>2 DEF Remains
<1>4. ASSUME NEW k \in 1 .. n - 1
      PROVE  Tail(queue)[k] = all[(m - (n - 1)) + k]
  <2>1. k \in 1 .. Len(queue) - 1 /\ k + 1 \in 1 .. n /\ (m - n) + (k + 1) = (m - (n - 1)) + k
    BY <1>2
  <2> QED BY <1>1, <1>3, <2>1
<1>5. Remains(Tail(queue), all)
  BY <1>1, <1>2, <1>3, <1>4 DEF Remains
<1>6. Head(queue) = all[(m - n) + 1]
  <2>1. 1 \in 1 .. n OBVIOUS
  <2> QED BY <1>1, <1>3, <2>1
<1> QED BY <1>1, <1>2, <1>3, <1>5, <1>6

LEMMA WordPassed ==
    ASSUME NEW words, NEW packages, Packed(words, packages),
           NEW k \in Nat, k < Len(words), Len(packages) \in Nat,
           NEW taken \in 1 .. Len(packages), NEW i \in {0, 1},
           packages[taken].dest = i, words[k + 1].package = taken
    PROVE  /\ words[k + 1].dest = i
           /\ Tracks(AfterWord(words[k + 1], i), taken, k + 1, words, packages)
<1> DEFINE w == words[k + 1]
<1>1. words \in Seq(MergedWord) /\ Len(words) \in Nat /\ k + 1 \in 1 .. Len(words)
  BY DEF Packed
<1>2. w.dest = i
  BY <1>1 DEF Packed
<1>3. k + 1 < Len(words) =>
          words[(k + 1) + 1].package = IF w.last THEN taken + 1 ELSE taken
  <2>1. k + 1 < Len(words) => k + 1 \in 1 .. Len(words) - 1
    BY <1>1
  <2> QED BY <2>1 DEF Packed
<1> HIDE DEF w
<1>4. AfterWord(w, i) = IF w.last THEN "IDLE" ELSE Forwarding(i)
  BY DEF AfterWord
<1>5. /\ Forwarding(0) = "FWD0" /\ Forwarding(1) = "FWD1"
  BY DEF Forwarding
<1>6. taken \in 0 .. Len(packages) /\ taken > 0
  OBVIOUS
<1>7. Tracks(AfterWord(w, i), taken, k + 1, words, packages)
  <2>1. CASE w.last
    BY <1>3, <1>4, <1>5, <1>6, <2>1 DEF Tracks
  <2>2. CASE ~w.last
    <3>1. CASE i = 0
      BY <1>3, <1>4, <1>5, <1>6, <2>2, <3>1 DEF Tracks
    <3>2. CASE i = 1
      BY <1>3, <1>4, <1>5, <1>6, <2>2, <3>2 DEF Tracks
    <3> QED BY <3>1, <3>2
  <2> QED BY <2>1, <2>2
<1> QED BY <1>2, <1>7 DEF w

(* The destination was taken before the word is there.                     *)
LEMMA DestinationTaken ==
    ASSUME NEW words, NEW packages, NEW k \in Nat, Len(packages) \in Nat, NEW taken \in Nat,
           taken + 1 <= Len(packages),
           Tracks("IDLE", taken, k, words, packages),
           NEW i \in {0, 1}, packages[taken + 1].dest = i
    PROVE  Tracks(Forwarding(i), taken + 1, k, words, packages)
<1>1. k < Len(words) => words[k + 1].package = taken + 1
  BY DEF Tracks
<1>2. taken + 1 \in 0 .. Len(packages) /\ taken + 1 > 0
  OBVIOUS
<1>3. CASE i = 0
  BY <1>1, <1>2, <1>3 DEF Tracks, Forwarding
<1>4. CASE i = 1
  BY <1>1, <1>2, <1>4 DEF Tracks, Forwarding
<1> QED BY <1>3, <1>4

LEMMA PlanStays ==
    [MergeNext]_mergeVars =>
        /\ UNCHANGED <<merging, plan>>
        /\ PlannedWords' = PlannedWords /\ PlannedOrigins' = PlannedOrigins
<1> SUFFICES ASSUME [MergeNext]_mergeVars
             PROVE  /\ UNCHANGED <<merging, plan>>
                    /\ PlannedWords' = PlannedWords /\ PlannedOrigins' = PlannedOrigins
  OBVIOUS
<1>1. UNCHANGED <<merging, plan>>
  BY DEF MergeNext, Split, Merge, mergeVars
<1> DEFINE WordsOf(pl) == FlattenSeq([p \in 1 .. Len(pl) |->
                            [k \in 1 .. pl[p].length |->
                                [package |-> p, place |-> k, dest |-> pl[p].dest,
                                 last |-> k = pl[p].length]]])
<1>2. PlannedWords = WordsOf(plan) /\ PlannedWords' = WordsOf(plan')
  BY DEF PlannedWords
<1> HIDE DEF WordsOf
<1>3. PlannedWords' = PlannedWords
  BY <1>1, <1>2
<1> DEFINE OriginsOf(pl, words) == IF merging = "stream_merger_origin"
                             THEN [i \in 1 .. Len(words) |-> words[i].dest]
                             ELSE [p \in 1 .. Len(pl) |-> pl[p].dest]
<1>4. /\ PlannedOrigins = OriginsOf(plan, PlannedWords)
      /\ PlannedOrigins' = OriginsOf(plan', PlannedWords')
  BY <1>1 DEF PlannedOrigins
<1> HIDE DEF OriginsOf
<1> QED BY <1>1, <1>3, <1>4

LEMMA DestsStay ==
    UNCHANGED plan => PlannedDests' = PlannedDests
<1> DEFINE DestsOf(pl) == [p \in 1 .. Len(pl) |-> pl[p].dest]
<1>1. PlannedDests = DestsOf(plan) /\ PlannedDests' = DestsOf(plan')
  BY DEF PlannedDests
<1> HIDE DEF DestsOf
<1> QED BY <1>1

LEMMA PlannedWordsPacked == plan \in Plan => Packed(PlannedWords, plan)
  BY PlanIsPacked DEF PlannedWords, WordsOfPackage

(* What the splitter does in a step.                                       *)
Sends(i) ==
    /\ source # << >> /\ source' = Tail(source)
    /\ inputs' = [inputs EXCEPT ![i] = Append(@, Head(source))]
    /\ spState' = AfterWord(Head(source), i)

LEMMA SplitSteps ==
    ASSUME Split, dests \in Seq({0, 1}), merging # "stream_fold"
    PROVE  /\ UNCHANGED <<merging, plan, origins, mgState, merge_pref, merged>>
           /\ \/ /\ spState = "IDLE" /\ dests # << >> /\ dests' = Tail(dests)
                 /\ Head(dests) \in {0, 1} /\ Sends(Head(dests))
              \/ /\ spState = "IDLE" /\ dests # << >> /\ dests' = Tail(dests)
                 /\ Head(dests) \in {0, 1} /\ spState' = Forwarding(Head(dests))
                 /\ source = << >> /\ UNCHANGED <<source, inputs>>
              \/ /\ UNCHANGED dests
                 /\ \E i \in {0, 1} : spState = Forwarding(i) /\ Sends(i)
<1>1. SplitPackages /\ UNCHANGED <<merging, plan, origins, mgState, merge_pref, merged>>
  BY DEF Split
<1>2. dests # << >> => Head(dests) \in {0, 1}
  OBVIOUS
<1> QED BY <1>1, <1>2, Zenon DEF SplitPackages, Deliver, Sends
-----------------------------------------------------------------------------
(* The next word is sent to its input.                                     *)
SendsNext(i) ==
    /\ source # << >> /\ source' = Tail(source)
    /\ inputs' = [inputs EXCEPT ![i] = Append(@, PlannedWords[Sent + 1])]
    /\ PlannedWords[Sent + 1].dest = i

LEMMA SourceTail ==
    ASSUME SplitInv, source # << >>, source' = Tail(source), PlannedWords' = PlannedWords
    PROVE  /\ Sent \in Nat /\ Sent < Len(PlannedWords) /\ Sent' = Sent + 1
           /\ Head(source) = PlannedWords[Sent + 1] /\ Head(source) \in MergedWord
           /\ source' \in Seq(MergedWord) /\ Remains(source', PlannedWords)
<1>1. Packed(PlannedWords, plan)
  BY PlannedWordsPacked DEF SplitInv
<1>2. PlannedWords \in Seq(MergedWord) /\ Len(PlannedWords) \in Nat
  BY <1>1 DEF Packed
<1>3. source \in Seq(MergedWord) /\ Remains(source, PlannedWords)
  BY DEF SplitInv
<1>4. /\ Len(source) \in Nat \ {0} /\ Len(source) <= Len(PlannedWords)
      /\ Tail(source) \in Seq(MergedWord) /\ Len(Tail(source)) = Len(source) - 1
      /\ Head(source) \in MergedWord
      /\ Head(source) = PlannedWords[(Len(PlannedWords) - Len(source)) + 1]
      /\ Remains(Tail(source), PlannedWords)
  BY <1>2, <1>3, RemainsTail
<1>5. Sent' = Len(PlannedWords) - Len(Tail(source))
  BY DEF Sent
<1>6. Len(PlannedWords) - Len(Tail(source)) = (Len(PlannedWords) - Len(source)) + 1
  BY <1>2, <1>4
<1> QED BY <1>2, <1>4, <1>5, <1>6 DEF Sent

LEMMA DestsTail ==
    ASSUME SplitInv, dests # << >>, dests' = Tail(dests)
    PROVE  LET taken == Len(plan) - Len(dests) IN
           /\ taken \in Nat /\ taken + 1 <= Len(plan)
           /\ Len(plan) - Len(dests') = taken + 1
           /\ plan[taken + 1].dest = Head(dests) /\ Head(dests) \in {0, 1}
           /\ dests' \in Seq({0, 1}) /\ Remains(dests', PlannedDests)
<1>1. Len(plan) \in Nat
  BY DEF SplitInv, Plan
<1>2. Len(PlannedDests) = Len(plan)
  BY <1>1 DEF PlannedDests
<1>3. dests \in Seq({0, 1}) /\ Remains(dests, PlannedDests) /\ Len(PlannedDests) \in Nat
  BY <1>1, <1>2 DEF SplitInv
<1>4. /\ Len(dests) \in Nat \ {0} /\ Len(dests) <= Len(PlannedDests)
      /\ Tail(dests) \in Seq({0, 1}) /\ Len(Tail(dests)) = Len(dests) - 1
      /\ Head(dests) \in {0, 1}
      /\ Head(dests) = PlannedDests[(Len(PlannedDests) - Len(dests)) + 1]
      /\ Remains(Tail(dests), PlannedDests)
  BY <1>3, RemainsTail
<1>5. PICK n \in Nat, d \in Nat \ {0} : n = Len(plan) /\ d = Len(dests)
  BY <1>1, <1>4
<1>6. d <= n /\ (n - d) + 1 \in 1 .. n /\ n - (d - 1) = (n - d) + 1 /\ n - d \in Nat
  BY <1>2, <1>4, <1>5
<1>7. PlannedDests[(n - d) + 1] = plan[(n - d) + 1].dest
  BY <1>5, <1>6 DEF PlannedDests
<1> QED BY <1>2, <1>4, <1>5, <1>6, <1>7

LEMMA SplitTracks ==
    ASSUME SplitInv, Split, merging # "stream_fold", PlannedWords' = PlannedWords
    PROVE  /\ Tracks(spState', Len(plan) - Len(dests'), Sent', PlannedWords, plan)
           /\ dests' \in Seq({0, 1}) /\ Remains(dests', PlannedDests)
           /\ \/ \E i \in {0, 1} : SendsNext(i)
              \/ UNCHANGED <<source, inputs>>
<1> DEFINE taken == Len(plan) - Len(dests)
<1>1. Packed(PlannedWords, plan) /\ Len(plan) \in Nat
  BY PlannedWordsPacked DEF SplitInv, Plan
<1>2. dests \in Seq({0, 1}) /\ Remains(dests, PlannedDests)
      /\ Tracks(spState, taken, Sent, PlannedWords, plan)
  BY DEF SplitInv
<1>3. CASE /\ spState = "IDLE" /\ dests # << >> /\ dests' = Tail(dests)
           /\ Head(dests) \in {0, 1} /\ Sends(Head(dests))
  <2>1. /\ taken \in Nat /\ taken + 1 <= Len(plan)
        /\ Len(plan) - Len(dests') = taken + 1
        /\ plan[taken + 1].dest = Head(dests) /\ Head(dests) \in {0, 1}
        /\ dests' \in Seq({0, 1}) /\ Remains(dests', PlannedDests)
    BY <1>3, DestsTail
  <2>2. /\ Sent \in Nat /\ Sent < Len(PlannedWords) /\ Sent' = Sent + 1
        /\ Head(source) = PlannedWords[Sent + 1]
    BY <1>3, SourceTail DEF Sends
  <2>3. PlannedWords[Sent + 1].package = taken + 1
    BY <1>2, <1>3, <2>2 DEF Tracks
  <2>4. taken + 1 \in 1 .. Len(plan)
    BY <1>1, <2>1
  <2> HIDE DEF taken
  <2>5. /\ PlannedWords[Sent + 1].dest = Head(dests)
        /\ Tracks(AfterWord(PlannedWords[Sent + 1], Head(dests)), taken + 1, Sent + 1,
                  PlannedWords, plan)
    BY <1>1, <2>1, <2>2, <2>3, <2>4, WordPassed
  <2>6. SendsNext(Head(dests))
    BY <1>3, <2>2, <2>5 DEF Sends, SendsNext
  <2>7. spState' = AfterWord(PlannedWords[Sent + 1], Head(dests))
    BY <1>3, <2>2 DEF Sends
  <2> QED BY <2>1, <2>2, <2>5, <2>6, <2>7
<1>4. CASE /\ spState = "IDLE" /\ dests # << >> /\ dests' = Tail(dests)
           /\ Head(dests) \in {0, 1} /\ spState' = Forwarding(Head(dests))
           /\ source = << >> /\ UNCHANGED <<source, inputs>>
  <2>1. /\ taken \in Nat /\ taken + 1 <= Len(plan)
        /\ Len(plan) - Len(dests') = taken + 1
        /\ plan[taken + 1].dest = Head(dests) /\ Head(dests) \in {0, 1}
        /\ dests' \in Seq({0, 1}) /\ Remains(dests', PlannedDests)
    BY <1>4, DestsTail
  <2>2. Sent' = Sent /\ Sent \in Nat
    <3>1. Sent' = Sent BY <1>4 DEF Sent
    <3>2. Len(source) \in Nat /\ Len(PlannedWords) \in Nat /\ Len(source) <= Len(PlannedWords)
      BY <1>1 DEF SplitInv, Packed, Remains
    <3> QED BY <3>1, <3>2 DEF Sent
  <2> HIDE DEF taken
  <2>3. Tracks("IDLE", taken, Sent, PlannedWords, plan)
    BY <1>2, <1>4
  <2>4. Tracks(Forwarding(Head(dests)), taken + 1, Sent, PlannedWords, plan)
    BY <1>1, <2>1, <2>2, <2>3, DestinationTaken
  <2> QED BY <1>4, <2>1, <2>2, <2>4
<1>5. CASE /\ UNCHANGED dests
           /\ \E i \in {0, 1} : spState = Forwarding(i) /\ Sends(i)
  <2>1. PICK i \in {0, 1} : spState = Forwarding(i) /\ Sends(i)
    BY <1>5
  <2>2. /\ Sent \in Nat /\ Sent < Len(PlannedWords) /\ Sent' = Sent + 1
        /\ Head(source) = PlannedWords[Sent + 1]
    BY <2>1, SourceTail DEF Sends
  <2>3. Len(plan) - Len(dests') = taken
    BY <1>5
  <2> HIDE DEF taken
  <2>4. /\ taken \in 0 .. Len(plan) /\ taken > 0 /\ plan[taken].dest = i
        /\ PlannedWords[Sent + 1].package = taken
    BY <1>2, <2>1, <2>2 DEF Tracks
  <2>5. taken \in 1 .. Len(plan)
    BY <1>1, <2>4
  <2>6. /\ PlannedWords[Sent + 1].dest = i
        /\ Tracks(AfterWord(PlannedWords[Sent + 1], i), taken, Sent + 1, PlannedWords, plan)
    BY <1>1, <2>2, <2>4, <2>5, WordPassed
  <2>7. SendsNext(i)
    BY <2>1, <2>2, <2>6 DEF Sends, SendsNext
  <2>8. spState' = AfterWord(PlannedWords[Sent + 1], i)
    BY <2>1, <2>2 DEF Sends
  <2> QED BY <1>2, <1>5, <2>2, <2>3, <2>6, <2>7, <2>8
<1> QED BY <1>2, <1>3, <1>4, <1>5, SplitSteps

LEMMA StepSplitInv == SplitInv /\ [MergeNext]_mergeVars => SplitInv'
<1> SUFFICES ASSUME SplitInv, [MergeNext]_mergeVars PROVE SplitInv'
  OBVIOUS
<1>1. UNCHANGED <<merging, plan>> /\ PlannedWords' = PlannedWords
  BY PlanStays
<1>2. PlannedDests' = PlannedDests
  BY <1>1, DestsStay
<1>3. CASE UNCHANGED <<source, dests, spState>>
  <2>1. Sent' = Sent
    BY <1>1, <1>3 DEF Sent
  <2> QED BY <1>1, <1>2, <1>3, <2>1 DEF SplitInv
<1>4. CASE Split /\ merging # "stream_fold"
  <2>1. /\ Tracks(spState', Len(plan) - Len(dests'), Sent', PlannedWords, plan)
        /\ dests' \in Seq({0, 1}) /\ Remains(dests', PlannedDests)
        /\ \/ \E i \in {0, 1} : SendsNext(i)
           \/ UNCHANGED <<source, inputs>>
    BY <1>1, <1>4, SplitTracks
  <2>2. source' \in Seq(MergedWord) /\ Remains(source', PlannedWords)
    <3>1. CASE \E i \in {0, 1} : SendsNext(i)
      BY <1>1, <3>1, SourceTail DEF SendsNext
    <3>2. CASE UNCHANGED <<source, inputs>>
      BY <3>2 DEF SplitInv
    <3> QED BY <2>1, <3>1, <3>2
  <2>3. plan \in Plan /\ merging \in MergerKinds BY DEF SplitInv
  <2> QED BY <1>1, <1>2, <2>1, <2>2, <2>3 DEF SplitInv
<1>5. CASE Split /\ merging = "stream_fold"
  <2>1. source # << >> /\ source' = Tail(source) /\ UNCHANGED <<dests, spState>>
    BY <1>5 DEF Split, SplitToAll
  <2>2. source' \in Seq(MergedWord) /\ Remains(source', PlannedWords)
    BY <1>1, <2>1, SourceTail
  <2> QED BY <1>1, <1>2, <1>5, <2>1, <2>2 DEF SplitInv
<1>6. Merge => UNCHANGED <<source, dests, spState>>
  BY DEF Merge
<1> QED BY <1>3, <1>4, <1>5, <1>6 DEF MergeNext, mergeVars

LEMMA InitSplitInv == MergeInit => SplitInv
<1> SUFFICES ASSUME MergeInit PROVE SplitInv
  OBVIOUS
<1>1. plan \in Plan /\ merging \in MergerKinds
  BY MergerAssumption DEF MergeInit, Plan
<1>2. Packed(PlannedWords, plan) /\ source = PlannedWords /\ Len(plan) \in Nat
  BY <1>1, PlannedWordsPacked DEF MergeInit, Plan
<1>3. PlannedWords \in Seq(MergedWord) /\ Len(PlannedWords) \in Nat
  BY <1>2 DEF Packed
<1>4. Sent = 0 /\ Remains(source, PlannedWords)
  BY <1>2, <1>3 DEF Sent, Remains
<1>5. dests = PlannedDests
  BY DEF MergeInit, PlannedDests
<1>6. dests \in Seq({0, 1}) /\ Len(dests) = Len(plan) /\ Remains(dests, PlannedDests)
  <2>1. \A p \in 1 .. Len(plan) : plan[p].dest \in {0, 1}
    <3> DEFINE S == [dest : {0, 1}, length : Nat \ {0}]
    <3>1. plan \in Seq(S) BY <1>1 DEF Plan
    <3> HIDE DEF S
    <3>2. \A p \in 1 .. Len(plan) : plan[p] \in S BY <3>1
    <3> QED BY <3>2 DEF S
  <2>2. PlannedDests \in [1 .. Len(plan) -> {0, 1}]
    BY <2>1 DEF PlannedDests
  <2>3. PlannedDests \in Seq({0, 1}) /\ Len(PlannedDests) = Len(plan)
    BY <1>2, <2>2
  <2>4. Remains(PlannedDests, PlannedDests)
    BY <1>2, <2>3 DEF Remains
  <2> QED BY <1>5, <2>3, <2>4
<1>7. Tracks("IDLE", 0, 0, PlannedWords, plan)
  <2>1. 0 < Len(PlannedWords) => PlannedWords[0 + 1].package = 0 + 1
    BY <1>2, <1>3 DEF Packed
  <2>2. \A i \in {0, 1} : Forwarding(i) # "IDLE" BY DEF Forwarding
  <2>3. 0 \in 0 .. Len(plan) BY <1>2
  <2> QED BY <2>1, <2>2, <2>3 DEF Tracks
<1>8. spState = "IDLE" /\ Len(plan) - Len(dests) = 0
  BY <1>2, <1>6 DEF MergeInit
<1> QED BY <1>1, <1>2, <1>3, <1>4, <1>6, <1>7, <1>8 DEF SplitInv
-----------------------------------------------------------------------------
(* Which function the merger is.                                           *)
LEMMA MergeCases ==
    ASSUME Merge, merging \in MergerKinds
    PROVE  /\ UNCHANGED <<merging, plan, source, dests, spState>>
           /\ merging = "stream_merger" => StreamMerger
           /\ merging = "stream_merger_origin" => StreamMergerOrigin
           /\ merging = "stream_pkg_merger" => StreamPkgMerger
           /\ merging = "fair_merger" => FairMerger
           /\ merging = "fair_pkg_merger" => FairPkgMerger
           /\ merging = "concat" => Concatenator
           /\ merging = "interleave" => Interleaver
           /\ merging = "stream_fold" => StreamFold
<1> USE DEF MergerKinds
<1> QED BY DEF Merge

(* Every merger takes a word from one input or waits.                      *)
LEMMA MergeTakes ==
    ASSUME Merge, merging \in MergerKinds, merging # "stream_fold",
           merging \in {"stream_pkg_merger", "stream_merger_origin"} => origins \in Seq({0, 1})
    PROVE  (\E i \in {0, 1} : Take(i)) \/ UNCHANGED <<inputs, merged>>
<1>1. ASSUME NEW packages \in BOOLEAN, ByOrigin(packages), origins \in Seq({0, 1})
      PROVE  (\E i \in {0, 1} : Take(i)) \/ UNCHANGED <<inputs, merged>>
  <2>1. origins # << >> => Head(origins) \in {0, 1}
    BY <1>1
  <2> QED BY <1>1, <2>1, Zenon DEF ByOrigin, Waits
<1>2. StreamMerger => Take(0) \/ Take(1)
  BY Zenon DEF StreamMerger
<1>3. FairMerger => Take(0) \/ Take(1)
  <2> SUFFICES ASSUME FairMerger PROVE Take(0) \/ Take(1)
    OBVIOUS
  <2> DEFINE i == IF merge_pref THEN 0 ELSE 1
  <2>1. Take(i) \/ Take(1 - i) BY Zenon DEF FairMerger
  <2>2. (i = 0 /\ 1 - i = 1) \/ (i = 1 /\ 1 - i = 0) OBVIOUS
  <2> HIDE DEF i
  <2> QED BY ONLY <2>1, <2>2, Zenon
<1>4. FairPkgMerger => \E i \in {0, 1} : Take(i)
  BY Zenon DEF FairPkgMerger
<1>5. ASSUME NEW packages \in BOOLEAN, RoundRobin(packages) PROVE Take(0) \/ Take(1)
  <2> DEFINE i == IF merge_pref THEN 0 ELSE 1
  <2>1. Take(i) BY <1>5, Zenon DEF RoundRobin
  <2>2. i = 0 \/ i = 1 OBVIOUS
  <2> HIDE DEF i
  <2> QED BY ONLY <2>1, <2>2, Zenon
<1> QED BY <1>1, <1>2, <1>3, <1>4, <1>5, MergeCases
        DEF MergerKinds, StreamMergerOrigin, StreamPkgMerger, Concatenator, Interleaver

(* Sequences joined.                                                       *)
LEMMA ConcatAppend ==
    ASSUME NEW S, NEW s \in Seq(S), NEW t \in Seq(S), NEW e \in S
    PROVE  s \o Append(t, e) = Append(s \o t, e)
  OBVIOUS

LEMMA MoveHead ==
    ASSUME NEW S, NEW s \in Seq(S), NEW t \in Seq(S), t # << >>
    PROVE  Append(s, Head(t)) \o Tail(t) = s \o t
<1>1. Head(t) \in S /\ Tail(t) \in Seq(S) /\ <<Head(t)>> \in Seq(S)
  OBVIOUS
<1>2. Append(s, Head(t)) = s \o <<Head(t)>>
  BY <1>1, AppendIsConcat
<1>3. <<Head(t)>> \o Tail(t) = t
  OBVIOUS
<1>4. (s \o <<Head(t)>>) \o Tail(t) = s \o (<<Head(t)>> \o Tail(t))
  BY <1>1, ConcatAssociative
<1> QED BY <1>2, <1>3, <1>4

LEMMA ConcatCancel ==
    ASSUME NEW S, NEW s \in Seq(S), NEW t \in Seq(S), NEW u \in Seq(S), s \o t = s \o u
    PROVE  t = u
<1>1. /\ Len(s) \in Nat /\ Len(t) \in Nat /\ Len(u) \in Nat
      /\ Len(s \o t) = Len(s) + Len(t) /\ Len(s \o u) = Len(s) + Len(u)
      /\ \A k \in 1 .. Len(t) : (s \o t)[Len(s) + k] = t[k]
      /\ \A k \in 1 .. Len(u) : (s \o u)[Len(s) + k] = u[k]
  OBVIOUS
<1>2. Len(t) = Len(u)
  BY <1>1
<1>3. \A k \in 1 .. Len(t) : t[k] = u[k]
  BY <1>1, <1>2
<1> QED BY <1>2, <1>3, SeqEqual

LEMMA EmptyConcat == ASSUME NEW S, NEW s \in Seq(S) PROVE << >> \o s = s /\ s \o << >> = s
  OBVIOUS

LEMMA InitConservedInv == MergeInit => ConservedInv
<1> SUFFICES ASSUME MergeInit PROVE ConservedInv
  OBVIOUS
<1>1. SplitInv
  BY InitSplitInv
<1>2. PlannedWords \in Seq(MergedWord)
  BY <1>1, PlannedWordsPacked DEF SplitInv, Packed
<1>3. Sent = 0 /\ SubSeq(PlannedWords, 1, Sent) = << >>
  BY <1>2 DEF MergeInit, Sent
<1>4. << >> \in Seq(MergedWord) /\ << >> \o << >> = << >> /\ \A i \in {0, 1} : << >> \in Seq(WordTo(i))
  OBVIOUS
<1>5. \A i \in {0, 1} : From(i, << >>) = << >>
  BY FromEmpty
<1>6. merged = << >> /\ inputs = [i \in {0, 1} |-> << >>]
  BY DEF MergeInit
<1>7. inputs \in [{0, 1} -> Seq(MergedWord)] /\ \A i \in {0, 1} : inputs[i] = << >>
  BY <1>4, <1>6
<1> QED BY <1>3, <1>4, <1>5, <1>6, <1>7 DEF ConservedInv, WordsConserved, FoldConserved

LEMMA SendConserves ==
    ASSUME SplitInv, WordsConserved, PlannedWords' = PlannedWords, NEW i \in {0, 1},
           SendsNext(i), UNCHANGED merged
    PROVE  WordsConserved'
<1> DEFINE w == PlannedWords[Sent + 1]
<1>1. /\ Sent \in Nat /\ Sent < Len(PlannedWords) /\ Sent' = Sent + 1
      /\ w \in MergedWord /\ w.dest = i
  BY SourceTail DEF SendsNext
<1>2. PlannedWords \in Seq(MergedWord)
  BY PlannedWordsPacked DEF SplitInv, Packed
<1>3. inputs' = [inputs EXCEPT ![i] = Append(@, w)]
  BY DEF SendsNext
<1> HIDE DEF w
<1>4. w \in WordTo(i)
  BY <1>1 DEF WordTo
<1>5. /\ inputs'[i] = Append(inputs[i], w)
      /\ \A j \in {0, 1} : j # i => inputs'[j] = inputs[j]
  BY <1>3 DEF WordsConserved
<1>6. ASSUME NEW j \in {0, 1}
      PROVE  From(j, SubSeq(PlannedWords, 1, Sent + 1)) =
                 Selected(j, From(j, SubSeq(PlannedWords, 1, Sent)), w)
  BY <1>1, <1>2, FromNext DEF w
<1>7. ASSUME NEW j \in {0, 1}
      PROVE  /\ inputs'[j] \in Seq(WordTo(j)) /\ inputs'[j] \in Seq(MergedWord)
             /\ From(j, merged) \o inputs'[j] = From(j, SubSeq(PlannedWords, 1, Sent'))
  <2>1. /\ inputs[j] \in Seq(WordTo(j)) /\ inputs[j] \in Seq(MergedWord)
        /\ From(j, merged) \o inputs[j] = From(j, SubSeq(PlannedWords, 1, Sent))
        /\ From(j, merged) \in Seq(WordTo(j))
    BY FromType DEF WordsConserved
  <2>2. CASE j = i
    <3>1. Append(inputs[j], w) \in Seq(WordTo(j)) /\ Append(inputs[j], w) \in Seq(MergedWord)
      BY <1>1, <1>4, <2>1, <2>2, AppendedTo
    <3>2. From(j, merged) \o Append(inputs[j], w) = Append(From(j, merged) \o inputs[j], w)
      <4>1. /\ From(j, merged) \in Seq(WordTo(j)) /\ inputs[j] \in Seq(WordTo(j))
            /\ w \in WordTo(j)
        BY <1>4, <2>1, <2>2
      <4> QED BY ONLY <4>1, ConcatAppend
    <3>3. From(j, SubSeq(PlannedWords, 1, Sent + 1)) =
              Append(From(j, SubSeq(PlannedWords, 1, Sent)), w)
      BY <1>1, <1>6, <2>2 DEF Selected
    <3> QED BY <1>1, <1>5, <2>1, <2>2, <3>1, <3>2, <3>3
  <2>3. CASE j # i
    <3>1. From(j, SubSeq(PlannedWords, 1, Sent + 1)) = From(j, SubSeq(PlannedWords, 1, Sent))
      BY <1>1, <1>6, <2>3 DEF Selected
    <3> QED BY <1>1, <1>5, <2>1, <2>3, <3>1
  <2> QED BY <2>2, <2>3
<1>8. inputs' \in [{0, 1} -> Seq(MergedWord)]
  <2>1. inputs' = [j \in {0, 1} |-> inputs'[j]]
    BY <1>3 DEF WordsConserved
  <2> QED BY <1>7, <2>1
<1> QED BY <1>7, <1>8 DEF WordsConserved

LEMMA TakeConserves ==
    ASSUME WordsConserved, PlannedWords' = PlannedWords, UNCHANGED source,
           NEW i \in {0, 1}, Take(i)
    PROVE  WordsConserved' /\ Head(inputs[i]) \in WordTo(i) /\ Head(inputs[i]) \in MergedWord
<1> DEFINE w == Head(inputs[i])
<1>1. /\ inputs[i] # << >> /\ inputs' = [inputs EXCEPT ![i] = Tail(@)]
      /\ merged' = Append(merged, w)
  BY DEF Take, Ready
<1>2. /\ inputs[i] \in Seq(WordTo(i)) /\ inputs[i] \in Seq(MergedWord) /\ merged \in Seq(MergedWord)
  BY DEF WordsConserved
<1>3. w \in WordTo(i) /\ w \in MergedWord /\ w.dest = i
  BY <1>1, <1>2 DEF WordTo
<1> HIDE DEF w
<1>4. /\ inputs'[i] = Tail(inputs[i])
      /\ \A j \in {0, 1} : j # i => inputs'[j] = inputs[j]
  BY <1>1 DEF WordsConserved
<1>5. merged' \in Seq(MergedWord)
  BY <1>1, <1>2, <1>3, AppendedTo
<1>6. Sent' = Sent
  BY DEF Sent
<1>7. ASSUME NEW j \in {0, 1}
      PROVE  /\ inputs'[j] \in Seq(WordTo(j)) /\ inputs'[j] \in Seq(MergedWord)
             /\ From(j, merged') \o inputs'[j] = From(j, SubSeq(PlannedWords, 1, Sent))
  <2>1. /\ inputs[j] \in Seq(WordTo(j)) /\ inputs[j] \in Seq(MergedWord)
        /\ From(j, merged) \o inputs[j] = From(j, SubSeq(PlannedWords, 1, Sent))
        /\ From(j, merged) \in Seq(WordTo(j))
    BY FromType DEF WordsConserved
  <2>2. From(j, merged') = Selected(j, From(j, merged), w)
    BY <1>1, <1>2, <1>3, FromAppend
  <2>3. CASE j = i
    <3>1. Tail(inputs[j]) \in Seq(WordTo(j)) /\ Tail(inputs[j]) \in Seq(MergedWord)
      BY <1>1, <2>1, <2>3
    <3>2. From(j, merged') = Append(From(j, merged), Head(inputs[j]))
      BY <1>3, <2>2, <2>3 DEF Selected, w
    <3>3. Append(From(j, merged), Head(inputs[j])) \o Tail(inputs[j])
              = From(j, merged) \o inputs[j]
      BY <1>1, <2>1, <2>3, MoveHead
    <3> QED BY <1>4, <2>1, <2>3, <3>1, <3>2, <3>3
  <2>4. CASE j # i
    <3>1. From(j, merged') = From(j, merged)
      BY <1>3, <2>2, <2>4 DEF Selected
    <3> QED BY <1>4, <2>1, <2>4, <3>1
  <2> QED BY <2>3, <2>4
<1>8. inputs' \in [{0, 1} -> Seq(MergedWord)]
  <2>1. inputs' = [j \in {0, 1} |-> inputs'[j]]
    BY <1>1 DEF WordsConserved
  <2> QED BY <1>7, <2>1
<1> QED BY <1>3, <1>5, <1>6, <1>7, <1>8 DEF WordsConserved, w
-----------------------------------------------------------------------------
LEMMA StepWordsConserved ==
    ASSUME SplitInv, WordsConserved, [MergeNext]_mergeVars, merging # "stream_fold",
           merging \in {"stream_pkg_merger", "stream_merger_origin"} => origins \in Seq({0, 1})
    PROVE  WordsConserved'
<1>1. PlannedWords' = PlannedWords
  BY PlanStays
<1>2. ASSUME UNCHANGED <<source, inputs, merged>> PROVE WordsConserved'
  <2>1. Sent' = Sent BY <1>1, <1>2 DEF Sent
  <2> QED BY <1>1, <1>2, <2>1 DEF WordsConserved
<1>3. CASE Split
  <2>1. UNCHANGED merged
    BY <1>3 DEF Split
  <2>2. (\E i \in {0, 1} : SendsNext(i)) \/ UNCHANGED <<source, inputs>>
    BY <1>1, <1>3, SplitTracks
  <2> QED BY <1>1, <1>2, <2>1, <2>2, SendConserves
<1>4. CASE Merge
  <2>1. UNCHANGED source /\ ((\E i \in {0, 1} : Take(i)) \/ UNCHANGED <<inputs, merged>>)
    BY <1>4, MergeCases, MergeTakes DEF SplitInv
  <2> QED BY <1>1, <1>2, <2>1, TakeConserves
<1>5. CASE UNCHANGED mergeVars
  BY <1>2, <1>5 DEF mergeVars
<1> QED BY <1>3, <1>4, <1>5 DEF MergeNext

LEMMA SplitToAllConserves ==
    ASSUME SplitInv, FoldConserved, SplitToAll, PlannedWords' = PlannedWords, UNCHANGED merged
    PROVE  FoldConserved'
<1> DEFINE w == PlannedWords[Sent + 1]
<1>1. /\ Sent \in Nat /\ Sent < Len(PlannedWords) /\ Sent' = Sent + 1
      /\ Head(source) = w /\ w \in MergedWord
  BY SourceTail DEF SplitToAll
<1>2. PlannedWords \in Seq(MergedWord)
  BY PlannedWordsPacked DEF SplitInv, Packed
<1>3. SubSeq(PlannedWords, 1, Sent + 1) = Append(SubSeq(PlannedWords, 1, Sent), w)
  BY <1>1, <1>2, PrefixNext
<1> HIDE DEF w
<1>4. inputs' = [i \in {0, 1} |-> Append(inputs[i], w)]
  BY <1>1 DEF SplitToAll
<1>5. ASSUME NEW i \in {0, 1}
      PROVE  /\ Append(inputs[i], w) \in Seq(MergedWord)
             /\ merged \o Append(inputs[i], w) = SubSeq(PlannedWords, 1, Sent')
  <2>1. inputs[i] \in Seq(MergedWord) /\ merged \in Seq(MergedWord)
        /\ merged \o inputs[i] = SubSeq(PlannedWords, 1, Sent)
    BY DEF FoldConserved
  <2>2. Append(inputs[i], w) \in Seq(MergedWord)
    BY <1>1, <2>1, AppendedTo
  <2>3. merged \o Append(inputs[i], w) = Append(merged \o inputs[i], w)
    <3>1. w \in MergedWord BY <1>1
    <3>2. inputs[i] \in Seq(MergedWord) /\ merged \in Seq(MergedWord) BY <2>1
    <3> QED BY ONLY <3>1, <3>2, ConcatAppend
  <2> QED BY <1>1, <1>3, <2>1, <2>2, <2>3
<1>6. inputs' \in [{0, 1} -> Seq(MergedWord)]
      /\ \A i \in {0, 1} : inputs'[i] = Append(inputs[i], w)
  BY <1>4, <1>5
<1> QED BY <1>5, <1>6 DEF FoldConserved

(* The heads that are folded are one and the same word.                    *)
LEMMA FoldConserves ==
    ASSUME FoldConserved, StreamFold, PlannedWords' = PlannedWords, UNCHANGED source
    PROVE  FoldConserved'
<1>1. /\ inputs[0] \in Seq(MergedWord) /\ inputs[1] \in Seq(MergedWord) /\ merged \in Seq(MergedWord)
      /\ merged \o inputs[0] = merged \o inputs[1]
      /\ merged \o inputs[0] = SubSeq(PlannedWords, 1, Sent)
  BY DEF FoldConserved
<1>2. inputs[0] = inputs[1]
  BY <1>1, ConcatCancel
<1>3. /\ inputs[0] # << >>
      /\ merged' = Append(merged, Head(inputs[0]))
      /\ inputs' = [i \in {0, 1} |-> Tail(inputs[i])]
  BY <1>2 DEF StreamFold, AllReady, Ready, WordOf
<1>4. Head(inputs[0]) \in MergedWord /\ Tail(inputs[0]) \in Seq(MergedWord)
  BY <1>1, <1>3
<1>5. merged' \in Seq(MergedWord)
  BY <1>1, <1>3, <1>4, AppendedTo
<1>6. Append(merged, Head(inputs[0])) \o Tail(inputs[0]) = merged \o inputs[0]
  BY <1>1, <1>3, MoveHead
<1>7. \A i \in {0, 1} : inputs[i] = inputs[0]
  BY <1>2
<1>8. inputs' \in [{0, 1} -> Seq(MergedWord)] /\ \A i \in {0, 1} : inputs'[i] = Tail(inputs[0])
  BY <1>3, <1>4, <1>7
<1>9. Sent' = Sent
  BY DEF Sent
<1> QED BY <1>1, <1>3, <1>5, <1>6, <1>8, <1>9 DEF FoldConserved

LEMMA StepConservedInv ==
    ASSUME SplitInv, ConservedInv, [MergeNext]_mergeVars,
           merging \in {"stream_pkg_merger", "stream_merger_origin"} => origins \in Seq({0, 1})
    PROVE  ConservedInv'
<1>1. PlannedWords' = PlannedWords /\ UNCHANGED merging
  BY PlanStays
<1>2. CASE merging # "stream_fold"
  BY <1>1, <1>2, StepWordsConserved DEF ConservedInv
<1>3. CASE merging = "stream_fold"
  <2>1. FoldConserved
    BY <1>3 DEF ConservedInv
  <2>2. CASE Split
    <3>1. SplitToAll /\ UNCHANGED merged
      BY <1>3, <2>2 DEF Split
    <3>2. FoldConserved'
      BY <1>1, <2>1, <3>1, SplitToAllConserves
    <3> QED BY <1>1, <1>3, <3>2 DEF ConservedInv
  <2>3. CASE Merge
    <3>1. StreamFold /\ UNCHANGED source
      BY <1>3, <2>3, MergeCases DEF SplitInv
    <3>2. FoldConserved'
      BY <1>1, <2>1, <3>1, FoldConserves
    <3> QED BY <1>1, <1>3, <3>2 DEF ConservedInv
  <2>4. CASE UNCHANGED mergeVars
    <3>1. UNCHANGED <<source, inputs, merged>> BY <2>4 DEF mergeVars
    <3>2. Sent' = Sent BY <1>1, <3>1 DEF Sent
    <3> QED BY <1>1, <1>3, <2>1, <3>1, <3>2 DEF ConservedInv, FoldConserved
  <2> QED BY <2>2, <2>3, <2>4 DEF MergeNext
<1> QED BY <1>2, <1>3
-----------------------------------------------------------------------------
(* Of two sequences that are joined, the first is how a third one begins,  *)
(* and the second goes on with it.                                         *)
LEMMA BeginsConcat ==
    ASSUME NEW S, NEW s \in Seq(S), NEW t \in Seq(S), NEW all \in Seq(S), Begins(s \o t, all)
    PROVE  /\ Begins(s, all)
           /\ t # << >> => Len(s) < Len(all) /\ Head(t) = all[Len(s) + 1]
<1>1. PICK m \in Nat, n \in Nat, o \in Nat : m = Len(s) /\ n = Len(t) /\ o = Len(all)
  OBVIOUS
<1>2. /\ Len(s \o t) = m + n
      /\ \A k \in 1 .. m : (s \o t)[k] = s[k]
      /\ \A k \in 1 .. n : (s \o t)[m + k] = t[k]
  BY <1>1
<1>3. /\ m + n <= o
      /\ \A k \in 1 .. m + n : (s \o t)[k] = all[k]
  BY <1>1, <1>2 DEF Begins
<1>4. Begins(s, all)
  <2>1. ASSUME NEW k \in 1 .. m PROVE s[k] = all[k]
    <3>1. k \in 1 .. m + n OBVIOUS
    <3>2. (s \o t)[k] = s[k] BY <1>2
    <3>3. (s \o t)[k] = all[k] BY <1>3, <3>1
    <3> QED BY <3>2, <3>3
  <2> QED BY <1>1, <1>3, <2>1 DEF Begins
<1>5. ASSUME t # << >> PROVE Len(s) < Len(all) /\ Head(t) = all[Len(s) + 1]
  <2>1. n > 0 /\ Head(t) = t[1]
    BY <1>1, <1>5
  <2>2. t[1] = all[m + 1]
    BY <1>2, <1>3, <2>1
  <2> QED BY <1>1, <1>3, <2>1, <2>2
<1> QED BY <1>4, <1>5

LEMMA BeginsTrans ==
    ASSUME NEW S, NEW s \in Seq(S), NEW t \in Seq(S), NEW u \in Seq(S),
           Begins(s, t), Begins(t, u)
    PROVE  Begins(s, u)
<1>1. PICK m \in Nat, n \in Nat, o \in Nat : m = Len(s) /\ n = Len(t) /\ o = Len(u)
  OBVIOUS
<1>2. m <= n /\ n <= o /\ (\A k \in 1 .. m : s[k] = t[k]) /\ (\A k \in 1 .. n : t[k] = u[k])
  BY <1>1 DEF Begins
<1> QED BY <1>1, <1>2 DEF Begins

LEMMA SentRange ==
    SplitInv => /\ Packed(PlannedWords, plan) /\ PlannedWords \in Seq(MergedWord)
                /\ Len(PlannedWords) \in Nat /\ Len(plan) \in Nat
                /\ Sent \in Nat /\ Sent <= Len(PlannedWords)
<1> SUFFICES ASSUME SplitInv
             PROVE  /\ Packed(PlannedWords, plan) /\ PlannedWords \in Seq(MergedWord)
                    /\ Len(PlannedWords) \in Nat /\ Len(plan) \in Nat
                    /\ Sent \in Nat /\ Sent <= Len(PlannedWords)
  OBVIOUS
<1>1. Packed(PlannedWords, plan) /\ Len(plan) \in Nat
  BY PlannedWordsPacked DEF SplitInv, Plan
<1>2. PlannedWords \in Seq(MergedWord) /\ Len(PlannedWords) \in Nat
  BY <1>1 DEF Packed
<1>3. Len(source) \in Nat /\ Len(source) <= Len(PlannedWords)
  BY DEF SplitInv, Remains
<1> QED BY <1>1, <1>2, <1>3 DEF Sent

(* What was merged of an input, with what waits there, is how its words    *)
(* begin.                                                                  *)
LEMMA ConservedBegins ==
    ASSUME SplitInv, WordsConserved, NEW i \in {0, 1}
    PROVE  /\ From(i, merged) \in Seq(WordTo(i)) /\ inputs[i] \in Seq(WordTo(i))
           /\ From(i, PlannedWords) \in Seq(WordTo(i))
           /\ Begins(From(i, merged) \o inputs[i], From(i, PlannedWords))
<1>1. /\ PlannedWords \in Seq(MergedWord) /\ Len(PlannedWords) \in Nat
      /\ Sent \in Nat /\ Sent <= Len(PlannedWords)
  BY SentRange
<1>2. /\ From(i, merged) \in Seq(WordTo(i)) /\ inputs[i] \in Seq(WordTo(i))
      /\ From(i, PlannedWords) \in Seq(WordTo(i))
  BY <1>1, FromType DEF WordsConserved
<1>3. SubSeq(PlannedWords, 1, Len(PlannedWords)) = PlannedWords
  BY <1>1
<1>4. Begins(From(i, SubSeq(PlannedWords, 1, Sent)),
             From(i, SubSeq(PlannedWords, 1, Len(PlannedWords))))
  BY <1>1, FromGrows
<1>5. From(i, merged) \o inputs[i] = From(i, SubSeq(PlannedWords, 1, Sent))
  BY DEF WordsConserved
<1> QED BY <1>2, <1>3, <1>4, <1>5

LEMMA InputsInOrder == SplitInv /\ ConservedInv => EachInputInOrder
<1> SUFFICES ASSUME SplitInv, ConservedInv, merging # "stream_fold", NEW i \in {0, 1}
             PROVE  IsPrefix(From(i, merged), From(i, PlannedWords))
  BY DEF EachInputInOrder
<1>1. WordsConserved
  BY DEF ConservedInv
<1>2. /\ From(i, merged) \in Seq(WordTo(i)) /\ inputs[i] \in Seq(WordTo(i))
      /\ From(i, PlannedWords) \in Seq(WordTo(i))
      /\ Begins(From(i, merged) \o inputs[i], From(i, PlannedWords))
  BY <1>1, ConservedBegins
<1> DEFINE S == WordTo(i)
           f == From(i, merged)
           t == inputs[i]
           g == From(i, PlannedWords)
<1>3. f \in Seq(S) /\ t \in Seq(S) /\ g \in Seq(S) /\ Begins(f \o t, g)
  BY <1>2
<1> HIDE DEF S, f, t, g
<1>4. Begins(f, g)
  BY ONLY <1>3, BeginsConcat
<1>5. IsPrefix(f, g)
  BY ONLY <1>3, <1>4, BeginsIsPrefix
<1> QED BY <1>5 DEF f, g

(* When the words merged so far are the first ones and the next one is for *)
(* this input, it is the word that waits there.                            *)
LEMMA NextInOrder ==
    ASSUME SplitInv, WordsConserved, Begins(merged, PlannedWords),
           NEW i \in {0, 1}, inputs[i] # << >>,
           Len(merged) < Len(PlannedWords) => PlannedWords[Len(merged) + 1].dest = i
    PROVE  /\ Len(merged) \in Nat /\ Len(merged) < Len(PlannedWords)
           /\ Head(inputs[i]) = PlannedWords[Len(merged) + 1]
           /\ Begins(Append(merged, Head(inputs[i])), PlannedWords)
<1> DEFINE m == Len(merged)
           f(k) == From(i, SubSeq(PlannedWords, 1, k))
<1>1. /\ PlannedWords \in Seq(MergedWord) /\ Len(PlannedWords) \in Nat
      /\ Sent \in Nat /\ Sent <= Len(PlannedWords)
  BY SentRange
<1>2. /\ merged \in Seq(MergedWord) /\ inputs[i] \in Seq(WordTo(i))
      /\ From(i, merged) \o inputs[i] = f(Sent)
  BY DEF WordsConserved
<1>3. m \in Nat /\ m <= Len(PlannedWords) /\ \A k \in 1 .. m : merged[k] = PlannedWords[k]
  BY <1>2 DEF Begins
<1>4. merged = SubSeq(PlannedWords, 1, m)
  <2>1. /\ SubSeq(PlannedWords, 1, m) \in Seq(MergedWord) /\ Len(SubSeq(PlannedWords, 1, m)) = m
        /\ \A k \in 1 .. m : SubSeq(PlannedWords, 1, m)[k] = PlannedWords[k]
    BY <1>1, <1>3, Prefix
  <2> QED BY <1>2, <1>3, <2>1, SeqEqual
<1> HIDE DEF f
<1>5. From(i, merged) = f(m)
  BY <1>4 DEF f
<1>6. f(m) \in Seq(WordTo(i)) /\ f(Sent) \in Seq(WordTo(i))
  BY <1>1, <1>3, FromPrefix DEF f
<1>7. PICK a \in Nat, b \in Nat \ {0} :
          /\ a = Len(f(m)) /\ b = Len(inputs[i]) /\ Len(f(Sent)) = a + b
          /\ f(Sent)[a + 1] = Head(inputs[i])
  <2> DEFINE S == WordTo(i)
             s == f(m)
             t == inputs[i]
  <2>1. s \in Seq(S) /\ t \in Seq(S) /\ t # << >> /\ s \o t = f(Sent)
    BY <1>2, <1>5, <1>6
  <2> HIDE DEF S, s, t
  <2>2. /\ Len(s) \in Nat /\ Len(t) \in Nat \ {0} /\ Len(s \o t) = Len(s) + Len(t)
        /\ (s \o t)[Len(s) + 1] = Head(t)
    BY ONLY <2>1
  <2> QED BY <2>1, <2>2 DEF s, t
<1>8. m < Sent
  <2> SUFFICES ASSUME Sent <= m PROVE FALSE
    BY <1>1, <1>3
  <2>1. Begins(f(Sent), f(m))
    BY <1>1, <1>3, FromGrows DEF f
  <2>2. Len(f(Sent)) <= Len(f(m))
    BY <2>1 DEF Begins
  <2> QED BY <1>7, <2>2
<1>9. m < Len(PlannedWords) /\ PlannedWords[m + 1].dest = i
  BY <1>1, <1>3, <1>8
<1>10. f(m + 1) = Append(f(m), PlannedWords[m + 1]) /\ PlannedWords[m + 1] \in WordTo(i)
  <2>1. f(m + 1) = Selected(i, f(m), PlannedWords[m + 1])
    BY <1>1, <1>3, <1>9, FromNext DEF f
  <2>2. PlannedWords[m + 1] \in MergedWord
    BY <1>1, <1>3, <1>9
  <2> QED BY <1>9, <2>1, <2>2 DEF Selected, WordTo
<1>11. Len(f(m + 1)) = a + 1 /\ f(m + 1)[a + 1] = PlannedWords[m + 1]
  <2> DEFINE S == WordTo(i)
             s == f(m)
             e == PlannedWords[m + 1]
  <2>1. s \in Seq(S) /\ e \in S /\ a = Len(s)
    BY <1>6, <1>7, <1>10
  <2> HIDE DEF S, s, e
  <2>2. Len(Append(s, e)) = a + 1 /\ Append(s, e)[a + 1] = e
    BY ONLY <2>1, AppendedTo
  <2> QED BY <1>10, <2>2 DEF s, e
<1>12. Begins(f(m + 1), f(Sent))
  <2>1. m + 1 \in Nat /\ m + 1 <= Sent BY <1>1, <1>3, <1>8
  <2> QED BY <1>1, <2>1, FromGrows DEF f
<1>13. Head(inputs[i]) = PlannedWords[m + 1]
  <2>1. a + 1 \in 1 .. Len(f(m + 1)) BY <1>7, <1>11
  <2>2. f(m + 1)[a + 1] = f(Sent)[a + 1] BY <1>12, <2>1 DEF Begins
  <2> QED BY <1>7, <1>11, <2>2
<1>14. Begins(Append(merged, PlannedWords[m + 1]), PlannedWords)
  <2>1. PlannedWords[m + 1] \in MergedWord BY <1>1, <1>3, <1>9
  <2>2. /\ Len(Append(merged, PlannedWords[m + 1])) = m + 1
        /\ \A k \in 1 .. m : Append(merged, PlannedWords[m + 1])[k] = merged[k]
        /\ Append(merged, PlannedWords[m + 1])[m + 1] = PlannedWords[m + 1]
    BY <1>2, <2>1, AppendedTo
  <2>3. \A k \in 1 .. m + 1 : k \in 1 .. m \/ k = m + 1
    BY <1>3
  <2>4. m + 1 <= Len(PlannedWords)
    BY <1>1, <1>3, <1>9
  <2> HIDE DEF m
  <2> QED BY <1>3, <2>2, <2>3, <2>4 DEF Begins
<1> QED BY <1>3, <1>9, <1>13, <1>14
-----------------------------------------------------------------------------
(* What a merger that is told the origins does in a step.                  *)
TellsOrigin(i) ==
    /\ mgState = "IDLE" /\ origins # << >> /\ i = Head(origins) /\ i \in {0, 1}
    /\ origins' = Tail(origins)

LEMMA ByOriginSteps ==
    ASSUME NEW packages \in BOOLEAN, ByOrigin(packages), origins \in Seq({0, 1})
    PROVE  \E i \in {0, 1} :
              \/ TellsOrigin(i) /\ Take(i) /\ mgState' = NextOrigin(packages, WordOf(i), i)
              \/ TellsOrigin(i) /\ UNCHANGED merged /\ mgState' = Forwarding(i)
              \/ /\ mgState = Forwarding(i) /\ Take(i) /\ UNCHANGED origins
                 /\ mgState' = NextOrigin(packages, WordOf(i), i)
<1>1. origins # << >> => Head(origins) \in {0, 1}
  OBVIOUS
<1>2. CASE /\ mgState = "IDLE" /\ origins # << >> /\ origins' = OriginsLeft
           /\ LET i == Head(origins) IN
              IF Ready(i) THEN Take(i) /\ mgState' = NextOrigin(packages, WordOf(i), i)
                          ELSE Waits /\ mgState' = Forwarding(i)
  <2> DEFINE i == Head(origins)
  <2>1. TellsOrigin(i) /\ i \in {0, 1}
    BY <1>1, <1>2, Zenon DEF TellsOrigin, OriginsLeft
  <2>2. \/ Take(i) /\ mgState' = NextOrigin(packages, WordOf(i), i)
        \/ UNCHANGED merged /\ mgState' = Forwarding(i)
    BY <1>2, Zenon DEF Waits
  <2> HIDE DEF i
  <2> QED BY <2>1, <2>2, Zenon
<1>3. CASE /\ \E i \in {0, 1} : /\ mgState = Forwarding(i) /\ Take(i)
                                /\ mgState' = NextOrigin(packages, WordOf(i), i)
           /\ UNCHANGED <<origins, merge_pref>>
  BY <1>3, Zenon
<1> QED BY <1>2, <1>3, Zenon DEF ByOrigin

LEMMA OriginsTail ==
    ASSUME SplitInv, origins \in Seq({0, 1}), Remains(origins, PlannedOrigins),
           Len(PlannedOrigins) \in Nat, NEW i, TellsOrigin(i)
    PROVE  LET taken == Len(PlannedOrigins) - Len(origins) IN
           /\ taken \in Nat /\ taken + 1 <= Len(PlannedOrigins)
           /\ Len(PlannedOrigins) - Len(origins') = taken + 1
           /\ PlannedOrigins[taken + 1] = i
           /\ origins' \in Seq({0, 1}) /\ Remains(origins', PlannedOrigins)
<1>1. /\ Len(origins) \in Nat \ {0} /\ Len(origins) <= Len(PlannedOrigins)
      /\ Tail(origins) \in Seq({0, 1}) /\ Len(Tail(origins)) = Len(origins) - 1
      /\ Head(origins) = PlannedOrigins[(Len(PlannedOrigins) - Len(origins)) + 1]
      /\ Remains(Tail(origins), PlannedOrigins)
  BY RemainsTail DEF TellsOrigin
<1> QED BY <1>1 DEF TellsOrigin

LEMMA PlannedOriginsAre ==
    ASSUME SplitInv
    PROVE  /\ merging # "stream_merger_origin" =>
                 /\ Len(PlannedOrigins) = Len(plan)
                 /\ \A p \in 1 .. Len(plan) : PlannedOrigins[p] = plan[p].dest
           /\ merging = "stream_merger_origin" =>
                 /\ Len(PlannedOrigins) = Len(PlannedWords)
                 /\ \A k \in 1 .. Len(PlannedWords) : PlannedOrigins[k] = PlannedWords[k].dest
<1>1. Len(plan) \in Nat /\ Len(PlannedWords) \in Nat
  BY SentRange
<1> QED BY <1>1 DEF PlannedOrigins

LEMMA MergedLonger ==
    ASSUME WordsConserved, NEW i \in {0, 1}, Take(i)
    PROVE  /\ inputs[i] # << >> /\ merged' = Append(merged, Head(inputs[i]))
           /\ Len(merged) \in Nat /\ Len(merged') = Len(merged) + 1
           /\ Head(inputs[i]) \in MergedWord /\ Head(inputs[i]).dest = i
<1>1. inputs[i] # << >> /\ merged' = Append(merged, Head(inputs[i]))
  BY DEF Take, Ready
<1>2. inputs[i] \in Seq(WordTo(i)) /\ merged \in Seq(MergedWord)
  BY DEF WordsConserved
<1>3. Head(inputs[i]) \in WordTo(i)
  BY <1>1, <1>2
<1>4. Head(inputs[i]) \in MergedWord /\ Head(inputs[i]).dest = i
  BY <1>3 DEF WordTo
<1>5. Len(merged) \in Nat /\ Len(Append(merged, Head(inputs[i]))) = Len(merged) + 1
  BY <1>2
<1> QED BY <1>1, <1>4, <1>5

PackagesRestored ==
    /\ Begins(merged, PlannedWords)
    /\ origins \in Seq({0, 1}) /\ Remains(origins, PlannedOrigins)
    /\ Tracks(mgState, Len(plan) - Len(origins), Len(merged), PlannedWords, plan)

LEMMA PackageMergerRestores ==
    ASSUME SplitInv, WordsConserved, merging = "stream_pkg_merger", PackagesRestored,
           StreamPkgMerger, UNCHANGED plan,
           PlannedWords' = PlannedWords, PlannedOrigins' = PlannedOrigins
    PROVE  PackagesRestored'
<1> DEFINE m == Len(merged)
           taken == Len(plan) - Len(origins)
<1>1. /\ Packed(PlannedWords, plan) /\ Len(plan) \in Nat
      /\ PlannedWords \in Seq(MergedWord) /\ Len(PlannedWords) \in Nat
  BY SentRange
<1>2. /\ Len(PlannedOrigins) = Len(plan)
      /\ \A p \in 1 .. Len(plan) : PlannedOrigins[p] = plan[p].dest
  BY PlannedOriginsAre
<1>3. /\ Begins(merged, PlannedWords)
      /\ origins \in Seq({0, 1}) /\ Remains(origins, PlannedOrigins)
      /\ Tracks(mgState, taken, m, PlannedWords, plan)
      /\ m \in Nat
  BY DEF PackagesRestored, WordsConserved
<1>4. PICK i \in {0, 1} :
          \/ TellsOrigin(i) /\ Take(i) /\ mgState' = NextOrigin(TRUE, WordOf(i), i)
          \/ TellsOrigin(i) /\ UNCHANGED merged /\ mgState' = Forwarding(i)
          \/ /\ mgState = Forwarding(i) /\ Take(i) /\ UNCHANGED origins
             /\ mgState' = NextOrigin(TRUE, WordOf(i), i)
  BY <1>3, ByOriginSteps DEF StreamPkgMerger
<1>5. TellsOrigin(i) =>
          /\ taken \in Nat /\ taken + 1 \in 1 .. Len(plan)
          /\ Len(plan) - Len(origins') = taken + 1 /\ plan[taken + 1].dest = i
          /\ origins' \in Seq({0, 1}) /\ Remains(origins', PlannedOrigins)
          /\ Tracks("IDLE", taken, m, PlannedWords, plan)
  <2> SUFFICES ASSUME TellsOrigin(i)
               PROVE  /\ taken \in Nat /\ taken + 1 \in 1 .. Len(plan)
                      /\ Len(plan) - Len(origins') = taken + 1 /\ plan[taken + 1].dest = i
                      /\ origins' \in Seq({0, 1}) /\ Remains(origins', PlannedOrigins)
                      /\ Tracks("IDLE", taken, m, PlannedWords, plan)
    OBVIOUS
  <2>1. mgState = "IDLE" BY DEF TellsOrigin
  <2>2. Len(PlannedOrigins) \in Nat BY <1>1, <1>2
  <2>3. /\ taken \in Nat /\ taken + 1 <= Len(plan)
        /\ Len(plan) - Len(origins') = taken + 1
        /\ PlannedOrigins[taken + 1] = i
        /\ origins' \in Seq({0, 1}) /\ Remains(origins', PlannedOrigins)
    BY <1>2, <1>3, <2>2, OriginsTail
  <2>4. taken + 1 \in 1 .. Len(plan) BY <1>1, <2>3
  <2> QED BY <1>2, <1>3, <2>1, <2>3, <2>4
<1> HIDE DEF m, taken
(* The word that is taken is the next one, and the state is right after it. *)
<1>6. ASSUME NEW t \in 1 .. Len(plan), plan[t].dest = i, Take(i),
             m < Len(PlannedWords) => PlannedWords[m + 1].package = t,
             mgState' = NextOrigin(TRUE, WordOf(i), i)
      PROVE  /\ Begins(merged', PlannedWords)
             /\ Tracks(mgState', t, Len(merged'), PlannedWords, plan)
  <2>1. /\ inputs[i] # << >> /\ merged' = Append(merged, Head(inputs[i]))
        /\ Len(merged') = m + 1
    BY <1>6, MergedLonger DEF m
  <2>2. m < Len(PlannedWords) => PlannedWords[m + 1].dest = i
    <3>1. m < Len(PlannedWords) => m + 1 \in 1 .. Len(PlannedWords)
      BY <1>1, <1>3
    <3> QED BY <1>1, <1>6, <3>1 DEF Packed
  <2>3. /\ m < Len(PlannedWords)
        /\ Head(inputs[i]) = PlannedWords[m + 1]
        /\ Begins(Append(merged, Head(inputs[i])), PlannedWords)
    BY <1>3, <2>1, <2>2, NextInOrder DEF m
  <2>4. Tracks(AfterWord(PlannedWords[m + 1], i), t, m + 1, PlannedWords, plan)
    BY <1>1, <1>3, <1>6, <2>3, WordPassed
  <2>5. mgState' = AfterWord(PlannedWords[m + 1], i)
    BY <1>6, <2>3 DEF NextOrigin, WordOf
  <2> QED BY <2>1, <2>3, <2>4, <2>5
<1>7. CASE TellsOrigin(i) /\ Take(i) /\ mgState' = NextOrigin(TRUE, WordOf(i), i)
  <2>1. m < Len(PlannedWords) => PlannedWords[m + 1].package = taken + 1
    BY <1>5, <1>7 DEF Tracks
  <2>2. /\ Begins(merged', PlannedWords)
        /\ Tracks(mgState', taken + 1, Len(merged'), PlannedWords, plan)
    BY <1>5, <1>6, <1>7, <2>1
  <2> QED BY <1>5, <1>7, <2>2 DEF PackagesRestored
<1>8. CASE TellsOrigin(i) /\ UNCHANGED merged /\ mgState' = Forwarding(i)
  <2>1. taken + 1 <= Len(plan) BY <1>1, <1>5, <1>8
  <2>2. Tracks(Forwarding(i), taken + 1, m, PlannedWords, plan)
    BY <1>1, <1>3, <1>5, <1>8, <2>1, DestinationTaken
  <2>3. Len(merged') = m BY <1>8 DEF m
  <2> QED BY <1>3, <1>5, <1>8, <2>2, <2>3 DEF PackagesRestored
<1>9. CASE /\ mgState = Forwarding(i) /\ Take(i) /\ UNCHANGED origins
           /\ mgState' = NextOrigin(TRUE, WordOf(i), i)
  <2>1. /\ taken \in 0 .. Len(plan) /\ taken > 0 /\ plan[taken].dest = i
        /\ m < Len(PlannedWords) => PlannedWords[m + 1].package = taken
    BY <1>3, <1>9 DEF Tracks
  <2>2. taken \in 1 .. Len(plan) BY <1>1, <2>1
  <2>3. /\ Begins(merged', PlannedWords)
        /\ Tracks(mgState', taken, Len(merged'), PlannedWords, plan)
    BY <1>6, <1>9, <2>1, <2>2
  <2>4. Len(plan) - Len(origins') = taken BY <1>9 DEF taken
  <2> QED BY <1>3, <1>9, <2>3, <2>4 DEF PackagesRestored
<1> QED BY <1>4, <1>7, <1>8, <1>9

OriginsRestored ==
    LET taken == Len(PlannedWords) - Len(origins) IN
    /\ Begins(merged, PlannedWords)
    /\ origins \in Seq({0, 1}) /\ Remains(origins, PlannedOrigins)
    /\ \/ mgState = "IDLE" /\ taken = Len(merged)
       \/ \E i \in {0, 1} : /\ mgState = Forwarding(i) /\ taken = Len(merged) + 1
                            /\ PlannedWords[taken].dest = i

LEMMA OriginMergerRestores ==
    ASSUME SplitInv, WordsConserved, merging = "stream_merger_origin", OriginsRestored,
           StreamMergerOrigin, PlannedWords' = PlannedWords, PlannedOrigins' = PlannedOrigins
    PROVE  OriginsRestored'
<1> DEFINE m == Len(merged)
           taken == Len(PlannedWords) - Len(origins)
<1>1. PlannedWords \in Seq(MergedWord) /\ Len(PlannedWords) \in Nat
  BY SentRange
<1>2. /\ Len(PlannedOrigins) = Len(PlannedWords)
      /\ \A k \in 1 .. Len(PlannedWords) : PlannedOrigins[k] = PlannedWords[k].dest
  BY PlannedOriginsAre
<1>3. /\ Begins(merged, PlannedWords) /\ m \in Nat
      /\ origins \in Seq({0, 1}) /\ Remains(origins, PlannedOrigins)
      /\ \/ mgState = "IDLE" /\ taken = m
         \/ \E i \in {0, 1} : /\ mgState = Forwarding(i) /\ taken = m + 1
                              /\ PlannedWords[taken].dest = i
  BY DEF OriginsRestored, WordsConserved
<1>4. PICK i \in {0, 1} :
          \/ TellsOrigin(i) /\ Take(i) /\ mgState' = NextOrigin(FALSE, WordOf(i), i)
          \/ TellsOrigin(i) /\ UNCHANGED merged /\ mgState' = Forwarding(i)
          \/ /\ mgState = Forwarding(i) /\ Take(i) /\ UNCHANGED origins
             /\ mgState' = NextOrigin(FALSE, WordOf(i), i)
  BY <1>3, ByOriginSteps DEF StreamMergerOrigin
<1>5. /\ \A j \in {0, 1} : Forwarding(j) # "IDLE" /\ (Forwarding(j) = Forwarding(i) => j = i)
  BY DEF Forwarding
<1>6. TellsOrigin(i) =>
          /\ taken = m /\ m + 1 <= Len(PlannedWords)
          /\ Len(PlannedWords) - Len(origins') = m + 1 /\ PlannedWords[m + 1].dest = i
          /\ origins' \in Seq({0, 1}) /\ Remains(origins', PlannedOrigins)
  <2> SUFFICES ASSUME TellsOrigin(i)
               PROVE  /\ taken = m /\ m + 1 <= Len(PlannedWords)
                      /\ Len(PlannedWords) - Len(origins') = m + 1
                      /\ PlannedWords[m + 1].dest = i
                      /\ origins' \in Seq({0, 1}) /\ Remains(origins', PlannedOrigins)
    OBVIOUS
  <2>1. taken = m BY <1>3, <1>5 DEF TellsOrigin
  <2>2. Len(PlannedOrigins) \in Nat BY <1>1, <1>2
  <2>3. /\ taken \in Nat /\ taken + 1 <= Len(PlannedWords)
        /\ Len(PlannedWords) - Len(origins') = taken + 1
        /\ PlannedOrigins[taken + 1] = i
        /\ origins' \in Seq({0, 1}) /\ Remains(origins', PlannedOrigins)
    BY <1>2, <1>3, <2>2, OriginsTail
  <2>4. taken + 1 \in 1 .. Len(PlannedWords) BY <1>1, <2>3
  <2> QED BY <1>2, <2>1, <2>3, <2>4
<1> HIDE DEF m, taken
<1>7. ASSUME Take(i), m < Len(PlannedWords) => PlannedWords[m + 1].dest = i
      PROVE  Begins(merged', PlannedWords) /\ Len(merged') = m + 1
  <2>1. /\ inputs[i] # << >> /\ merged' = Append(merged, Head(inputs[i]))
        /\ Len(merged') = m + 1
    BY <1>7, MergedLonger DEF m
  <2>2. Begins(Append(merged, Head(inputs[i])), PlannedWords)
    BY <1>3, <1>7, <2>1, NextInOrder DEF m
  <2> QED BY <2>1, <2>2
<1>8. CASE TellsOrigin(i) /\ Take(i) /\ mgState' = NextOrigin(FALSE, WordOf(i), i)
  <2>1. Begins(merged', PlannedWords) /\ Len(merged') = m + 1
    BY <1>6, <1>7, <1>8
  <2>2. mgState' = "IDLE" BY <1>8 DEF NextOrigin
  <2> QED BY <1>6, <1>8, <2>1, <2>2 DEF OriginsRestored
<1>9. CASE TellsOrigin(i) /\ UNCHANGED merged /\ mgState' = Forwarding(i)
  <2>1. Len(merged') = m BY <1>9 DEF m
  <2> QED BY <1>3, <1>6, <1>9, <2>1 DEF OriginsRestored
<1>10. CASE /\ mgState = Forwarding(i) /\ Take(i) /\ UNCHANGED origins
            /\ mgState' = NextOrigin(FALSE, WordOf(i), i)
  <2>1. taken = m + 1 /\ PlannedWords[m + 1].dest = i
    BY <1>3, <1>5, <1>10
  <2>2. Begins(merged', PlannedWords) /\ Len(merged') = m + 1
    BY <1>7, <1>10, <2>1
  <2>3. mgState' = "IDLE" BY <1>10 DEF NextOrigin
  <2>4. Len(PlannedWords) - Len(origins') = m + 1 BY <1>10, <2>1 DEF taken
  <2> QED BY <1>3, <1>10, <2>2, <2>3, <2>4 DEF OriginsRestored
<1> QED BY <1>4, <1>8, <1>9, <1>10
-----------------------------------------------------------------------------
idx == IF merge_pref THEN 0 ELSE 1

TurnsRestored ==
    /\ Begins(merged, PlannedWords)
    /\ Len(merged) < Len(PlannedWords) => PlannedWords[Len(merged) + 1].dest = idx

LEMMA RoundRobinSteps ==
    ASSUME Concatenator
    PROVE  /\ Take(idx) /\ idx \in {0, 1} /\ UNCHANGED <<origins, mgState>>
           /\ WordOf(idx).last => merge_pref' = ~merge_pref
           /\ ~WordOf(idx).last => merge_pref' = merge_pref
<1> DEFINE last == WordOf(idx).last
<1>1. Take(idx) /\ merge_pref' = (IF TRUE => last THEN ~merge_pref ELSE merge_pref)
      /\ UNCHANGED <<origins, mgState>>
  BY Zenon DEF Concatenator, RoundRobin, idx
<1> HIDE DEF last
<1>2. /\ last => merge_pref' = ~merge_pref
      /\ ~last => merge_pref' = merge_pref
  BY <1>1
<1>3. idx \in {0, 1}
  BY DEF idx
<1> QED BY <1>1, <1>2, <1>3 DEF last

LEMMA ConcatenatorRestores ==
    ASSUME SplitInv, WordsConserved, Alternating, TurnsRestored, Concatenator,
           PlannedWords' = PlannedWords
    PROVE  TurnsRestored'
<1> DEFINE m == Len(merged)
<1>1. /\ Packed(PlannedWords, plan) /\ Len(plan) \in Nat
      /\ PlannedWords \in Seq(MergedWord) /\ Len(PlannedWords) \in Nat
  BY SentRange
<1>2. /\ Begins(merged, PlannedWords)
      /\ m < Len(PlannedWords) => PlannedWords[m + 1].dest = idx
  BY DEF TurnsRestored
<1>3. /\ Take(idx) /\ idx \in {0, 1}
      /\ WordOf(idx).last => merge_pref' = ~merge_pref
      /\ ~WordOf(idx).last => merge_pref' = merge_pref
  BY RoundRobinSteps
<1>4. PICK i \in {0, 1} : i = idx
  BY <1>3
<1>5. Take(i) BY <1>3, <1>4
<1>6. /\ inputs[i] # << >> /\ merged' = Append(merged, Head(inputs[i]))
      /\ m \in Nat /\ Len(merged') = m + 1
  BY <1>5, MergedLonger
<1>7. /\ m < Len(PlannedWords)
      /\ Head(inputs[i]) = PlannedWords[m + 1]
      /\ Begins(merged', PlannedWords)
  BY <1>2, <1>4, <1>6, NextInOrder
<1> HIDE DEF m
<1> DEFINE w == PlannedWords[m + 1]
           v == PlannedWords[(m + 1) + 1]
<1>8. ASSUME m + 1 < Len(PlannedWords) PROVE v.dest = idx'
  <2>1. /\ m + 1 \in 1 .. Len(PlannedWords) - 1 /\ m + 1 \in 1 .. Len(PlannedWords)
        /\ (m + 1) + 1 \in 1 .. Len(PlannedWords)
    BY <1>1, <1>6, <1>8
  <2>2. /\ v.package = IF w.last THEN w.package + 1 ELSE w.package
        /\ w.package \in 1 .. Len(plan) /\ v.package \in 1 .. Len(plan)
        /\ w.dest = plan[w.package].dest /\ v.dest = plan[v.package].dest
    BY <1>1, <2>1 DEF Packed
  <2>3. w.dest = i /\ (w.last => merge_pref' = ~merge_pref) /\ (~w.last => merge_pref' = merge_pref)
    BY <1>2, <1>3, <1>4, <1>7 DEF WordOf
  <2> HIDE DEF w, v
  <2>4. CASE w.last
    <3>1. PICK p \in Nat : p = w.package BY <2>2
    <3>2. w.dest = (p + 1) % 2 /\ v.dest = ((p + 1) + 1) % 2
      BY <2>2, <2>4, <3>1 DEF Alternating
    <3>3. ((p + 1) + 1) % 2 = 1 - ((p + 1) % 2)
      OBVIOUS
    <3>4. v.dest = 1 - i
      BY <2>3, <3>2, <3>3
    <3>5. idx' = 1 - idx
      <4>1. CASE merge_pref
        <5>1. idx = 0 BY <4>1, Zenon DEF idx
        <5>2. ~merge_pref' BY <2>3, <2>4, <4>1, Zenon
        <5>3. idx' = 1 BY <5>2, Zenon DEF idx
        <5> QED BY <5>1, <5>3
      <4>2. CASE ~merge_pref
        <5>1. idx = 1 BY <4>2, Zenon DEF idx
        <5>2. merge_pref' BY <2>3, <2>4, <4>2, Zenon
        <5>3. idx' = 0 BY <5>2, Zenon DEF idx
        <5> QED BY <5>1, <5>3
      <4> QED BY <4>1, <4>2
    <3> QED BY <1>4, <3>4, <3>5
  <2>5. CASE ~w.last
    <3>1. v.dest = w.dest BY <2>2, <2>5
    <3>2. idx' = idx BY <2>3, <2>5 DEF idx
    <3> QED BY <1>4, <2>3, <3>1, <3>2
  <2> QED BY <2>4, <2>5
<1> QED BY <1>6, <1>7, <1>8 DEF TurnsRestored

RestoredInv ==
    /\ merging = "stream_pkg_merger" => PackagesRestored
    /\ merging = "stream_merger_origin" => OriginsRestored
    /\ merging = "concat" /\ Alternating => TurnsRestored

LEMMA InitRestoredInv == MergeInit => RestoredInv
<1> SUFFICES ASSUME MergeInit PROVE RestoredInv
  OBVIOUS
<1>1. SplitInv
  BY InitSplitInv
<1>2. /\ Packed(PlannedWords, plan) /\ Len(plan) \in Nat
      /\ PlannedWords \in Seq(MergedWord) /\ Len(PlannedWords) \in Nat
  BY <1>1, SentRange
<1>3. merged = << >> /\ Len(merged) = 0 /\ mgState = "IDLE" /\ merge_pref = TRUE
      /\ origins = PlannedOrigins
  BY DEF MergeInit
<1>4. Begins(merged, PlannedWords)
  BY <1>2, <1>3 DEF Begins
<1>5. /\ merging # "stream_merger_origin" =>
            /\ Len(origins) = Len(plan)
            /\ \A p \in 1 .. Len(plan) : origins[p] = plan[p].dest
      /\ merging = "stream_merger_origin" =>
            /\ Len(origins) = Len(PlannedWords)
            /\ \A k \in 1 .. Len(PlannedWords) : origins[k] = PlannedWords[k].dest
  BY <1>1, <1>3, PlannedOriginsAre
<1>6. origins \in Seq({0, 1})
  <2>1. CASE merging = "stream_merger_origin"
    <3>1. \A k \in 1 .. Len(PlannedWords) : PlannedWords[k].dest \in {0, 1}
      <4>1. \A k \in 1 .. Len(PlannedWords) : PlannedWords[k] \in MergedWord BY <1>2
      <4> QED BY <4>1 DEF MergedWord
    <3>2. [k \in 1 .. Len(PlannedWords) |-> PlannedWords[k].dest] \in Seq({0, 1})
      BY <1>2, <3>1
    <3> QED BY <1>3, <2>1, <3>2 DEF PlannedOrigins
  <2>2. CASE merging # "stream_merger_origin"
    <3>1. dests \in Seq({0, 1}) /\ dests = [p \in 1 .. Len(plan) |-> plan[p].dest]
      BY <1>1 DEF SplitInv, MergeInit
    <3> QED BY <1>3, <2>2, <3>1 DEF PlannedOrigins
  <2> QED BY <2>1, <2>2
<1>7. Remains(origins, PlannedOrigins)
  <2>1. Len(origins) \in Nat BY <1>6
  <2> QED BY <1>3, <2>1 DEF Remains
<1>8. Len(PlannedWords) > 0 => PlannedWords[1].package = 1
  BY <1>2 DEF Packed
<1>9. merging = "stream_pkg_merger" => PackagesRestored
  <2> SUFFICES ASSUME merging = "stream_pkg_merger"
               PROVE  Tracks(mgState, Len(plan) - Len(origins), Len(merged), PlannedWords, plan)
    BY <1>4, <1>6, <1>7 DEF PackagesRestored
  <2>1. Len(plan) - Len(origins) = 0 BY <1>2, <1>5
  <2>2. \A i \in {0, 1} : Forwarding(i) # "IDLE" BY DEF Forwarding
  <2>3. 0 \in 0 .. Len(plan) BY <1>2
  <2>4. 0 < Len(PlannedWords) => PlannedWords[0 + 1].package = 0 + 1 BY <1>8
  <2> QED BY <1>3, <2>1, <2>2, <2>3, <2>4 DEF Tracks
<1>10. merging = "stream_merger_origin" => OriginsRestored
  BY <1>2, <1>3, <1>4, <1>5, <1>6, <1>7 DEF OriginsRestored
<1>11. merging = "concat" /\ Alternating => TurnsRestored
  <2> SUFFICES ASSUME Alternating, 0 < Len(PlannedWords) PROVE PlannedWords[1].dest = idx
    BY <1>3, <1>4 DEF TurnsRestored
  <2>1. 1 \in 1 .. Len(PlannedWords) /\ 1 \in 1 .. Len(plan)
        /\ PlannedWords[1].dest = plan[1].dest
    BY <1>2, <1>8 DEF Packed
  <2>2. (1 + 1) % 2 = 0 OBVIOUS
  <2>3. plan[1].dest = 0 BY <2>1, <2>2 DEF Alternating
  <2> QED BY <1>3, <2>1, <2>3 DEF idx
<1> QED BY <1>9, <1>10, <1>11 DEF RestoredInv

LEMMA StepRestoredInv ==
    SplitInv /\ ConservedInv /\ RestoredInv /\ [MergeNext]_mergeVars => RestoredInv'
<1> SUFFICES ASSUME SplitInv, ConservedInv, RestoredInv, [MergeNext]_mergeVars
             PROVE  RestoredInv'
  OBVIOUS
<1>1. /\ UNCHANGED <<merging, plan>>
      /\ PlannedWords' = PlannedWords /\ PlannedOrigins' = PlannedOrigins
  BY PlanStays
<1>2. CASE UNCHANGED <<origins, mgState, merge_pref, merged>>
  <2>1. idx' = idx BY <1>2 DEF idx
  <2>2. Alternating' = Alternating BY <1>1 DEF Alternating
  <2>3. PackagesRestored => PackagesRestored'
    BY <1>1, <1>2 DEF PackagesRestored
  <2>4. OriginsRestored => OriginsRestored'
    BY <1>1, <1>2 DEF OriginsRestored
  <2>5. TurnsRestored => TurnsRestored'
    BY <1>1, <1>2, <2>1 DEF TurnsRestored
  <2> QED BY <1>1, <2>2, <2>3, <2>4, <2>5 DEF RestoredInv
<1>3. CASE Merge
  <2>1. /\ merging = "stream_pkg_merger" => StreamPkgMerger
        /\ merging = "stream_merger_origin" => StreamMergerOrigin
        /\ merging = "concat" => Concatenator
    BY <1>3, MergeCases DEF SplitInv
  <2>2. merging \in {"stream_pkg_merger", "stream_merger_origin", "concat"} => WordsConserved
    BY DEF ConservedInv
  <2>3. merging = "stream_pkg_merger" => PackagesRestored'
    BY <1>1, <2>1, <2>2, PackageMergerRestores DEF RestoredInv
  <2>4. merging = "stream_merger_origin" => OriginsRestored'
    BY <1>1, <2>1, <2>2, OriginMergerRestores DEF RestoredInv
  <2>5. merging = "concat" /\ Alternating => TurnsRestored'
    BY <1>1, <2>1, <2>2, ConcatenatorRestores DEF RestoredInv
  <2>6. Alternating' = Alternating BY <1>1 DEF Alternating
  <2> QED BY <1>1, <2>3, <2>4, <2>5, <2>6 DEF RestoredInv
<1>4. CASE Split
  BY <1>2, <1>4 DEF Split
<1>5. CASE UNCHANGED mergeVars
  BY <1>2, <1>5 DEF mergeVars
<1> QED BY <1>3, <1>4, <1>5 DEF MergeNext

LEMMA RestoredMeans == SplitInv /\ ConservedInv /\ RestoredInv => OrderIsRestored
<1> SUFFICES ASSUME SplitInv, ConservedInv, RestoredInv,
                    \/ merging \in {"stream_pkg_merger", "stream_merger_origin", "stream_fold"}
                    \/ merging = "concat" /\ Alternating
             PROVE  IsPrefix(merged, PlannedWords)
  BY DEF OrderIsRestored
<1>1. /\ PlannedWords \in Seq(MergedWord) /\ Len(PlannedWords) \in Nat
      /\ Sent \in Nat /\ Sent <= Len(PlannedWords)
  BY SentRange
<1>2. merged \in Seq(MergedWord)
  BY DEF ConservedInv, WordsConserved, FoldConserved
<1>3. CASE merging # "stream_fold"
  <2>1. Begins(merged, PlannedWords)
    BY <1>3 DEF RestoredInv, PackagesRestored, OriginsRestored, TurnsRestored
  <2> QED BY <1>1, <1>2, <2>1, BeginsIsPrefix
<1>4. CASE merging = "stream_fold"
  <2> DEFINE t == inputs[0]
             sent == SubSeq(PlannedWords, 1, Sent)
  <2>1. t \in Seq(MergedWord) /\ merged \o t = sent
    BY <1>4 DEF ConservedInv, FoldConserved
  <2>2. /\ sent \in Seq(MergedWord) /\ Len(sent) = Sent
        /\ \A k \in 1 .. Sent : sent[k] = PlannedWords[k]
    BY <1>1, Prefix
  <2> HIDE DEF t, sent
  <2>3. Begins(merged \o t, PlannedWords)
    BY <1>1, <2>1, <2>2 DEF Begins
  <2>4. Begins(merged, PlannedWords)
    BY <1>1, <1>2, <2>1, <2>3, BeginsConcat
  <2> QED BY <1>1, <1>2, <2>4, BeginsIsPrefix
<1> QED BY <1>3, <1>4
-----------------------------------------------------------------------------
(* A word that was merged is the last of its input.                        *)
LEMMA LastFrom ==
    ASSUME NEW words \in Seq(MergedWord), words # << >>, NEW i, words[Len(words)].dest = i
    PROVE  LET own == From(i, words) IN
           own \in Seq(WordTo(i)) /\ Len(own) \in Nat \ {0} /\ own[Len(own)] = words[Len(words)]
<1>1. PICK k \in Nat : Len(words) = k + 1
  <2>1. Len(words) \in Nat \ {0} BY LenProperties
  <2>2. Len(words) - 1 \in Nat /\ Len(words) = (Len(words) - 1) + 1 BY <2>1
  <2> QED BY <2>2
<1>2. SubSeq(words, 1, k + 1) = words
  BY <1>1
<1>3. words[k + 1] \in WordTo(i) /\ k < Len(words) /\ k <= Len(words)
  BY <1>1 DEF WordTo
<1>4. From(i, words) = Append(From(i, SubSeq(words, 1, k)), words[k + 1])
  <2>1. From(i, SubSeq(words, 1, k + 1)) =
            Selected(i, From(i, SubSeq(words, 1, k)), words[k + 1])
    BY <1>3, FromNext
  <2> QED BY <1>1, <1>2, <2>1 DEF Selected
<1> DEFINE S == WordTo(i)
           s == From(i, SubSeq(words, 1, k))
           e == words[k + 1]
<1>5. s \in Seq(S) /\ e \in S
  BY <1>3, FromPrefix
<1> HIDE DEF S, s, e
<1>6. /\ Append(s, e) \in Seq(S) /\ Len(Append(s, e)) \in Nat \ {0}
      /\ Append(s, e)[Len(Append(s, e))] = e
  BY ONLY <1>5
<1> QED BY <1>1, <1>4, <1>6 DEF S, s, e

(* After a word that is not its package's last, the next word of that      *)
(* input is of the same package.                                           *)
LEMMA NextOfPackage ==
    ASSUME SplitInv, WordsConserved, NEW i \in {0, 1}, inputs[i] # << >>,
           merged # << >>, ~merged[Len(merged)].last, merged[Len(merged)].dest = i
    PROVE  Head(inputs[i]).package = merged[Len(merged)].package
<1> DEFINE S == WordTo(i)
           s == From(i, merged)
           t == inputs[i]
           all == From(i, PlannedWords)
           w == merged[Len(merged)]
<1>1. Packed(PlannedWords, plan) /\ PlannedWords \in Seq(MergedWord)
  BY SentRange
<1>2. s \in Seq(S) /\ t \in Seq(S) /\ all \in Seq(S) /\ t # << >> /\ Begins(s \o t, all)
  BY ConservedBegins
<1>3. Linked(all)
  BY <1>1, FromLinked
<1>4. merged \in Seq(MergedWord)
  BY DEF WordsConserved
<1>5. Len(s) \in Nat \ {0} /\ s[Len(s)] = w
  BY <1>4, LastFrom
<1>6. ~w.last
  OBVIOUS
<1> HIDE DEF S, s, t, all, w
<1>7. Begins(s, all) /\ Len(s) < Len(all) /\ Head(t) = all[Len(s) + 1] /\ Len(all) \in Nat
  BY <1>2, BeginsConcat
<1>8. all[Len(s)] = w
  <2>1. Len(s) \in 1 .. Len(s) BY <1>5
  <2> QED BY <1>5, <1>7, <2>1 DEF Begins
<1>9. Len(s) \in 1 .. Len(all) - 1
  BY <1>5, <1>7
<1>10. all[Len(s)].last \/ all[Len(s) + 1].package = all[Len(s)].package
  BY <1>3, <1>9 DEF Linked
<1> QED BY <1>6, <1>7, <1>8, <1>10 DEF t, w

(* A word more, right after its package's word before it.                  *)
LEMMA WholeAppend ==
    ASSUME merged \in Seq(MergedWord), PackagesStayWhole, UNCHANGED merging, NEW w \in MergedWord,
           merged' = Append(merged, w),
           merged # << >> =>
               LET v == merged[Len(merged)] IN
               \/ v.last
               \/ w.package = v.package
               \/ merging = "fair_pkg_merger" /\ v.dest = 0 /\ w.dest = 1
    PROVE  PackagesStayWhole'
<1>1. /\ Len(merged) \in Nat /\ Len(merged') = Len(merged) + 1
      /\ \A k \in 1 .. Len(merged) : merged'[k] = merged[k]
      /\ merged'[Len(merged) + 1] = w
  OBVIOUS
<1> SUFFICES ASSUME merging \in {"stream_pkg_merger", "concat", "fair_pkg_merger"},
                    NEW k \in 1 .. Len(merged)
             PROVE  \/ merged'[k].last
                    \/ merged'[k + 1].package = merged'[k].package
                    \/ /\ merging = "fair_pkg_merger"
                       /\ merged'[k].dest = 0 /\ merged'[k + 1].dest = 1
  BY <1>1 DEF PackagesStayWhole
<1>2. merged'[k] = merged[k] BY <1>1
<1>3. CASE k = Len(merged)
  <2>1. merged # << >> BY <1>3
  <2>2. merged'[k + 1] = w BY <1>1, <1>3
  <2> QED BY <1>2, <1>3, <2>1, <2>2
<1>4. CASE k # Len(merged)
  <2>1. k \in 1 .. Len(merged) - 1 /\ k + 1 \in 1 .. Len(merged) BY <1>1, <1>4
  <2>2. merged'[k + 1] = merged[k + 1] BY <1>1, <2>1
  <2>3. \/ merged[k].last
        \/ merged[k + 1].package = merged[k].package
        \/ merging = "fair_pkg_merger" /\ merged[k].dest = 0 /\ merged[k + 1].dest = 1
    BY <2>1 DEF PackagesStayWhole
  <2> QED BY <1>2, <2>2, <2>3
<1> QED BY <1>3, <1>4

LastOf(words) == words[Len(words)]

ConcatWhole ==
    /\ PackagesStayWhole
    /\ merged # << >> /\ ~LastOf(merged).last => LastOf(merged).dest = idx

FairWhole ==
    /\ PackagesStayWhole
    /\ mgState = "IDLE" /\ merged # << >> => LastOf(merged).last
    /\ \A i \in {0, 1} : mgState = Forwarding(i) =>
          merged # << >> /\ ~LastOf(merged).last /\ LastOf(merged).dest \in {0, i}

LEMMA TakenLast ==
    ASSUME WordsConserved, NEW i \in {0, 1}, Take(i)
    PROVE  /\ merged' # << >> /\ LastOf(merged') = Head(inputs[i])
           /\ Head(inputs[i]).dest = i
<1>1. /\ inputs[i] # << >> /\ merged' = Append(merged, Head(inputs[i]))
      /\ Len(merged) \in Nat /\ Len(merged') = Len(merged) + 1
      /\ Head(inputs[i]) \in MergedWord /\ Head(inputs[i]).dest = i
  BY MergedLonger
<1>2. merged \in Seq(MergedWord) BY DEF WordsConserved
<1>3. merged'[Len(merged) + 1] = Head(inputs[i]) /\ merged' # << >>
  BY <1>1, <1>2
<1> QED BY <1>1, <1>3 DEF LastOf

LEMMA ConcatenatorWhole ==
    ASSUME SplitInv, WordsConserved, ConcatWhole, Concatenator, UNCHANGED merging
    PROVE  ConcatWhole'
<1>1. /\ Take(idx) /\ idx \in {0, 1}
      /\ ~WordOf(idx).last => merge_pref' = merge_pref
  BY RoundRobinSteps
<1>2. PICK i \in {0, 1} : i = idx
  BY <1>1
<1>3. Take(i) /\ (~WordOf(i).last => idx' = i)
  <2>1. merge_pref' = merge_pref => idx' = idx BY DEF idx
  <2> QED BY <1>1, <1>2, <2>1
<1>4. /\ inputs[i] # << >> /\ merged' = Append(merged, Head(inputs[i]))
      /\ Head(inputs[i]) \in MergedWord
  BY <1>3, MergedLonger
<1>5. merged # << >> => LastOf(merged).last \/ Head(inputs[i]).package = LastOf(merged).package
  BY <1>2, <1>4, NextOfPackage DEF ConcatWhole, LastOf
<1>6. PackagesStayWhole'
  BY <1>4, <1>5, WholeAppend DEF ConcatWhole, WordsConserved, LastOf
<1>7. LastOf(merged') = WordOf(i) /\ WordOf(i).dest = i
  BY <1>3, TakenLast DEF WordOf
<1> QED BY <1>3, <1>6, <1>7 DEF ConcatWhole

LEMMA FairMergerWhole ==
    ASSUME SplitInv, WordsConserved, FairWhole, FairPkgMerger, UNCHANGED merging,
           merging = "fair_pkg_merger"
    PROVE  FairWhole'
<1>1. \E i \in {0, 1}, j \in {0, 1} :
          /\ Take(i) /\ mgState' = AfterWord(WordOf(i), j)
          /\ \/ mgState = "IDLE" /\ i \in {0, j}
             \/ mgState = Forwarding(i) /\ j = i
  BY Zenon DEF FairPkgMerger
<1>2. PICK i \in {0, 1}, j \in {0, 1} :
          /\ Take(i) /\ mgState' = AfterWord(WordOf(i), j)
          /\ \/ mgState = "IDLE" /\ i \in {0, j}
             \/ mgState = Forwarding(i) /\ j = i
  BY <1>1
<1> DEFINE w == Head(inputs[i])
           v == LastOf(merged)
<1>3. /\ inputs[i] # << >> /\ merged' = Append(merged, w) /\ w \in MergedWord /\ w.dest = i
      /\ merged' # << >> /\ LastOf(merged') = w
  BY <1>2, MergedLonger, TakenLast
<1>4. merged # << >> => \/ v.last
                        \/ w.package = v.package
                        \/ v.dest = 0 /\ w.dest = 1
  <2>1. CASE mgState = "IDLE"
    BY <2>1 DEF FairWhole
  <2>2. CASE mgState = Forwarding(i)
    <3>1. merged # << >> /\ ~v.last /\ v.dest \in {0, i}
      BY <2>2 DEF FairWhole
    <3>2. CASE v.dest = i
      BY <1>3, <3>1, <3>2, NextOfPackage DEF LastOf
    <3>3. CASE v.dest # i
      BY <1>3, <3>1, <3>3
    <3> QED BY <3>2, <3>3
  <2> QED BY <1>2, <2>1, <2>2
<1>5. PackagesStayWhole'
  BY <1>3, <1>4, WholeAppend DEF FairWhole, WordsConserved, LastOf
<1>6. /\ Forwarding(0) = "FWD0" /\ Forwarding(1) = "FWD1"
      /\ AfterWord(w, j) = IF w.last THEN "IDLE" ELSE Forwarding(j)
      /\ mgState' = AfterWord(w, j)
  BY <1>2 DEF Forwarding, AfterWord, WordOf
<1> HIDE DEF w, v
<1>7. i \in {0, j}
  BY <1>2
<1>8. mgState' = "IDLE" => w.last
  BY <1>6
<1>9. ASSUME NEW n \in {0, 1}, mgState' = Forwarding(n) PROVE ~w.last /\ n = j
  BY <1>6, <1>9
<1> QED BY <1>3, <1>5, <1>7, <1>8, <1>9 DEF FairWhole
-----------------------------------------------------------------------------
WholeInv ==
    /\ merging = "concat" => ConcatWhole
    /\ merging = "fair_pkg_merger" => FairWhole

LEMMA InitWholeInv == MergeInit => WholeInv
<1> SUFFICES ASSUME MergeInit PROVE WholeInv
  OBVIOUS
<1>1. merged = << >> /\ mgState = "IDLE" /\ Len(<< >>) = 0
  BY DEF MergeInit
<1>2. PackagesStayWhole
  BY <1>1 DEF PackagesStayWhole
<1>3. \A i \in {0, 1} : Forwarding(i) # "IDLE"
  BY DEF Forwarding
<1> QED BY <1>1, <1>2, <1>3 DEF WholeInv, ConcatWhole, FairWhole

LEMMA StepWholeInv ==
    SplitInv /\ ConservedInv /\ WholeInv /\ [MergeNext]_mergeVars => WholeInv'
<1> SUFFICES ASSUME SplitInv, ConservedInv, WholeInv, [MergeNext]_mergeVars
             PROVE  WholeInv'
  OBVIOUS
<1>1. UNCHANGED merging
  BY PlanStays
<1>2. CASE UNCHANGED <<mgState, merge_pref, merged>>
  <2>1. idx' = idx BY <1>2 DEF idx
  <2>2. PackagesStayWhole => PackagesStayWhole'
    BY <1>1, <1>2 DEF PackagesStayWhole
  <2>3. ConcatWhole => ConcatWhole'
    BY <1>2, <2>1, <2>2 DEF ConcatWhole
  <2>4. FairWhole => FairWhole'
    BY <1>2, <2>2 DEF FairWhole
  <2> QED BY <1>1, <2>3, <2>4 DEF WholeInv
<1>3. CASE Merge
  <2>1. /\ merging = "concat" => Concatenator
        /\ merging = "fair_pkg_merger" => FairPkgMerger
    BY <1>3, MergeCases DEF SplitInv
  <2>2. merging \in {"concat", "fair_pkg_merger"} => WordsConserved
    BY DEF ConservedInv
  <2>3. merging = "concat" => ConcatWhole'
    BY <1>1, <2>1, <2>2, ConcatenatorWhole DEF WholeInv
  <2>4. merging = "fair_pkg_merger" => FairWhole'
    BY <1>1, <2>1, <2>2, FairMergerWhole DEF WholeInv
  <2> QED BY <1>1, <2>3, <2>4 DEF WholeInv
<1>4. CASE Split
  BY <1>2, <1>4 DEF Split
<1>5. CASE UNCHANGED mergeVars
  BY <1>2, <1>5 DEF mergeVars
<1> QED BY <1>3, <1>4, <1>5 DEF MergeNext

(* What begins like the words that were sent is whole packages, up to the  *)
(* last one.                                                               *)
LEMMA WholeMeans ==
    SplitInv /\ ConservedInv /\ RestoredInv /\ WholeInv => PackagesStayWhole
<1> SUFFICES ASSUME SplitInv, ConservedInv, RestoredInv, WholeInv PROVE PackagesStayWhole
  OBVIOUS
<1>1. CASE merging = "stream_pkg_merger"
  <2>1. Packed(PlannedWords, plan) /\ Len(PlannedWords) \in Nat
    BY SentRange
  <2>2. Begins(merged, PlannedWords) /\ Len(merged) \in Nat
    BY <1>1 DEF RestoredInv, PackagesRestored, ConservedInv, WordsConserved
  <2> SUFFICES ASSUME NEW k \in 1 .. Len(merged) - 1
               PROVE  merged[k].last \/ merged[k + 1].package = merged[k].package
    BY DEF PackagesStayWhole
  <2>3. /\ k \in 1 .. Len(merged) /\ k + 1 \in 1 .. Len(merged)
        /\ k \in 1 .. Len(PlannedWords) - 1
    BY <2>1, <2>2 DEF Begins
  <2>4. merged[k] = PlannedWords[k] /\ merged[k + 1] = PlannedWords[k + 1]
    BY <2>2, <2>3 DEF Begins
  <2>5. PlannedWords[k].last \/ PlannedWords[k + 1].package = PlannedWords[k].package
    BY <2>1, <2>3 DEF Packed
  <2> QED BY <2>4, <2>5
<1>2. CASE merging \in {"concat", "fair_pkg_merger"}
  BY <1>2 DEF WholeInv, ConcatWhole, FairWhole
<1>3. CASE merging \notin {"stream_pkg_merger", "concat", "fair_pkg_merger"}
  BY <1>3 DEF PackagesStayWhole
<1> QED BY <1>1, <1>2, <1>3

MergersInv == SplitInv /\ ConservedInv /\ RestoredInv /\ WholeInv

LEMMA MergersInvariant == MergeSpec => []MergersInv
<1>1. MergeInit => MergersInv
  BY InitSplitInv, InitConservedInv, InitRestoredInv, InitWholeInv DEF MergersInv
<1>2. MergersInv /\ [MergeNext]_mergeVars => MergersInv'
  <2> SUFFICES ASSUME MergersInv, [MergeNext]_mergeVars PROVE MergersInv'
    OBVIOUS
  <2>1. SplitInv /\ ConservedInv /\ RestoredInv /\ WholeInv
    BY DEF MergersInv
  <2>2. merging \in {"stream_pkg_merger", "stream_merger_origin"} => origins \in Seq({0, 1})
    BY <2>1 DEF RestoredInv, PackagesRestored, OriginsRestored
  <2>3. SplitInv' /\ ConservedInv'
    BY <2>1, <2>2, StepSplitInv, StepConservedInv
  <2>4. RestoredInv' /\ WholeInv'
    BY <2>1, StepRestoredInv, StepWholeInv
  <2> QED BY <2>3, <2>4 DEF MergersInv
<1> QED BY <1>1, <1>2, PTL DEF MergeSpec

(* Whatever the merger, the packages and the depth of the streams: of the  *)
(* words of one input none is lost, doubled or overtaken.                  *)
THEOREM EachInputKeepsItsOrder == MergeSpec => []EachInputInOrder
<1>1. MergersInv => EachInputInOrder
  BY InputsInOrder DEF MergersInv
<1> QED BY <1>1, MergersInvariant, PTL

(* Mergers that know the origins undo the splitter, stream_fold undoes     *)
(* stream_split, and the concatenator undoes it for packages that          *)
(* alternate.                                                              *)
THEOREM MergersRestoreOrder == MergeSpec => []OrderIsRestored
<1>1. MergersInv => OrderIsRestored
  BY RestoredMeans DEF MergersInv
<1> QED BY <1>1, MergersInvariant, PTL

(* No merger of packages lets a word in between two of one package, but    *)
(* for what fair_pkg_merger does to those that begin at input 0.           *)
THEOREM PackagesAreNotTorn == MergeSpec => []PackagesStayWhole
<1>1. MergersInv => PackagesStayWhole
  BY WholeMeans DEF MergersInv
<1> QED BY <1>1, MergersInvariant, PTL

-----------------------------------------------------------------------------
(***************************************************************************)
(* The chain of shifters and width converters.  Every function relies on   *)
(* the words it reads: whole but for the last of a package, never empty,   *)
(* without a gap.  That a function hands on such words takes more than     *)
(* that it reads such words: rshiftWordByOctet drops the first octets of a *)
(* package, and gets an empty word from a first word that has no more than *)
(* these.  So the invariant also says of every word in the chain whether   *)
(* it begins a package, and that those which do reach beyond the offset,   *)
(* as lshiftWordByOctet sends them.                                        *)
(***************************************************************************)
Octet == Int \X Int
HalfOf == Octets \div 2

(* Words of so many octets: with a first octet, and without a gap; and     *)
(* whole unless it is the last of its package.                             *)
Data(width) == [0 .. width - 1 -> Octet]
Filled(data, width) == \A i \in 0 .. width - 1 : data[i] # NoByte
Tight(data, width) ==
    /\ data[0] # NoByte
    /\ \A i, j \in 0 .. width - 1 : i < j /\ data[j] # NoByte => data[i] # NoByte
GoodWord(width) ==
    {w \in [data : Data(width), last : BOOLEAN] :
        Tight(w.data, width) /\ (~w.last => Filled(w.data, width))}

(* What a word is in its package: the upper half of a wider word or not,   *)
(* and of the first word of its package or not.                            *)
Role == [upper : BOOLEAN, start : BOOLEAN]
At(upper, start) == [upper |-> upper, start |-> start]
After(width, role, w) ==
    IF w.last THEN At(FALSE, TRUE)
    ELSE IF width = Octets \/ role.upper THEN At(FALSE, FALSE)
    ELSE At(TRUE, role.start)

(* The first word of a package has more octets than the offset.            *)
Reaches(width, role, w) ==
    role.start =>
        IF width = Octets THEN w.data[offset] # NoByte
        ELSE IF role.upper THEN offset >= HalfOf => w.data[offset - HalfOf] # NoByte
        ELSE w.last => offset < HalfOf /\ w.data[offset] # NoByte

(* The words of a stream take these roles one after another.               *)
Plays(width, words, g) ==
    \A i \in 1 .. Len(words) :
        /\ Reaches(width, g[i], words[i])
        /\ g[i + 1] = After(width, g[i], words[i])
Runs(width, words, from, to) ==
    \E g \in [1 .. Len(words) + 1 -> Role] :
        g[1] = from /\ g[Len(words) + 1] = to /\ Plays(width, words, g)

(* The streams and what each function keeps.                               *)
StreamsAreGood ==
    /\ \A stream \in {input, shifted, doubled, output} : stream \in Seq(GoodWord(Octets))
    /\ halves \in Seq(GoodWord(HalfOf))

LShiftInv ==
    /\ {ls_firstWord, ls_writeRemainder} \subseteq BOOLEAN /\ lsPrev \in Data(Octets)
    /\ ~ls_firstWord => Filled(lsPrev, Octets)
    /\ ls_writeRemainder => /\ ls_firstWord /\ offset # 0
                            /\ Tight(lsPrev, Octets) /\ lsPrev[Octets - offset] # NoByte

(* The upper half is sent of a word that has octets there.                 *)
HalfWidthInv ==
    /\ hwState \in {"FIRST", "SECOND"}
    /\ hwState = "SECOND" =>
          hwWord \in GoodWord(Octets) /\ hwWord.data[HalfOf] # NoByte

(* A lower half that waits for its upper one is whole.                     *)
DoubleWidthInv ==
    /\ even \in {0, 1} /\ temp \in Data(Octets)
    /\ even = 1 => \A i \in 0 .. Octets - 1 : temp[i] # NoByte <=> i < HalfOf

(* As for lshiftWordByOctet: whole until the last word, and a remainder is *)
(* there to be sent.                                                       *)
RShiftInv ==
    /\ rsState \in {"PKG", "REMAINDER"} /\ rs_firstWord \in BOOLEAN
    /\ rsPrev \in Data(Octets)
    /\ ~rs_firstWord => Filled(rsPrev, Octets)
    /\ rsState = "REMAINDER" => Tight(rsPrev, Octets) /\ rsPrev[offset] # NoByte

(* The first words of the packages, from the end of the chain back to its  *)
(* beginning.                                                              *)
RolesFollow ==
    \E d, h, s \in Role :
        /\ Runs(Octets, doubled, At(FALSE, rs_firstWord), d)
        /\ Runs(HalfOf, halves, At(even = 1, d.start), h)
        /\ h.upper <=> hwState = "SECOND"
        /\ hwState = "SECOND" /\ h.start => hwWord.data[offset] # NoByte
        /\ Runs(Octets, shifted,
                At(FALSE, IF hwState = "SECOND" THEN hwWord.last ELSE h.start), s)
        /\ offset # 0 => s.start = (ls_firstWord /\ ~ls_writeRemainder)

ShiftersInv ==
    /\ offset \in 0 .. Octets - 1 /\ StreamsAreGood
    /\ LShiftInv /\ HalfWidthInv /\ DoubleWidthInv /\ RShiftInv /\ RolesFollow

LEMMA OctetSizes ==
    /\ Octets \in Nat \ {0, 1} /\ HalfOf \in Nat \ {0} /\ HalfOf < Octets
    /\ Octets = HalfOf + HalfOf /\ Octets \div 2 = HalfOf
<1>1. Octets \in Nat \ {0} /\ Octets % 2 = 0
  BY ShifterAssumption
<1> DEFINE h == Octets \div 2
<1>2. h \in Nat /\ Octets = 2 * h
  BY <1>1
<1> QED BY <1>1, <1>2 DEF HalfOf

LEMMA RolesAre ==
    /\ \A upper, start \in BOOLEAN :
          /\ At(upper, start) \in Role
          /\ At(upper, start).upper = upper /\ At(upper, start).start = start
    /\ \A role \in Role : role = At(role.upper, role.start)
    /\ \A role \in Role : \A width, w : After(width, role, w) \in Role
<1>1. /\ \A upper, start \in BOOLEAN :
            /\ At(upper, start) \in Role
            /\ At(upper, start).upper = upper /\ At(upper, start).start = start
      /\ \A role \in Role : role = At(role.upper, role.start)
  BY DEF At, Role
<1>2. \A role \in Role : role.start \in BOOLEAN
  BY DEF Role
<1>3. ASSUME NEW role \in Role, NEW width, NEW w PROVE After(width, role, w) \in Role
  BY <1>1, <1>2 DEF After
<1> QED BY <1>1, <1>3

(* A stream that nothing is in, to which a word is written, from which the *)
(* first one is read.                                                      *)
LEMMA RunsNothing ==
    ASSUME NEW width, NEW role \in Role
    PROVE  Runs(width, << >>, role, role)
<1> DEFINE g == [i \in 1 .. Len(<< >>) + 1 |-> role]
<1>1. Len(<< >>) = 0
  OBVIOUS
<1>2. g \in [1 .. Len(<< >>) + 1 -> Role] /\ g[1] = role /\ g[Len(<< >>) + 1] = role
  BY <1>1
<1>3. Plays(width, << >>, g)
  BY <1>1 DEF Plays
<1> QED BY <1>2, <1>3 DEF Runs

LEMMA RunsOn ==
    ASSUME NEW S, NEW words \in Seq(S), NEW w \in S, NEW width,
           NEW from \in Role, NEW to \in Role, Runs(width, words, from, to),
           Reaches(width, to, w)
    PROVE  Runs(width, Append(words, w), from, After(width, to, w))
<1>1. PICK g \in [1 .. Len(words) + 1 -> Role] :
          g[1] = from /\ g[Len(words) + 1] = to /\ Plays(width, words, g)
  BY DEF Runs
<1> DEFINE n == Len(words)
           more == Append(words, w)
           next == After(width, to, w)
           h == [i \in 1 .. n + 1 + 1 |-> IF i <= n + 1 THEN g[i] ELSE next]
<1>2. /\ n \in Nat /\ Len(more) = n + 1 /\ more[n + 1] = w
      /\ \A i \in 1 .. n : more[i] = words[i]
  OBVIOUS
<1>3. next \in Role
  BY RolesAre
<1>4. g \in [1 .. n + 1 -> Role] /\ g[1] = from /\ g[n + 1] = to
  BY <1>1
<1>5. \A i \in 1 .. n : Reaches(width, g[i], words[i]) /\ g[i + 1] = After(width, g[i], words[i])
  BY <1>1 DEF Plays
<1> HIDE DEF n, more, next
<1>6. h \in [1 .. n + 1 + 1 -> Role]
  BY <1>2, <1>3, <1>4
<1>7. /\ \A i \in 1 .. n + 1 : h[i] = g[i]
      /\ h[n + 1 + 1] = next
  BY <1>2
<1> HIDE DEF h
<1>8. ASSUME NEW i \in 1 .. n + 1
      PROVE  Reaches(width, h[i], more[i]) /\ h[i + 1] = After(width, h[i], more[i])
  <2>1. CASE i = n + 1
    <3>1. h[i] = to /\ more[i] = w /\ h[i + 1] = next
      BY <1>2, <1>4, <1>7, <2>1
    <3> QED BY <3>1 DEF next
  <2>2. CASE i # n + 1
    <3>1. i \in 1 .. n /\ i + 1 \in 1 .. n + 1
      BY <1>2, <2>2
    <3>2. h[i] = g[i] /\ h[i + 1] = g[i + 1] /\ more[i] = words[i]
      BY <1>2, <1>7, <3>1
    <3> QED BY <1>5, <3>1, <3>2
  <2> QED BY <2>1, <2>2
<1>9. Plays(width, more, h)
  BY <1>2, <1>8 DEF Plays
<1>10. 1 \in 1 .. n + 1
  BY <1>2
<1>11. h[1] = from /\ h[Len(more) + 1] = next /\ h \in [1 .. Len(more) + 1 -> Role]
  BY <1>2, <1>4, <1>6, <1>7, <1>10
<1>12. Runs(width, more, from, next)
  BY <1>9, <1>11 DEF Runs
<1> QED BY <1>12 DEF more, next

LEMMA RunsFrom ==
    ASSUME NEW S, NEW words \in Seq(S), words # << >>, NEW width,
           NEW from \in Role, NEW to \in Role, Runs(width, words, from, to)
    PROVE  /\ Reaches(width, from, Head(words))
           /\ Runs(width, Tail(words), After(width, from, Head(words)), to)
<1>1. PICK g \in [1 .. Len(words) + 1 -> Role] :
          g[1] = from /\ g[Len(words) + 1] = to /\ Plays(width, words, g)
  BY DEF Runs
<1> DEFINE n == Len(words)
           rest == Tail(words)
           h == [i \in 1 .. n |-> g[i + 1]]
<1>2. /\ n \in Nat \ {0} /\ Len(rest) = n - 1 /\ Head(words) = words[1]
      /\ \A i \in 1 .. n - 1 : rest[i] = words[i + 1]
  BY EmptySeq
<1>3. g \in [1 .. n + 1 -> Role] /\ g[1] = from /\ g[n + 1] = to
  BY <1>1
<1>4. \A i \in 1 .. n : Reaches(width, g[i], words[i]) /\ g[i + 1] = After(width, g[i], words[i])
  BY <1>1 DEF Plays
<1> HIDE DEF n, rest
<1>5. 1 \in 1 .. n /\ n \in 1 .. n
  BY <1>2
<1>6. Reaches(width, from, words[1]) /\ g[1 + 1] = After(width, from, words[1])
  BY <1>3, <1>4, <1>5
<1>7. h \in [1 .. n -> Role] /\ \A i \in 1 .. n : h[i] = g[i + 1]
  BY <1>2, <1>3
<1> HIDE DEF h
<1>8. ASSUME NEW i \in 1 .. n - 1
      PROVE  Reaches(width, h[i], rest[i]) /\ h[i + 1] = After(width, h[i], rest[i])
  <2>1. i \in 1 .. n /\ i + 1 \in 1 .. n
    BY <1>2
  <2>2. h[i] = g[i + 1] /\ h[i + 1] = g[(i + 1) + 1] /\ rest[i] = words[i + 1]
    BY <1>2, <1>7, <2>1
  <2> QED BY <1>4, <2>1, <2>2
<1>9. Plays(width, rest, h)
  BY <1>2, <1>8 DEF Plays
<1>10. Len(rest) + 1 = n
  BY <1>2
<1>11. h[1] = After(width, from, words[1]) /\ h[Len(rest) + 1] = to
       /\ h \in [1 .. Len(rest) + 1 -> Role]
  BY <1>3, <1>5, <1>6, <1>7, <1>10
<1>12. Runs(width, rest, After(width, from, words[1]), to)
  BY <1>9, <1>11 DEF Runs
<1> QED BY <1>2, <1>6, <1>12 DEF rest

(* Good words are what the functions rely on.                              *)
LEMMA FilledIsTight ==
    ASSUME NEW width \in Nat \ {0}, NEW data, Filled(data, width)
    PROVE  Tight(data, width)
    BY DEF Filled, Tight

LEMMA GoodIsWellFormed ==
    ASSUME NEW width \in Nat \ {0}, NEW stream \in Seq(GoodWord(width))
    PROVE  WellFormed(stream)
<1> SUFFICES ASSUME NEW i \in 1 .. Len(stream)
             PROVE  /\ \E n \in 1 .. Cardinality(DOMAIN stream[i].data) :
                           Keep(stream[i].data) = 0 .. n - 1
                    /\ ~stream[i].last => Keep(stream[i].data) = DOMAIN stream[i].data
  BY DEF WellFormed
<1> DEFINE w == stream[i]
           data == w.data
<1>1. w \in GoodWord(width)
  OBVIOUS
<1>2. /\ DOMAIN data = 0 .. width - 1 /\ Tight(data, width)
      /\ ~w.last => Filled(data, width)
  BY <1>1 DEF GoodWord, Data
<1>3. Cardinality(DOMAIN data) = width
  <2>1. 0 \in Int /\ width - 1 \in Int
    OBVIOUS
  <2>2. Cardinality(0 .. width - 1) = IF 0 > width - 1 THEN 0 ELSE (width - 1) - 0 + 1
    BY ONLY <2>1, FS_Interval
  <2> QED BY <1>2, <2>2
<1>4. Keep(data) = {k \in 0 .. width - 1 : data[k] # NoByte}
  BY <1>2 DEF Keep
<1> HIDE DEF data, w
<1>5. \E n \in 1 .. width : Keep(data) = 0 .. n - 1
  <2> DEFINE T == {k \in Nat : k = width \/ (k < width /\ data[k] = NoByte)}
  <2>1. T \subseteq Nat /\ width \in T
    OBVIOUS
  <2>2. PICK n \in T : \A k \in T : n <= k
    BY <2>1, LeastNatural
  <2>3. n \in 0 .. width /\ (n < width => data[n] = NoByte)
    BY <2>1, <2>2
  <2>4. \A k \in 0 .. width - 1 : k < n => data[k] # NoByte
    BY <2>2
  <2>5. n # 0
    BY <1>2, <2>3 DEF Tight
  <2>6. \A k \in 0 .. width - 1 : k > n => data[k] = NoByte
    BY <1>2, <2>3 DEF Tight
  <2>7. \A k \in 0 .. width - 1 : data[k] # NoByte <=> k \in 0 .. n - 1
    BY <2>3, <2>4, <2>6
  <2>8. Keep(data) = 0 .. n - 1
    BY <1>4, <2>3, <2>7
  <2>9. n \in 1 .. width
    BY <2>3, <2>5
  <2> HIDE DEF data, T
  <2> QED BY ONLY <2>8, <2>9
<1>6. ~w.last => Keep(data) = DOMAIN data
  BY <1>2, <1>4 DEF Filled
<1> QED BY <1>3, <1>5, <1>6 DEF data, w

(* The octets of two words, one above the other.                           *)
LEMMA JoinedIs ==
    ASSUME NEW a \in Data(Octets), NEW b \in Data(Octets), NEW n \in 0 .. Octets
    PROVE  /\ Joined(a, b, n) \in Data(Octets)
           /\ \A i \in 0 .. Octets - 1 :
                 Joined(a, b, n)[i] = IF i < Octets - n THEN a[i + n] ELSE b[i - (Octets - n)]
<1>1. Octets \in Nat
  BY OctetSizes
<1>2. ASSUME NEW i \in 0 .. Octets - 1
      PROVE  (IF i < Octets - n THEN a[i + n] ELSE b[i - (Octets - n)]) \in Octet
  <2>1. CASE i < Octets - n
    <3>1. i + n \in 0 .. Octets - 1
      BY <1>1, <2>1
    <3> QED BY <2>1, <3>1 DEF Data
  <2>2. CASE ~(i < Octets - n)
    <3>1. i - (Octets - n) \in 0 .. Octets - 1
      BY <1>1, <2>2
    <3> QED BY <2>2, <3>1 DEF Data
  <2> QED BY <2>1, <2>2
<1> QED BY <1>2 DEF Joined, Data

LEMMA JoinedIsGood ==
    ASSUME NEW a \in Data(Octets), NEW b \in Data(Octets), NEW n \in 1 .. Octets,
           \A i \in n .. Octets - 1 : a[i] # NoByte, Tight(b, Octets)
    PROVE  /\ Tight(Joined(a, b, n), Octets)
           /\ ~NothingFrom(b, n) => Filled(Joined(a, b, n), Octets)
<1> DEFINE O == Octets
           j == Joined(a, b, n)
           m == O - n
<1>1. O \in Nat \ {0, 1} /\ n \in 1 .. O /\ m \in 0 .. O - 1 /\ m = O - n
  BY OctetSizes
<1>2. \A i \in 0 .. O - 1 : j[i] = IF i < m THEN a[i + n] ELSE b[i - m]
  BY <1>1, JoinedIs
<1>3. \A i \in 0 .. O - 1 : i + n \in n .. O - 1 => a[i + n] # NoByte
  OBVIOUS
<1>4. /\ b[0] # NoByte
      /\ \A i, k \in 0 .. O - 1 : i < k /\ b[k] # NoByte => b[i] # NoByte
  BY DEF Tight
<1> HIDE DEF j, m
<1>5. \A i \in 0 .. O - 1 : i < m => i + n \in n .. O - 1
  BY <1>1
<1>6. \A i \in 0 .. O - 1 : i < m => j[i] # NoByte
  BY <1>2, <1>3, <1>5
<1>7. ASSUME NEW i \in 0 .. O - 1, ~(i < m)
      PROVE  i - m \in 0 .. O - 1 /\ i - m < n /\ j[i] = b[i - m]
  BY <1>1, <1>2, <1>7
<1>8. j[0] # NoByte
  <2>1. CASE m = 0
    <3>1. 0 \in 0 .. O - 1 /\ ~(0 < m)
      BY <1>1, <2>1
    <3>2. 0 - m = 0
      BY <2>1
    <3>3. j[0] = b[0 - m]
      BY <1>2, <3>1
    <3> QED BY <1>4, <3>2, <3>3
  <2>2. CASE m # 0
    <3>1. 0 \in 0 .. O - 1 /\ 0 < m
      BY <1>1, <2>2
    <3> QED BY <1>6, <3>1
  <2> QED BY <2>1, <2>2
<1>9. ASSUME NEW i \in 0 .. O - 1, NEW k \in 0 .. O - 1, i < k, j[k] # NoByte
      PROVE  j[i] # NoByte
  <2>1. CASE i < m
    BY <1>6, <2>1
  <2>2. CASE ~(i < m)
    <3>1. ~(k < m)
      BY <1>1, <1>9, <2>2
    <3>2. i - m < k - m
      BY <1>1, <1>9
    <3>3. b[k - m] # NoByte /\ j[i] = b[i - m] /\ i - m \in 0 .. O - 1 /\ k - m \in 0 .. O - 1
      BY <1>7, <1>9, <2>2, <3>1
    <3> QED BY <1>4, <3>2, <3>3
  <2> QED BY <2>1, <2>2
<1>10. ASSUME ~NothingFrom(b, n), NEW i \in 0 .. O - 1 PROVE j[i] # NoByte
  <2>1. PICK k \in n .. O - 1 : b[k] # NoByte
    BY <1>10 DEF NothingFrom
  <2>2. CASE i < m
    BY <1>6, <2>2
  <2>3. CASE ~(i < m)
    <3>1. i - m \in 0 .. O - 1 /\ i - m < k /\ k \in 0 .. O - 1
      BY <1>1, <1>7, <2>1, <2>3
    <3> QED BY <1>4, <1>7, <2>1, <2>3, <3>1
  <2> QED BY <2>2, <2>3
<1> QED BY <1>8, <1>9, <1>10 DEF Tight, Filled, j

(* What is left of a word that reaches beyond the octets sent before.      *)
LEMMA RemainderIsTight ==
    ASSUME NEW a \in Data(Octets), NEW n \in 0 .. Octets - 1,
           Tight(a, Octets), a[n] # NoByte
    PROVE  Joined(a, Blank, n) \in Data(Octets) /\ Tight(Joined(a, Blank, n), Octets)
<1> DEFINE O == Octets
           j == Joined(a, Blank, n)
           m == O - n
<1>1. O \in Nat \ {0, 1} /\ m \in 1 .. O /\ n \in 0 .. O
  BY OctetSizes
<1>2. Blank \in Data(O) /\ \A i \in 0 .. O - 1 : Blank[i] = NoByte
  BY DEF Blank, Data, Octet, NoByte
<1>3. j \in Data(O) /\ \A i \in 0 .. O - 1 : j[i] = IF i < m THEN a[i + n] ELSE Blank[i - m]
  BY <1>1, <1>2, JoinedIs
<1>4. \A i, k \in 0 .. O - 1 : i < k /\ a[k] # NoByte => a[i] # NoByte
  BY DEF Tight
<1> HIDE DEF j
<1>5. j[0] # NoByte
  <2>1. 0 \in 0 .. O - 1 /\ 0 < m /\ 0 + n = n
    BY <1>1
  <2> QED BY <1>3, <2>1
<1>6. ASSUME NEW i \in 0 .. O - 1, NEW k \in 0 .. O - 1, i < k, j[k] # NoByte
      PROVE  j[i] # NoByte
  <2>1. k < m
    <3>1. ~(k < m) => k - m \in 0 .. O - 1
      BY <1>1
    <3> QED BY <1>2, <1>3, <1>6, <3>1
  <2>2. i < m /\ i + n < k + n /\ i + n \in 0 .. O - 1 /\ k + n \in 0 .. O - 1
    BY <1>1, <1>6, <2>1
  <2>3. j[i] = a[i + n] /\ j[k] = a[k + n]
    BY <1>3, <2>1, <2>2
  <2> QED BY <1>4, <1>6, <2>2, <2>3
<1> QED BY <1>3, <1>5, <1>6 DEF Tight, j

(* What sequences have together is what they have.                         *)
LEMMA FlattenIn ==
    ASSUME NEW S, NEW n \in Nat, NEW seqs \in [1 .. n -> Seq(S)]
    PROVE  FlattenSeq(seqs) \in Seq(S)
<1>1. Len(seqs) = n
  OBVIOUS
<1>2. CASE n = 0
  <2>1. seqs = << >>
    BY <1>2
  <2>2. FlattenSeq(<< >>) = << >>
    BY DEF FlattenSeq
  <2>3. << >> \in Seq(S)
    OBVIOUS
  <2> QED BY <2>1, <2>2, <2>3
<1>3. CASE n # 0
  <2> DEFINE Built == {k \in Nat : k + 1 <= n =>
                          \E g \in [1 .. k + 1 -> Seq(S)] : IsFlat(g, seqs, k + 1)}
  <2>1. 0 \in Built
    <3> DEFINE g == [k \in 1 .. 1 |-> seqs[1]]
    <3>1. g \in [1 .. 1 -> Seq(S)]
      BY <1>3
    <3>2. IsFlat(g, seqs, 1)
      BY DEF IsFlat
    <3> QED BY <3>1, <3>2
  <2>2. ASSUME NEW k \in Nat, k \in Built PROVE k + 1 \in Built
    <3> DEFINE j == k + 1
    <3> SUFFICES ASSUME j + 1 <= n
                 PROVE  \E h \in [1 .. j + 1 -> Seq(S)] : IsFlat(h, seqs, j + 1)
      OBVIOUS
    <3>1. j \in Nat \ {0} /\ j <= n
      OBVIOUS
    <3>2. PICK g \in [1 .. j -> Seq(S)] : IsFlat(g, seqs, j)
      BY <2>2, <3>1
    <3> HIDE DEF j
    <3> DEFINE h == [m \in 1 .. j + 1 |-> IF m = j + 1 THEN g[j] \o seqs[j + 1] ELSE g[m]]
    <3>3. h[j + 1] = g[j] \o seqs[j + 1]
      <4>1. j + 1 \in 1 .. j + 1
        BY <3>1
      <4> QED BY ONLY <4>1
    <3>4. g[j] \in Seq(S) /\ seqs[j + 1] \in Seq(S)
      BY <3>1
    <3>5. g[j] \o seqs[j + 1] \in Seq(S)
      BY ONLY <3>4, ConcatProperties
    <3>6. h \in [1 .. j + 1 -> Seq(S)]
      BY <3>1, <3>5
    <3>7. ASSUME NEW m \in 1 .. j + 1
          PROVE  h[m] = IF m = 1 THEN seqs[m] ELSE h[m - 1] \o seqs[m]
      <4>1. CASE m = j + 1
        <5>1. m # 1 /\ m - 1 = j /\ j \in 1 .. j + 1 /\ j # j + 1
          BY <3>1, <4>1
        <5>2. h[m - 1] = g[j]
          BY <5>1
        <5> HIDE DEF h
        <5> QED BY <3>3, <4>1, <5>1, <5>2
      <4>2. CASE m # j + 1
        <5>1. m \in 1 .. j /\ h[m] = g[m]
          BY <3>1, <4>2
        <5>2. m # 1 => m - 1 \in 1 .. j + 1 /\ h[m - 1] = g[m - 1]
          BY <3>1, <5>1
        <5>3. g[m] = IF m = 1 THEN seqs[m] ELSE g[m - 1] \o seqs[m]
          BY <3>2, <5>1 DEF IsFlat
        <5> HIDE DEF h
        <5> QED BY <5>1, <5>2, <5>3
      <4> QED BY <4>1, <4>2
    <3>8. h = [m \in 1 .. j + 1 |-> h[m]]
      OBVIOUS
    <3> HIDE DEF h
    <3>9. IsFlat(h, seqs, j + 1)
      BY <3>7, <3>8 DEF IsFlat
    <3> QED BY <3>6, <3>9
  <2> HIDE DEF Built
  <2>3. Nat \subseteq Built
    BY <2>1, <2>2, SetInduction
  <2>4. n - 1 \in Built /\ (n - 1) + 1 = n
    BY <1>3, <2>3
  <2>5. PICK g \in [1 .. n -> Seq(S)] : IsFlat(g, seqs, n)
    BY <2>4 DEF Built
  <2>6. FlattenSeq(seqs) = g[n]
    BY <1>1, <1>3, <2>5, FlattenIs
  <2>7. n \in 1 .. n
    BY <1>3
  <2> QED BY <2>5, <2>6, <2>7
<1> QED BY <1>2, <1>3

(* The words of a package are whole, but for the last one, which has the   *)
(* octets that remain.                                                     *)
LEMMA PackageIsGood ==
    ASSUME NEW p \in Nat \ {0}, NEW length \in Nat \ {0}
    PROVE  PackageWords(p, length) \in Seq(GoodWord(Octets))
<1> DEFINE O == Octets
           n == (length + O - 1) \div O
           Place(k) == length - (k - 1) * O
           Kept(k) == IF Place(k) \in 1 .. KeepBits - 1 THEN Place(k) ELSE KeepBits
           Octets_(k) == [i \in 0 .. O - 1 |->
                             IF i \in LenToKeep(Place(k)) THEN <<p, (k - 1) * O + i>> ELSE NoByte]
<1>1. O \in Nat \ {0, 1} /\ KeepBits \in Nat /\ KeepBits >= O
  BY OctetSizes, ShifterAssumption
<1>2. n \in Nat /\ length <= n * O /\ n * O <= length + O - 1
  <2> DEFINE a == length + O - 1
             r == a % O
  <2>1. a \in Nat /\ a = length + O - 1
    BY <1>1
  <2> HIDE DEF a
  <2>2. a \div O \in Nat /\ r \in 0 .. O - 1 /\ a = O * (a \div O) + r
    BY <1>1, <2>1
  <2> DEFINE q == a \div O
  <2>3. q * O = O * q /\ O * q \in Nat
    BY <1>1, <2>2
  <2>4. n = q
    BY DEF a
  <2> HIDE DEF q, r, n
  <2>5. q \in Nat /\ length <= q * O /\ q * O <= length + O - 1
    BY <1>1, <2>1, <2>2, <2>3 DEF q
  <2> QED BY <2>4, <2>5
<1>3. PackageWords(p, length) =
          [k \in 1 .. n |-> [data |-> Octets_(k), last |-> k = n]]
  BY DEF PackageWords
<1> HIDE DEF n
<1>4. ASSUME NEW k \in 1 .. n
      PROVE  /\ Place(k) \in Nat \ {0}
             /\ k < n => Place(k) > O
  <2>1. k * O \in Nat /\ (k - 1) * O = k * O - O /\ n * O \in Nat
    BY <1>1, <1>2
  <2>2. k * O <= n * O
    BY <1>1, <1>2
  <2>3. k < n => (k + 1) * O <= n * O /\ (k + 1) * O = k * O + O
    BY <1>1, <1>2
  <2>4. (k - 1) * O < length
    BY <1>1, <1>2, <2>1, <2>2
  <2>5. k < n => k * O < length
    BY <1>1, <1>2, <2>1, <2>3
  <2> QED BY <1>1, <2>1, <2>4, <2>5
<1>5. ASSUME NEW k \in 1 .. n PROVE [data |-> Octets_(k), last |-> k = n] \in GoodWord(O)
  <2> DEFINE d == Octets_(k)
             m == Kept(k)
  <2>1. m \in Nat \ {0} /\ (k < n => m >= O)
    BY <1>1, <1>4
  <2>2. LenToKeep(Place(k)) = 0 .. m - 1
    BY DEF LenToKeep
  <2>3. (k - 1) * O \in Int
    BY <1>1, <1>2
  <2> DEFINE base == (k - 1) * O
  <2>4. \A i \in 0 .. O - 1 : d[i] = IF i \in 0 .. m - 1 THEN <<p, base + i>> ELSE NoByte
    BY <2>2
  <2>5. \A i \in 0 .. O - 1 : <<p, base + i>> \in Octet /\ <<p, base + i>> # NoByte
    BY <2>3 DEF Octet, NoByte
  <2>6. NoByte \in Octet /\ d = [i \in 0 .. O - 1 |-> d[i]]
    BY DEF NoByte, Octet
  <2> HIDE DEF d, m, base
  <2>7. d \in Data(O)
    BY <2>4, <2>5, <2>6 DEF Data
  <2>8. \A i \in 0 .. O - 1 : d[i] # NoByte <=> i < m
    <3>1. \A i \in 0 .. O - 1 : i \in 0 .. m - 1 <=> i < m
      BY ONLY <1>1, <2>1
    <3> QED BY ONLY <2>4, <2>5, <3>1
  <2>9. Tight(d, O)
    BY <1>1, <2>1, <2>8 DEF Tight
  <2>10. k # n => Filled(d, O)
    <3>1. k # n => k < n
      BY <1>2
    <3> QED BY <1>1, <2>1, <2>8, <3>1 DEF Filled
  <2> DEFINE w == [data |-> d, last |-> k = n]
  <2>11. w.data = d /\ w.last = (k = n) /\ w \in [data : Data(O), last : BOOLEAN]
    BY <2>7
  <2> HIDE DEF w
  <2>12. w \in GoodWord(O)
    BY <2>9, <2>10, <2>11 DEF GoodWord
  <2> QED BY <2>12 DEF w, d
<1> HIDE DEF Octets_
<1> QED BY <1>2, <1>3, <1>5

LEMMA AllWordsAreGood ==
    ASSUME job \in Seq(Nat \ {0})
    PROVE  AllWords \in Seq(GoodWord(Octets))
<1> DEFINE n == Len(job)
           seqs == [p \in 1 .. n |-> PackageWords(p, job[p])]
<1>2. n \in Nat /\ \A p \in 1 .. n : job[p] \in Nat \ {0}
  OBVIOUS
<1>3. seqs \in [1 .. n -> Seq(GoodWord(Octets))]
  BY <1>2, PackageIsGood
<1>4. AllWords = FlattenSeq(seqs)
  BY DEF AllWords
<1> HIDE DEF seqs, n
<1> QED BY <1>2, <1>3, <1>4, FlattenIn

(* A word is made of its octets and its flag.                              *)
LEMMA WordIsGood ==
    ASSUME NEW width, NEW data \in Data(width), NEW last \in BOOLEAN,
           Tight(data, width), ~last => Filled(data, width)
    PROVE  /\ Word(data, last) \in GoodWord(width)
           /\ Word(data, last).data = data /\ Word(data, last).last = last
<1> DEFINE w == Word(data, last)
<1>1. w.data = data /\ w.last = last /\ w \in [data : Data(width), last : BOOLEAN]
  BY DEF Word
<1> HIDE DEF w
<1>2. w \in GoodWord(width)
  BY <1>1 DEF GoodWord
<1> QED BY <1>1, <1>2 DEF w

LEMMA GoodWordIs ==
    ASSUME NEW width, NEW w \in GoodWord(width)
    PROVE  /\ w.data \in Data(width) /\ w.last \in BOOLEAN /\ Tight(w.data, width)
           /\ ~w.last => Filled(w.data, width)
    BY DEF GoodWord

(* Of the first and the second half of a word.                             *)
LEMMA HalvesAre ==
    ASSUME NEW data \in Data(Octets)
    PROVE  /\ Half(data, 0) \in Data(HalfOf) /\ Half(data, 1) \in Data(HalfOf)
           /\ \A i \in 0 .. HalfOf - 1 :
                 /\ Half(data, 0)[i] = data[i] /\ Half(data, 1)[i] = data[i + HalfOf]
                 /\ i \in 0 .. Octets - 1 /\ i + HalfOf \in 0 .. Octets - 1
<1>1. HalfOf \in Nat \ {0} /\ Octets = HalfOf + HalfOf /\ Octets \div 2 = HalfOf
  BY OctetSizes
<1>2. \A i \in 0 .. HalfOf - 1 : i \in 0 .. Octets - 1 /\ i + HalfOf \in 0 .. Octets - 1
  BY <1>1
<1>3. /\ Half(data, 0) = [i \in 0 .. HalfOf - 1 |-> data[i + 0 * HalfOf]]
      /\ Half(data, 1) = [i \in 0 .. HalfOf - 1 |-> data[i + 1 * HalfOf]]
  BY <1>1 DEF Half
<1>4. \A i \in 0 .. HalfOf - 1 : i + 0 * HalfOf = i /\ i + 1 * HalfOf = i + HalfOf
  BY <1>1
<1>5. /\ Half(data, 0) = [i \in 0 .. HalfOf - 1 |-> data[i]]
      /\ Half(data, 1) = [i \in 0 .. HalfOf - 1 |-> data[i + HalfOf]]
  BY <1>3, <1>4
<1>6. \A i \in 0 .. Octets - 1 : data[i] \in Octet
  BY DEF Data
<1> QED BY <1>2, <1>5, <1>6 DEF Data

LEMMA NotOfAHalf == HalfOf # Octets
    BY OctetSizes

LEMMA InitShiftersInv == ShiftInit => ShiftersInv
<1> SUFFICES ASSUME ShiftInit PROVE ShiftersInv
  OBVIOUS
<1>1. offset \in 0 .. Octets - 1
  BY ShifterAssumption DEF ShiftInit
<1>2. StreamsAreGood
  <2>1. input \in Seq(GoodWord(Octets))
    BY ShifterAssumption, AllWordsAreGood DEF ShiftInit
  <2>2. << >> \in Seq(GoodWord(Octets)) /\ << >> \in Seq(GoodWord(HalfOf))
    OBVIOUS
  <2> QED BY <2>1, <2>2 DEF ShiftInit, StreamsAreGood
<1>3. Blank \in Data(Octets)
  BY DEF Blank, Data, NoByte, Octet
<1>4. LShiftInv /\ HalfWidthInv /\ DoubleWidthInv /\ RShiftInv
  <2>1. LShiftInv
    <3>1. ls_firstWord = TRUE /\ ls_writeRemainder = FALSE /\ lsPrev = Blank
      BY DEF ShiftInit
    <3> QED BY <1>3, <3>1 DEF LShiftInv
  <2>2. HalfWidthInv
    BY DEF ShiftInit, HalfWidthInv
  <2>3. DoubleWidthInv
    <3>1. even = 0 /\ temp = Blank
      BY DEF ShiftInit
    <3> QED BY <1>3, <3>1 DEF DoubleWidthInv
  <2>4. RShiftInv
    <3>1. rsState = "PKG" /\ rs_firstWord = TRUE /\ rsPrev = Blank
      BY DEF ShiftInit
    <3> QED BY <1>3, <3>1 DEF RShiftInv
  <2> QED BY <2>1, <2>2, <2>3, <2>4
<1>5. RolesFollow
  <2> DEFINE t == At(FALSE, TRUE)
  <2>1. t \in Role /\ t.upper = FALSE /\ t.start = TRUE
    BY RolesAre
  <2>2. /\ doubled = << >> /\ halves = << >> /\ shifted = << >> /\ rs_firstWord = TRUE
        /\ hwState = "FIRST" /\ (even = 1) = FALSE /\ ls_firstWord = TRUE
        /\ ls_writeRemainder = FALSE
    BY DEF ShiftInit
  <2>3. /\ Runs(Octets, doubled, At(FALSE, rs_firstWord), t)
        /\ Runs(HalfOf, halves, At(even = 1, t.start), t)
        /\ Runs(Octets, shifted,
                At(FALSE, IF hwState = "SECOND" THEN hwWord.last ELSE t.start), t)
    BY <2>1, <2>2, RunsNothing
  <2> HIDE DEF t
  <2> QED BY <2>1, <2>2, <2>3 DEF RolesFollow
<1> QED BY <1>1, <1>2, <1>4, <1>5 DEF ShiftersInv

(* What RolesFollow says without a quantifier.                             *)
Follow(d, h, s) ==
    /\ Runs(Octets, doubled, At(FALSE, rs_firstWord), d)
    /\ Runs(HalfOf, halves, At(even = 1, d.start), h)
    /\ h.upper <=> hwState = "SECOND"
    /\ hwState = "SECOND" /\ h.start => hwWord.data[offset] # NoByte
    /\ Runs(Octets, shifted, At(FALSE, IF hwState = "SECOND" THEN hwWord.last ELSE h.start), s)
    /\ offset # 0 => s.start = (ls_firstWord /\ ~ls_writeRemainder)

LEMMA RunsStay ==
    ASSUME offset' = offset
    PROVE  \A width, words, from, to :
               Runs(width, words, from, to)' = Runs(width, words, from, to)
    BY DEF Runs, Plays, Reaches, After

LEMMA LShiftKeeps == ShiftersInv /\ LShift => ShiftersInv'
<1> SUFFICES ASSUME ShiftersInv, LShift PROVE ShiftersInv'
  OBVIOUS
<1> DEFINE n == Octets - offset
<1>1. /\ offset' = offset /\ offset \in 0 .. Octets - 1 /\ Octets \in Nat \ {0, 1}
      /\ UNCHANGED <<halves, doubled, output, hwVars, dwVars, rsVars>>
  BY OctetSizes DEF LShift, ShiftersInv
<1>2. /\ input \in Seq(GoodWord(Octets)) /\ shifted \in Seq(GoodWord(Octets))
      /\ LShiftInv
  BY DEF ShiftersInv, StreamsAreGood
<1>3. PICK d, h, s \in Role : Follow(d, h, s)
  BY DEF ShiftersInv, RolesFollow, Follow
<1> DEFINE from == At(FALSE, IF hwState = "SECOND" THEN hwWord.last ELSE h.start)
<1>4. from \in Role
  <2>1. hwState = "SECOND" => hwWord.last \in BOOLEAN
    BY GoodWordIs DEF ShiftersInv, HalfWidthInv
  <2>2. h.start \in BOOLEAN
    BY DEF Role
  <2> QED BY <2>1, <2>2, RolesAre
(* It is enough to know what is sent.                                      *)
<1>5. ASSUME NEW w \in GoodWord(Octets), shifted' = Append(shifted, w),
             Reaches(Octets, s, w), input' \in Seq(GoodWord(Octets)), LShiftInv',
             offset # 0 => w.last = (ls_firstWord' /\ ~ls_writeRemainder')
      PROVE  ShiftersInv'
  <2>1. Runs(Octets, shifted', from, After(Octets, s, w))
    <3>1. Runs(Octets, shifted, from, s)
      BY <1>3 DEF Follow
    <3> HIDE DEF from
    <3> QED BY ONLY <1>2, <1>3, <1>4, <1>5, <3>1, RunsOn
  <2> DEFINE t == After(Octets, s, w)
  <2>2. t \in Role /\ t.start = w.last
    <3>1. w.last \in BOOLEAN
      BY GoodWordIs
    <3> QED BY <1>3, <3>1, RolesAre DEF After
  <2> HIDE DEF t
  <2>3. Follow(d, h, t)'
    <3>1. /\ halves' = halves /\ doubled' = doubled /\ rs_firstWord' = rs_firstWord
          /\ even' = even /\ hwState' = hwState /\ hwWord' = hwWord
      BY <1>1 DEF hwVars, dwVars, rsVars
    <3>2. Runs(Octets, doubled, At(FALSE, rs_firstWord), d)'
      <4>1. Runs(Octets, doubled, At(FALSE, rs_firstWord), d)
        BY <1>3 DEF Follow
      <4> QED BY <1>1, <3>1, <4>1, RunsStay
    <3>3. Runs(HalfOf, halves, At(even = 1, d.start), h)'
      <4>1. Runs(HalfOf, halves, At(even = 1, d.start), h)
        BY <1>3 DEF Follow
      <4> QED BY <1>1, <3>1, <4>1, RunsStay
    <3>4. Runs(Octets, shifted, At(FALSE, IF hwState = "SECOND" THEN hwWord.last
                                          ELSE h.start), t)'
      BY <1>1, <2>1, <3>1, RunsStay DEF t
    <3>5. /\ h.upper <=> hwState' = "SECOND"
          /\ hwState' = "SECOND" /\ h.start => hwWord'.data[offset'] # NoByte
      BY <1>1, <1>3, <3>1 DEF Follow
    <3>6. offset' # 0 => t.start = (ls_firstWord' /\ ~ls_writeRemainder')
      BY <1>1, <1>5, <2>2
    <3> QED BY <3>2, <3>3, <3>4, <3>5, <3>6 DEF Follow
  <2>4. RolesFollow'
    BY <1>3, <2>2, <2>3 DEF RolesFollow, Follow
  <2>5. shifted' \in Seq(GoodWord(Octets))
    BY <1>2, <1>5
  <2>6. StreamsAreGood'
    BY <1>1, <1>5, <2>5 DEF ShiftersInv, StreamsAreGood
  <2>7. HalfWidthInv' /\ DoubleWidthInv' /\ RShiftInv'
    BY <1>1 DEF ShiftersInv, HalfWidthInv, DoubleWidthInv, RShiftInv, hwVars, dwVars, rsVars
  <2> QED BY <1>1, <1>5, <2>4, <2>6, <2>7 DEF ShiftersInv
<1>6. CASE ls_writeRemainder
  <2>1. /\ shifted' = Append(shifted, Word(Joined(lsPrev, Blank, n), TRUE))
        /\ ls_writeRemainder' = FALSE /\ UNCHANGED <<input, ls_firstWord, lsPrev>>
    BY <1>6 DEF LShift
  <2>2. /\ ls_firstWord /\ offset # 0 /\ Tight(lsPrev, Octets) /\ lsPrev[n] # NoByte
        /\ lsPrev \in Data(Octets) /\ ls_firstWord \in BOOLEAN
    BY <1>2, <1>6 DEF LShiftInv
  <2>3. n \in 0 .. Octets - 1
    BY <1>1, <2>2
  <2> DEFINE j == Joined(lsPrev, Blank, n)
  <2>4. j \in Data(Octets) /\ Tight(j, Octets)
    BY <2>2, <2>3, RemainderIsTight
  <2> HIDE DEF j, n
  <2>5. Word(j, TRUE) \in GoodWord(Octets) /\ Word(j, TRUE).last = TRUE
    BY <2>4, WordIsGood
  <2>6. Reaches(Octets, s, Word(j, TRUE))
    <3>1. s.start = FALSE
      BY <1>3, <1>6, <2>2 DEF Follow
    <3> QED BY <3>1 DEF Reaches
  <2>7. LShiftInv'
    BY <1>1, <1>2, <2>1, <2>2 DEF LShiftInv
  <2> QED BY <1>2, <1>5, <2>1, <2>2, <2>5, <2>6, <2>7 DEF j
<1>7. CASE ~ls_writeRemainder
  <2> DEFINE w == Head(input)
  <2>1. input # << >> /\ input' = Tail(input)
    BY <1>7 DEF LShift
  <2>2. w \in GoodWord(Octets) /\ input' \in Seq(GoodWord(Octets))
    <3> DEFINE G == GoodWord(Octets)
    <3>1. input \in Seq(G) /\ input # << >>
      BY <1>2, <2>1
    <3> HIDE DEF G
    <3>2. Head(input) \in G /\ Tail(input) \in Seq(G)
      BY ONLY <3>1
    <3> QED BY <2>1, <3>2 DEF G
  <2>3. /\ w.data \in Data(Octets) /\ w.last \in BOOLEAN /\ Tight(w.data, Octets)
        /\ ~w.last => Filled(w.data, Octets)
    BY <2>2, GoodWordIs
  <2>4. CASE offset = 0
    <3>1. shifted' = Append(shifted, w) /\ UNCHANGED lsVars
      BY <1>7, <2>4 DEF LShift
    <3>2. Reaches(Octets, s, w)
      BY <2>3, <2>4 DEF Reaches, Tight
    <3>3. LShiftInv'
      BY <1>1, <1>2, <3>1 DEF LShiftInv, lsVars
    <3> QED BY <1>5, <2>2, <2>4, <3>1, <3>2, <3>3
  <2>5. CASE offset # 0
    <3> DEFINE prev == IF ls_firstWord THEN Zeroes ELSE lsPrev
               j == Joined(prev, w.data, n)
               over == NothingFrom(w.data, n)
               send == Word(j, over)
    <3>1. /\ shifted' = Append(shifted, send) /\ lsPrev' = w.data /\ ls_firstWord' = w.last
          /\ ls_writeRemainder' = (w.last /\ RemainderLeft(send))
      BY <1>7, <2>5 DEF LShift
    <3>2. n \in 1 .. Octets - 1 /\ n \in 1 .. Octets /\ n = Octets - offset
      BY <1>1, <2>5
    <3>3. prev \in Data(Octets) /\ \A i \in n .. Octets - 1 : prev[i] # NoByte
      <4>1. \A i \in n .. Octets - 1 : i \in 0 .. Octets - 1
        BY <3>2
      <4>2. CASE ls_firstWord
        <5>1. /\ prev = Zeroes /\ Zeroes \in Data(Octets)
              /\ \A i \in 0 .. Octets - 1 : Zeroes[i] # NoByte
          BY <4>2 DEF Zeroes, Zero, NoByte, Data, Octet
        <5> QED BY <4>1, <5>1
      <4>3. CASE ~ls_firstWord
        <5>1. prev = lsPrev
          BY <4>3
        <5> QED BY <1>2, <4>1, <4>3, <5>1 DEF LShiftInv, Filled
      <4> QED BY <4>2, <4>3
    <3> HIDE DEF prev
    <3>4. /\ j \in Data(Octets) /\ Tight(j, Octets) /\ (~over => Filled(j, Octets))
          /\ j[offset] = w.data[0]
      <4>1. Tight(j, Octets) /\ (~over => Filled(j, Octets))
        BY <2>3, <3>2, <3>3, JoinedIsGood
      <4>2. n \in 0 .. Octets
        BY <3>2
      <4>3. /\ j \in Data(Octets)
            /\ \A i \in 0 .. Octets - 1 :
                  j[i] = IF i < Octets - n THEN prev[i + n] ELSE w.data[i - (Octets - n)]
        BY <2>3, <3>3, <4>2, JoinedIs
      <4>4. offset \in 0 .. Octets - 1 /\ ~(offset < Octets - n) /\ offset - (Octets - n) = 0
        BY <1>1, <3>2
      <4> HIDE DEF j, n
      <4>5. j[offset] = w.data[offset - (Octets - n)]
        BY <4>3, <4>4
      <4> QED BY <4>1, <4>3, <4>4, <4>5
    <3>5. over \in BOOLEAN
      BY DEF NothingFrom
    <3>6. over = TRUE => w.last
      <4>1. n \in 0 .. Octets - 1 /\ n \in n .. Octets - 1
        BY <3>2
      <4> QED BY <2>3, <4>1 DEF NothingFrom, Filled
    <3>7. ~over => w.data[n] # NoByte
      <4> SUFFICES ASSUME ~over PROVE w.data[n] # NoByte
        OBVIOUS
      <4>1. PICK i \in n .. Octets - 1 : w.data[i] # NoByte
        BY DEF NothingFrom
      <4>2. i = n \/ (n < i /\ n \in 0 .. Octets - 1 /\ i \in 0 .. Octets - 1)
        BY <3>2
      <4> QED BY <2>3, <4>1, <4>2 DEF Tight
    <3> HIDE DEF j, over, n
    <3>8. send \in GoodWord(Octets) /\ send.data = j /\ send.last = over
      BY <3>4, <3>5, WordIsGood
    <3> HIDE DEF send
    <3>9. Reaches(Octets, s, send)
      BY <2>3, <3>4, <3>8 DEF Reaches, Tight
    <3>10. LShiftInv'
      <4>1. ls_writeRemainder' = (w.last /\ ~over)
        BY <3>1, <3>8 DEF RemainderLeft
      <4> QED
        BY <1>1, <2>3, <2>5, <3>1, <3>2, <3>5, <3>7, <4>1 DEF LShiftInv
    <3>11. send.last = (ls_firstWord' /\ ~ls_writeRemainder')
      BY <2>3, <3>1, <3>5, <3>6, <3>8 DEF RemainderLeft
    <3> QED BY <1>5, <2>2, <3>1, <3>8, <3>9, <3>10, <3>11
  <2> QED BY <2>4, <2>5
<1> QED BY <1>6, <1>7

LEMMA HeadAndTail ==
    ASSUME NEW S, NEW words \in Seq(S), words # << >>
    PROVE  Head(words) \in S /\ Tail(words) \in Seq(S)
    OBVIOUS

(* What comes after a whole word, and after the upper half of one.         *)
LEMMA AfterOne ==
    ASSUME NEW width, NEW role, NEW w, NEW last \in BOOLEAN, w.last = last,
           width = Octets \/ role.upper = TRUE
    PROVE  After(width, role, w) = At(FALSE, last)
<1>1. CASE last = TRUE
  BY <1>1 DEF After
<1>2. CASE last = FALSE
  BY <1>2 DEF After
<1> QED BY <1>1, <1>2

LEMMA ToHalfWidthKeeps == ShiftersInv /\ ToHalfWidth => ShiftersInv'
<1> SUFFICES ASSUME ShiftersInv, ToHalfWidth PROVE ShiftersInv'
  OBVIOUS
<1>1. /\ offset' = offset /\ offset \in 0 .. Octets - 1 /\ Octets \in Nat \ {0, 1}
      /\ UNCHANGED <<input, doubled, output, lsVars, dwVars, rsVars>>
      /\ HalfOf \in Nat \ {0} /\ HalfOf < Octets /\ Octets = HalfOf + HalfOf
      /\ Octets \div 2 = HalfOf
  BY OctetSizes DEF ToHalfWidth, ShiftersInv
<1>2. /\ shifted \in Seq(GoodWord(Octets)) /\ halves \in Seq(GoodWord(HalfOf))
      /\ HalfWidthInv
  BY DEF ShiftersInv, StreamsAreGood
<1>3. PICK d, h, s \in Role : Follow(d, h, s)
  BY DEF ShiftersInv, RolesFollow, Follow
<1>4. /\ d.start \in BOOLEAN /\ h.start \in BOOLEAN /\ At(even = 1, d.start) \in Role
      /\ h.upper \in BOOLEAN
  <2>1. d.start \in BOOLEAN /\ h.start \in BOOLEAN /\ h.upper \in BOOLEAN
    BY DEF Role
  <2> QED BY <2>1, RolesAre
(* It is enough to know which half is sent, and what is left.              *)
<1>5. ASSUME NEW half \in GoodWord(HalfOf), halves' = Append(halves, half),
             Reaches(HalfOf, h, half), shifted' \in Seq(GoodWord(Octets)), HalfWidthInv',
             NEW k \in Role, k = After(HalfOf, h, half),
             k.upper <=> hwState' = "SECOND",
             hwState' = "SECOND" /\ k.start => hwWord'.data[offset] # NoByte,
             Runs(Octets, shifted',
                  At(FALSE, IF hwState' = "SECOND" THEN hwWord'.last ELSE k.start), s)
      PROVE  ShiftersInv'
  <2>1. Runs(HalfOf, halves', At(even = 1, d.start), k)
    <3>1. Runs(HalfOf, halves, At(even = 1, d.start), h)
      BY <1>3 DEF Follow
    <3> QED BY <1>2, <1>3, <1>4, <1>5, <3>1, RunsOn
  <2>2. /\ doubled' = doubled /\ rs_firstWord' = rs_firstWord /\ even' = even
        /\ ls_firstWord' = ls_firstWord /\ ls_writeRemainder' = ls_writeRemainder
    BY <1>1 DEF lsVars, dwVars, rsVars
  <2>3. Follow(d, k, s)'
    <3>1. Runs(Octets, doubled, At(FALSE, rs_firstWord), d)'
      <4>1. Runs(Octets, doubled, At(FALSE, rs_firstWord), d)
        BY <1>3 DEF Follow
      <4> QED BY <1>1, <2>2, <4>1, RunsStay
    <3>2. Runs(HalfOf, halves, At(even = 1, d.start), k)'
      BY <1>1, <2>1, <2>2, RunsStay
    <3>3. Runs(Octets, shifted, At(FALSE, IF hwState = "SECOND" THEN hwWord.last
                                          ELSE k.start), s)'
      BY <1>1, <1>5, RunsStay
    <3>4. /\ k.upper <=> hwState' = "SECOND"
          /\ hwState' = "SECOND" /\ k.start => hwWord'.data[offset'] # NoByte
      BY <1>1, <1>5
    <3>5. offset' # 0 => s.start = (ls_firstWord' /\ ~ls_writeRemainder')
      BY <1>1, <1>3, <2>2 DEF Follow
    <3> QED BY <3>1, <3>2, <3>3, <3>4, <3>5 DEF Follow
  <2>4. RolesFollow'
    BY <1>3, <2>3 DEF RolesFollow, Follow
  <2>5. halves' \in Seq(GoodWord(HalfOf))
    BY <1>2, <1>5
  <2>6. StreamsAreGood'
    BY <1>1, <1>5, <2>5 DEF ShiftersInv, StreamsAreGood
  <2>7. LShiftInv' /\ DoubleWidthInv' /\ RShiftInv'
    BY <1>1 DEF ShiftersInv, LShiftInv, DoubleWidthInv, RShiftInv, lsVars, dwVars, rsVars
  <2> QED BY <1>1, <1>5, <2>4, <2>6, <2>7 DEF ShiftersInv
<1>6. CASE hwState = "FIRST" /\ shifted # << >> /\ shifted' = Tail(shifted)
           /\ hwWord' = Head(shifted)
           /\ halves' = Append(halves, Word(Half(Head(shifted).data, 0),
                                            FirstHalfIsLast(Head(shifted))))
           /\ hwState' = IF Head(shifted).data[HalfOf] # NoByte THEN "SECOND" ELSE "FIRST"
  <2> DEFINE w == Head(shifted)
             data == w.data
             low == Half(data, 0)
             done == data[HalfOf] = NoByte
             half == Word(low, done)
  <2>1. w \in GoodWord(Octets) /\ shifted' \in Seq(GoodWord(Octets))
    BY <1>2, <1>6, HeadAndTail
  <2>2. /\ data \in Data(Octets) /\ w.last \in BOOLEAN /\ Tight(data, Octets)
        /\ ~w.last => Filled(data, Octets)
    BY <2>1, GoodWordIs
  <2>3. h.upper = FALSE /\ hwWord' = w /\ hwState' = IF done THEN "FIRST" ELSE "SECOND"
    BY <1>3, <1>4, <1>6 DEF Follow
  <2>4. halves' = Append(halves, half)
    BY <1>1, <1>6 DEF FirstHalfIsLast
  <2> DEFINE from == At(FALSE, h.start)
  <2>5. from \in Role /\ from.start = h.start
    BY <1>4, RolesAre
  <2>6. /\ Reaches(Octets, from, w) /\ Runs(Octets, shifted', At(FALSE, w.last), s)
    <3>1. Runs(Octets, shifted, from, s)
      BY <1>3, <1>6 DEF Follow
    <3>2. After(Octets, from, w) = At(FALSE, w.last)
      BY ONLY <2>2, AfterOne
    <3> HIDE DEF from
    <3>3. Reaches(Octets, from, w) /\ Runs(Octets, Tail(shifted), After(Octets, from, w), s)
      BY <1>2, <1>3, <1>6, <2>5, <3>1, RunsFrom
    <3> QED BY <1>6, <3>2, <3>3
  <2>7. h.start => data[offset] # NoByte
    BY <2>5, <2>6 DEF Reaches
  <2>8. done \in BOOLEAN /\ (done => w.last = TRUE)
    <3>1. HalfOf \in 0 .. Octets - 1
      BY <1>1
    <3> QED BY <2>2, <3>1 DEF Filled
  <2> HIDE DEF w
  <2>9. /\ low \in Data(HalfOf)
        /\ \A i \in 0 .. HalfOf - 1 : low[i] = data[i] /\ i \in 0 .. Octets - 1
    BY <2>2, HalvesAre
  <2>10. \A i, j \in 0 .. Octets - 1 : i < j /\ data[j] # NoByte => data[i] # NoByte
    BY <2>2 DEF Tight
  <2> HIDE DEF low, data
  <2>11. Tight(low, HalfOf)
    <3>1. 0 \in 0 .. HalfOf - 1
      BY <1>1
    <3> QED BY <2>2, <2>9, <2>10, <3>1 DEF Tight
  <2>12. ~done => Filled(low, HalfOf)
    <3>1. HalfOf \in 0 .. Octets - 1 /\ \A i \in 0 .. HalfOf - 1 : i < HalfOf
      BY <1>1
    <3> QED BY <2>9, <2>10, <3>1 DEF Filled
  <2>13. done /\ h.start => offset < HalfOf /\ low[offset] # NoByte
    <3>1. HalfOf \in 0 .. Octets - 1
      BY <1>1
    <3>2. done /\ h.start => offset < HalfOf
      BY <1>1, <2>7, <2>10, <3>1
    <3>3. offset < HalfOf => offset \in 0 .. HalfOf - 1
      BY <1>1
    <3> QED BY <2>7, <2>9, <3>2, <3>3
  <2> HIDE DEF done
  <2>14. half \in GoodWord(HalfOf) /\ half.data = low /\ half.last = done
    BY <2>8, <2>9, <2>11, <2>12, WordIsGood
  <2> HIDE DEF half
  <2>15. Reaches(HalfOf, h, half)
    BY <2>3, <2>13, <2>14, NotOfAHalf DEF Reaches
  <2> DEFINE k == IF done THEN At(FALSE, TRUE) ELSE At(TRUE, h.start)
  <2>16. k \in Role /\ k = After(HalfOf, h, half) /\ k.upper = ~done
         /\ k.start = (done \/ h.start)
    <3>1. k = After(HalfOf, h, half)
      BY <2>3, <2>8, <2>14, NotOfAHalf DEF After
    <3>2. CASE done
      BY <3>1, <3>2, RolesAre
    <3>3. CASE ~done
      <4>1. k = At(TRUE, h.start)
        BY <3>3
      <4>2. k \in Role /\ k.upper = TRUE /\ k.start = h.start
        BY <1>4, <4>1, RolesAre
      <4> QED BY <1>4, <3>1, <3>3, <4>2
    <3> QED BY <3>2, <3>3
  <2> HIDE DEF k
  <2>17. k.upper <=> hwState' = "SECOND"
    BY <2>3, <2>8, <2>16
  <2>18. hwState' = "SECOND" /\ k.start => hwWord'.data[offset] # NoByte
    BY <2>3, <2>7, <2>16 DEF data
  <2>19. Runs(Octets, shifted',
              At(FALSE, IF hwState' = "SECOND" THEN hwWord'.last ELSE k.start), s)
    BY <2>3, <2>6, <2>8, <2>16
  <2>20. HalfWidthInv'
    BY <2>1, <2>3 DEF HalfWidthInv, done, data
  <2> QED BY <1>5, <2>1, <2>4, <2>14, <2>15, <2>16, <2>17, <2>18, <2>19, <2>20
<1>7. CASE hwState = "SECOND" /\ hwState' = "FIRST" /\ UNCHANGED <<hwWord, shifted>>
           /\ halves' = Append(halves, Word(Half(hwWord.data, 1), hwWord.last))
  <2> DEFINE data == hwWord.data
             high == Half(data, 1)
             last == hwWord.last
             half == Word(high, last)
  <2>1. hwWord \in GoodWord(Octets) /\ data[HalfOf] # NoByte
    BY <1>2, <1>7 DEF HalfWidthInv
  <2>2. /\ data \in Data(Octets) /\ last \in BOOLEAN /\ Tight(data, Octets)
        /\ ~last => Filled(data, Octets)
    BY <2>1, GoodWordIs
  <2>3. h.upper = TRUE /\ (h.start => data[offset] # NoByte)
    BY <1>3, <1>4, <1>7 DEF Follow
  <2>4. /\ high \in Data(HalfOf)
        /\ \A i \in 0 .. HalfOf - 1 : high[i] = data[i + HalfOf] /\ i + HalfOf \in 0 .. Octets - 1
    BY <2>2, HalvesAre
  <2>5. \A i, j \in 0 .. Octets - 1 : i < j /\ data[j] # NoByte => data[i] # NoByte
    BY <2>2 DEF Tight
  <2> HIDE DEF high, data, last
  <2>6. Tight(high, HalfOf)
    <3>1. 0 \in 0 .. HalfOf - 1 /\ 0 + HalfOf = HalfOf
      BY <1>1
    <3>2. \A i, j \in 0 .. HalfOf - 1 : i < j => i + HalfOf < j + HalfOf
      BY <1>1
    <3> QED BY <2>1, <2>4, <2>5, <3>1, <3>2 DEF Tight, data
  <2>7. ~last => Filled(high, HalfOf)
    BY <2>2, <2>4 DEF Filled
  <2>8. half \in GoodWord(HalfOf) /\ half.data = high /\ half.last = last
    BY <2>2, <2>4, <2>6, <2>7, WordIsGood
  <2>9. halves' = Append(halves, half)
    BY <1>7 DEF high, data, last
  <2> HIDE DEF half
  <2>10. Reaches(HalfOf, h, half)
    <3>1. offset >= HalfOf =>
             offset - HalfOf \in 0 .. HalfOf - 1 /\ (offset - HalfOf) + HalfOf = offset
      BY <1>1
    <3>2. h.start /\ offset >= HalfOf => high[offset - HalfOf] # NoByte
      BY <2>3, <2>4, <3>1
    <3> QED BY <2>3, <2>8, <3>2, NotOfAHalf DEF Reaches
  <2> DEFINE k == At(FALSE, last)
  <2>11. k \in Role /\ k.upper = FALSE /\ k.start = last
    BY <2>2, RolesAre
  <2>12. k = After(HalfOf, h, half)
    BY <2>2, <2>3, <2>8, AfterOne DEF k
  <2>13. Runs(Octets, shifted, At(FALSE, last), s)
    BY <1>3, <1>7 DEF Follow, last
  <2> HIDE DEF k
  <2>14. Runs(Octets, shifted',
              At(FALSE, IF hwState' = "SECOND" THEN hwWord'.last ELSE k.start), s)
    BY <1>7, <2>11, <2>13
  <2>15. HalfWidthInv'
    BY <1>7 DEF HalfWidthInv
  <2>16. /\ shifted' \in Seq(GoodWord(Octets)) /\ (k.upper <=> hwState' = "SECOND")
         /\ hwState' = "SECOND" /\ k.start => hwWord'.data[offset] # NoByte
    BY <1>2, <1>7, <2>11
  <2> QED BY <1>5, <2>8, <2>9, <2>10, <2>11, <2>12, <2>14, <2>15, <2>16
<1> QED BY <1>1, <1>6, <1>7 DEF ToHalfWidth

LEMMA ToDoubleWidthKeeps == ShiftersInv /\ ToDoubleWidth => ShiftersInv'
<1> SUFFICES ASSUME ShiftersInv, ToDoubleWidth PROVE ShiftersInv'
  OBVIOUS
<1>1. /\ offset' = offset /\ offset \in 0 .. Octets - 1 /\ Octets \in Nat \ {0, 1}
      /\ UNCHANGED <<input, shifted, output, lsVars, hwVars, rsVars>>
      /\ HalfOf \in Nat \ {0} /\ HalfOf < Octets /\ Octets = HalfOf + HalfOf
      /\ Octets \div 2 = HalfOf
  BY OctetSizes DEF ToDoubleWidth, ShiftersInv
<1>2. /\ doubled \in Seq(GoodWord(Octets)) /\ halves \in Seq(GoodWord(HalfOf))
      /\ even \in {0, 1} /\ temp \in Data(Octets)
      /\ even = 1 => \A i \in 0 .. Octets - 1 : temp[i] # NoByte <=> i < HalfOf
  BY DEF ShiftersInv, StreamsAreGood, DoubleWidthInv
<1>3. PICK d, h, s \in Role : Follow(d, h, s)
  BY DEF ShiftersInv, RolesFollow, Follow
<1> DEFINE half == Head(halves)
           from == At(even = 1, d.start)
           place == Placed(half.data)
           first == At(FALSE, rs_firstWord)
<1>4. d.start \in BOOLEAN /\ rs_firstWord \in BOOLEAN
  BY DEF Role, ShiftersInv, RShiftInv
<1>5. from \in Role /\ from.start = d.start /\ from.upper = (even = 1) /\ first \in Role
  BY <1>4, RolesAre
<1>6. /\ halves # << >> /\ halves' = Tail(halves) /\ temp' = place
      /\ IF even = 1 \/ half.last
         THEN doubled' = Append(doubled, Word(place, half.last)) /\ even' = 0
         ELSE even' = 1 /\ UNCHANGED doubled
  BY DEF ToDoubleWidth
<1>7. half \in GoodWord(HalfOf) /\ halves' \in Seq(GoodWord(HalfOf))
  BY <1>2, <1>6, HeadAndTail
<1>8. /\ half.data \in Data(HalfOf) /\ half.last \in BOOLEAN /\ Tight(half.data, HalfOf)
      /\ ~half.last => Filled(half.data, HalfOf)
  BY <1>7, GoodWordIs
<1> HIDE DEF half, from
<1>9. Reaches(HalfOf, from, half) /\ Runs(HalfOf, halves', After(HalfOf, from, half), h)
  <2>1. Runs(HalfOf, halves, from, h)
    BY <1>3 DEF Follow, from
  <2> QED BY <1>2, <1>3, <1>5, <1>6, <2>1, RunsFrom DEF half
<1>10. /\ place \in Data(Octets)
       /\ \A i \in 0 .. Octets - 1 :
             place[i] = IF i >= HalfOf
                        THEN IF even = 1 THEN half.data[i - HalfOf] ELSE NoByte
                        ELSE IF even = 1 THEN temp[i] ELSE half.data[i]
  <2>1. place = [i \in 0 .. Octets - 1 |->
                    IF i >= HalfOf
                    THEN IF even = 1 THEN half.data[i - HalfOf] ELSE NoByte
                    ELSE IF even = 1 THEN temp[i] ELSE half.data[i]]
    BY <1>1 DEF Placed
  <2>2. ASSUME NEW i \in 0 .. Octets - 1
        PROVE  (IF i >= HalfOf THEN IF even = 1 THEN half.data[i - HalfOf] ELSE NoByte
                ELSE IF even = 1 THEN temp[i] ELSE half.data[i]) \in Octet
    <3>1. NoByte \in Octet /\ temp[i] \in Octet
      BY <1>2 DEF Data, Octet, NoByte
    <3>2. i >= HalfOf => half.data[i - HalfOf] \in Octet
      <4>1. i >= HalfOf => i - HalfOf \in 0 .. HalfOf - 1
        BY <1>1
      <4> QED BY <1>8, <4>1 DEF Data
    <3>3. ~(i >= HalfOf) => half.data[i] \in Octet
      <4>1. ~(i >= HalfOf) => i \in 0 .. HalfOf - 1
        BY <1>1
      <4> QED BY <1>8, <4>1 DEF Data
    <3> QED BY <3>1, <3>2, <3>3
  <2> QED BY <2>1, <2>2 DEF Data
<1> HIDE DEF place, first
<1>11. /\ UNCHANGED <<input, shifted, output, rs_firstWord, hwState, hwWord,
                      ls_firstWord, ls_writeRemainder>>
       /\ LShiftInv' /\ HalfWidthInv' /\ RShiftInv'
  BY <1>1 DEF ShiftersInv, LShiftInv, HalfWidthInv, RShiftInv, lsVars, hwVars, rsVars
(* It is enough to know what is sent and what is left in temp.             *)
<1>12. ASSUME doubled' \in Seq(GoodWord(Octets)), DoubleWidthInv', NEW e \in Role,
              Runs(Octets, doubled', first, e), Runs(HalfOf, halves', At(even' = 1, e.start), h)
       PROVE  ShiftersInv'
  <2>1. Follow(e, h, s)'
    <3>1. Runs(Octets, doubled, At(FALSE, rs_firstWord), e)'
      <4>1. Runs(Octets, doubled', At(FALSE, rs_firstWord'), e)
        BY <1>11, <1>12 DEF first
      <4> QED BY <1>1, <4>1, RunsStay
    <3>2. Runs(HalfOf, halves, At(even = 1, e.start), h)'
      BY <1>1, <1>12, RunsStay
    <3>3. Runs(Octets, shifted, At(FALSE, IF hwState = "SECOND" THEN hwWord.last
                                          ELSE h.start), s)'
      <4>1. Runs(Octets, shifted, At(FALSE, IF hwState = "SECOND" THEN hwWord.last
                                            ELSE h.start), s)
        BY <1>3 DEF Follow
      <4> QED BY <1>1, <1>11, <4>1, RunsStay
    <3>4. /\ h.upper <=> hwState' = "SECOND"
          /\ hwState' = "SECOND" /\ h.start => hwWord'.data[offset'] # NoByte
          /\ offset' # 0 => s.start = (ls_firstWord' /\ ~ls_writeRemainder')
      BY <1>1, <1>3, <1>11 DEF Follow
    <3> QED BY <3>1, <3>2, <3>3, <3>4 DEF Follow
  <2>2. RolesFollow'
    BY <1>3, <1>12, <2>1 DEF RolesFollow, Follow
  <2>3. StreamsAreGood'
    BY <1>7, <1>11, <1>12 DEF ShiftersInv, StreamsAreGood
  <2> QED BY <1>1, <1>11, <1>12, <2>2, <2>3 DEF ShiftersInv
<1>13. \A i \in 0 .. HalfOf - 1 : i \in 0 .. Octets - 1 /\ ~(i >= HalfOf)
  BY <1>1
<1>14. \A i \in 0 .. Octets - 1 : i >= HalfOf => i - HalfOf \in 0 .. HalfOf - 1
  BY <1>1
<1>15. 0 \in 0 .. HalfOf - 1 /\ 0 \in 0 .. Octets - 1 /\ ~(0 >= HalfOf)
  BY <1>1
<1>16. /\ half.data[0] # NoByte
       /\ \A i, j \in 0 .. HalfOf - 1 : i < j /\ half.data[j] # NoByte => half.data[i] # NoByte
  BY <1>8 DEF Tight
<1>17. Tight(place, Octets)
  <2>1. CASE even = 1
    <3>1. /\ \A i \in 0 .. Octets - 1 : i >= HalfOf => place[i] = half.data[i - HalfOf]
          /\ \A i \in 0 .. Octets - 1 : ~(i >= HalfOf) => place[i] # NoByte
      <4>1. \A i \in 0 .. Octets - 1 : ~(i >= HalfOf) => i < HalfOf
        BY <1>1
      <4> QED BY <1>2, <1>10, <2>1, <4>1
    <3>2. ASSUME NEW i \in 0 .. Octets - 1, NEW j \in 0 .. Octets - 1,
                 i < j, place[j] # NoByte, i >= HalfOf
          PROVE  place[i] # NoByte
      <4>1. j >= HalfOf /\ i - HalfOf < j - HalfOf
        BY <1>1, <3>2
      <4> QED BY <1>14, <1>16, <3>1, <3>2, <4>1
    <3> QED BY <1>15, <3>1, <3>2 DEF Tight
  <2>2. CASE even # 1
    <3>1. /\ \A i \in 0 .. Octets - 1 : i >= HalfOf => place[i] = NoByte
          /\ \A i \in 0 .. Octets - 1 : ~(i >= HalfOf) => place[i] = half.data[i]
      BY <1>10, <2>2
    <3>2. ASSUME NEW i \in 0 .. Octets - 1, NEW j \in 0 .. Octets - 1,
                 i < j, place[j] # NoByte
          PROVE  place[i] # NoByte
      <4>1. ~(j >= HalfOf)
        BY <3>1, <3>2
      <4>2. ~(i >= HalfOf) /\ i \in 0 .. HalfOf - 1 /\ j \in 0 .. HalfOf - 1
        BY <1>1, <3>2, <4>1
      <4> QED BY <1>16, <3>1, <3>2, <4>1, <4>2
    <3> QED BY <1>15, <1>16, <3>1, <3>2 DEF Tight
  <2> QED BY <2>1, <2>2
<1>18. CASE even = 1 \/ half.last
  <2> DEFINE w == Word(place, half.last)
  <2>1. doubled' = Append(doubled, w) /\ even' = 0
    BY <1>6, <1>18
  <2>2. ~half.last => Filled(place, Octets)
    <3>1. ASSUME ~half.last, NEW i \in 0 .. Octets - 1 PROVE place[i] # NoByte
      <4>1. even = 1 /\ \A j \in 0 .. HalfOf - 1 : half.data[j] # NoByte
        BY <1>8, <1>18, <3>1 DEF Filled
      <4>2. CASE i >= HalfOf
        BY <1>10, <1>14, <4>1, <4>2
      <4>3. CASE ~(i >= HalfOf)
        <5>1. i < HalfOf
          BY <1>1, <4>3
        <5> QED BY <1>2, <1>10, <4>1, <4>3, <5>1
      <4> QED BY <4>2, <4>3
    <3> QED BY <3>1 DEF Filled
  <2>3. w \in GoodWord(Octets) /\ w.data = place /\ w.last = half.last
    BY <1>8, <1>10, <1>17, <2>2, WordIsGood
  <2> HIDE DEF w
  <2>4. Reaches(Octets, d, w)
    <3> SUFFICES ASSUME d.start PROVE place[offset] # NoByte
      BY <2>3 DEF Reaches
    <3>1. CASE even = 1
      <4>1. offset >= HalfOf => half.data[offset - HalfOf] # NoByte
        BY <1>5, <1>9, <3>1, NotOfAHalf DEF Reaches
      <4>2. ~(offset >= HalfOf) => offset < HalfOf
        BY <1>1
      <4> QED BY <1>1, <1>2, <1>10, <3>1, <4>1, <4>2
    <3>2. CASE even # 1
      <4>1. half.last /\ from.upper = FALSE
        BY <1>5, <1>18, <3>2
      <4>2. offset < HalfOf /\ half.data[offset] # NoByte
        BY <1>5, <1>9, <4>1, NotOfAHalf DEF Reaches
      <4>3. ~(offset >= HalfOf)
        BY <1>1, <4>2
      <4> QED BY <1>1, <1>10, <3>2, <4>2, <4>3
    <3> QED BY <3>1, <3>2
  <2> DEFINE e == At(FALSE, half.last)
  <2>5. e \in Role /\ e.start = half.last
    BY <1>8, RolesAre
  <2>6. After(Octets, d, w) = e
    BY <1>8, <2>3, AfterOne
  <2>7. After(HalfOf, from, half) = e
    <3>1. CASE even = 1
      <4>1. from.upper = TRUE
        BY <1>5, <3>1
      <4> QED BY <1>8, <4>1, AfterOne
    <3>2. CASE even # 1
      <4>1. half.last = TRUE
        BY <1>8, <1>18, <3>2
      <4> QED BY <4>1 DEF After
    <3> QED BY <3>1, <3>2
  <2>8. Runs(Octets, doubled', first, e)
    <3>1. Runs(Octets, doubled, first, d)
      BY <1>3 DEF Follow, first
    <3> HIDE DEF e
    <3>2. Runs(Octets, Append(doubled, w), first, After(Octets, d, w))
      BY ONLY <1>2, <1>3, <1>5, <2>3, <2>4, <3>1, RunsOn
    <3> QED BY <2>1, <2>6, <3>2
  <2>9. Runs(HalfOf, halves', At(even' = 1, e.start), h)
    <3>1. (even' = 1) = FALSE
      BY <2>1
    <3>2. At(even' = 1, e.start) = e
      BY <2>5, <3>1
    <3> HIDE DEF e
    <3> QED BY <1>9, <2>7, <3>2
  <2>10. DoubleWidthInv'
    BY <1>6, <1>10, <2>1 DEF DoubleWidthInv
  <2>11. doubled' \in Seq(GoodWord(Octets))
    BY <1>2, <2>1, <2>3
  <2> HIDE DEF e
  <2> QED BY <1>12, <2>5, <2>8, <2>9, <2>10, <2>11
<1>19. CASE ~(even = 1 \/ half.last)
  <2>1. even' = 1 /\ doubled' = doubled /\ even = 0 /\ half.last = FALSE
    BY <1>2, <1>6, <1>8, <1>19
  <2>2. DoubleWidthInv'
    <3>1. \A i \in 0 .. HalfOf - 1 : half.data[i] # NoByte
      BY <1>8, <2>1 DEF Filled
    <3>2. ASSUME NEW i \in 0 .. Octets - 1 PROVE place[i] # NoByte <=> i < HalfOf
      <4>1. CASE i >= HalfOf
        <5>1. place[i] = NoByte /\ ~(i < HalfOf)
          BY <1>1, <1>10, <2>1, <4>1
        <5> QED BY <5>1
      <4>2. CASE ~(i >= HalfOf)
        <5>1. place[i] = half.data[i] /\ i \in 0 .. HalfOf - 1 /\ i < HalfOf
          BY <1>1, <1>10, <2>1, <4>2
        <5> QED BY <3>1, <5>1
      <4> QED BY <4>1, <4>2
    <3> QED BY <1>6, <1>10, <2>1, <3>2 DEF DoubleWidthInv
  <2>3. After(HalfOf, from, half) = At(even' = 1, d.start)
    <3>1. (even' = 1) = TRUE /\ (even = 1) = FALSE
      BY <2>1
    <3>2. from.upper = FALSE
      BY <1>5, <3>1
    <3> QED BY <1>5, <2>1, <3>1, <3>2, NotOfAHalf DEF After
  <2>4. Runs(Octets, doubled', first, d)
    BY <1>3, <2>1 DEF Follow, first
  <2> QED BY <1>2, <1>3, <1>9, <1>12, <2>1, <2>2, <2>3, <2>4
<1> QED BY <1>18, <1>19

LEMMA RShiftKeeps == ShiftersInv /\ RShift => ShiftersInv'
<1> SUFFICES ASSUME ShiftersInv, RShift PROVE ShiftersInv'
  OBVIOUS
<1>1. /\ offset' = offset /\ offset \in 0 .. Octets - 1 /\ Octets \in Nat \ {0, 1}
      /\ UNCHANGED <<input, shifted, halves, lsVars, hwVars, dwVars>>
  BY OctetSizes DEF RShift, ShiftersInv
<1>2. /\ doubled \in Seq(GoodWord(Octets)) /\ output \in Seq(GoodWord(Octets))
      /\ RShiftInv
  BY DEF ShiftersInv, StreamsAreGood
<1>3. PICK d, h, s \in Role : Follow(d, h, s)
  BY DEF ShiftersInv, RolesFollow, Follow
<1>4. /\ UNCHANGED <<input, shifted, halves, even, hwState, hwWord,
                     ls_firstWord, ls_writeRemainder>>
      /\ LShiftInv' /\ HalfWidthInv' /\ DoubleWidthInv'
  BY <1>1 DEF ShiftersInv, LShiftInv, HalfWidthInv, DoubleWidthInv, lsVars, hwVars, dwVars
(* It is enough to know what is read and what is sent.                     *)
<1>5. ASSUME doubled' \in Seq(GoodWord(Octets)), output' \in Seq(GoodWord(Octets)), RShiftInv',
             Runs(Octets, doubled', At(FALSE, rs_firstWord'), d)
      PROVE  ShiftersInv'
  <2>1. Follow(d, h, s)'
    <3>1. Runs(Octets, doubled, At(FALSE, rs_firstWord), d)'
      BY <1>1, <1>5, RunsStay
    <3>2. Runs(HalfOf, halves, At(even = 1, d.start), h)'
      <4>1. Runs(HalfOf, halves, At(even = 1, d.start), h)
        BY <1>3 DEF Follow
      <4> QED BY <1>1, <1>4, <4>1, RunsStay
    <3>3. Runs(Octets, shifted, At(FALSE, IF hwState = "SECOND" THEN hwWord.last
                                          ELSE h.start), s)'
      <4>1. Runs(Octets, shifted, At(FALSE, IF hwState = "SECOND" THEN hwWord.last
                                            ELSE h.start), s)
        BY <1>3 DEF Follow
      <4> QED BY <1>1, <1>4, <4>1, RunsStay
    <3>4. /\ h.upper <=> hwState' = "SECOND"
          /\ hwState' = "SECOND" /\ h.start => hwWord'.data[offset'] # NoByte
          /\ offset' # 0 => s.start = (ls_firstWord' /\ ~ls_writeRemainder')
      BY <1>1, <1>3, <1>4 DEF Follow
    <3> QED BY <3>1, <3>2, <3>3, <3>4 DEF Follow
  <2>2. RolesFollow'
    BY <1>3, <2>1 DEF RolesFollow, Follow
  <2>3. StreamsAreGood'
    BY <1>4, <1>5 DEF ShiftersInv, StreamsAreGood
  <2> QED BY <1>1, <1>4, <1>5, <2>2, <2>3 DEF ShiftersInv
<1>6. CASE rsState = "PKG"
  <2> DEFINE w == Head(doubled)
             send == IF rs_firstWord THEN Word(Blank, FALSE)
                     ELSE IF offset = 0 THEN w
                     ELSE Word(Joined(rsPrev, w.data, offset), NothingFrom(w.data, offset))
             first == At(FALSE, rs_firstWord)
  <2>1. /\ doubled # << >> /\ doubled' = Tail(doubled)
        /\ output' = IF rs_firstWord THEN output ELSE Append(output, send)
        /\ rsPrev' = w.data /\ rs_firstWord' = w.last
        /\ rsState' = IF NeedsRemainder(w, send) THEN "REMAINDER" ELSE "PKG"
    BY <1>6 DEF RShift
  <2>2. w \in GoodWord(Octets) /\ doubled' \in Seq(GoodWord(Octets))
    BY <1>2, <2>1, HeadAndTail
  <2>3. /\ w.data \in Data(Octets) /\ w.last \in BOOLEAN /\ Tight(w.data, Octets)
        /\ ~w.last => Filled(w.data, Octets)
    BY <2>2, GoodWordIs
  <2>4. rs_firstWord \in BOOLEAN /\ rsPrev \in Data(Octets)
        /\ (~rs_firstWord => Filled(rsPrev, Octets))
    BY <1>2 DEF RShiftInv
  <2>5. first \in Role /\ first.start = rs_firstWord
    BY <2>4, RolesAre
  <2>6. /\ rs_firstWord => w.data[offset] # NoByte
        /\ Runs(Octets, doubled', At(FALSE, rs_firstWord'), d)
    <3>1. Runs(Octets, doubled, first, d)
      BY <1>3 DEF Follow
    <3> HIDE DEF first, w
    <3>2. After(Octets, first, w) = At(FALSE, w.last)
      BY <2>3, AfterOne
    <3>3. Reaches(Octets, first, w) /\ Runs(Octets, Tail(doubled), After(Octets, first, w), d)
      BY <1>2, <1>3, <2>1, <2>5, <3>1, RunsFrom DEF w
    <3> QED BY <2>1, <2>5, <3>2, <3>3 DEF Reaches
  <2> HIDE DEF w
  <2>7. ASSUME ~rs_firstWord
        PROVE  send \in GoodWord(Octets) /\ (w.last /\ ~send.last => w.data[offset] # NoByte)
    <3>1. CASE offset = 0
      <4>1. send = w
        BY <2>7, <3>1
      <4> QED BY <2>2, <4>1
    <3>2. CASE offset # 0
      <4> DEFINE j == Joined(rsPrev, w.data, offset)
                 over == NothingFrom(w.data, offset)
      <4>1. send = Word(j, over)
        BY <2>7, <3>2
      <4>2. /\ offset \in 1 .. Octets /\ offset \in 0 .. Octets
            /\ \A i \in offset .. Octets - 1 : i \in 0 .. Octets - 1
        BY <1>1, <3>2
      <4>3. \A i \in offset .. Octets - 1 : rsPrev[i] # NoByte
        BY <2>4, <2>7, <4>2 DEF Filled
      <4>4. Tight(j, Octets) /\ (~over => Filled(j, Octets))
        BY <2>3, <2>4, <4>2, <4>3, JoinedIsGood
      <4>5. j \in Data(Octets)
        BY <2>3, <2>4, <4>2, JoinedIs
      <4>6. over \in BOOLEAN
        BY DEF NothingFrom
      <4>7. ~over => w.data[offset] # NoByte
        <5> SUFFICES ASSUME ~over PROVE w.data[offset] # NoByte
          OBVIOUS
        <5>1. PICK i \in offset .. Octets - 1 : w.data[i] # NoByte
          BY DEF NothingFrom
        <5>2. i = offset \/ (offset < i /\ i \in 0 .. Octets - 1)
          BY <1>1
        <5> QED BY <1>1, <2>3, <5>1, <5>2 DEF Tight
      <4> HIDE DEF j, over, send
      <4>8. send \in GoodWord(Octets) /\ send.last = over
        BY <4>1, <4>4, <4>5, <4>6, WordIsGood
      <4> QED BY <4>7, <4>8
    <3> QED BY <3>1, <3>2
  <2>8. output' \in Seq(GoodWord(Octets))
    <3>1. CASE rs_firstWord
      BY <1>2, <2>1, <3>1
    <3>2. CASE ~rs_firstWord
      <4>1. output' = Append(output, send) /\ send \in GoodWord(Octets)
        BY <2>1, <2>7, <3>2
      <4> HIDE DEF send
      <4> QED BY <1>2, <4>1
    <3> QED BY <2>4, <3>1, <3>2
  <2>9. NeedsRemainder(w, send) => w.data[offset] # NoByte
    BY <2>4, <2>6, <2>7 DEF NeedsRemainder
  <2> HIDE DEF send
  <2>10. RShiftInv'
    <3>1. /\ rsPrev' \in Data(Octets) /\ rs_firstWord' \in BOOLEAN
          /\ rsState' \in {"PKG", "REMAINDER"}
          /\ ~rs_firstWord' => Filled(rsPrev', Octets)
      BY <2>1, <2>3
    <3>2. rsState' = "REMAINDER" => Tight(rsPrev', Octets) /\ rsPrev'[offset'] # NoByte
      BY <1>1, <2>1, <2>3, <2>9
    <3> QED BY <3>1, <3>2 DEF RShiftInv
  <2> QED BY <1>5, <2>2, <2>6, <2>8, <2>10
<1>7. CASE rsState = "REMAINDER"
  <2> DEFINE j == Joined(rsPrev, Blank, offset)
             m == Octets - 1
  <2>1. PICK top \in IF offset = 0 THEN {NoByte, rsPrev[m]} ELSE {NoByte} :
            output' = Append(output, Word([j EXCEPT ![m] = top], TRUE))
    BY <1>7 DEF RShift
  <2>2. rsState' = "PKG" /\ UNCHANGED <<rsPrev, rs_firstWord, doubled>>
    BY <1>7 DEF RShift
  <2>3. rsPrev \in Data(Octets) /\ Tight(rsPrev, Octets) /\ rsPrev[offset] # NoByte
    BY <1>2, <1>7 DEF RShiftInv
  <2>4. j \in Data(Octets) /\ Tight(j, Octets)
    BY <1>1, <2>3, RemainderIsTight
  <2>5. offset = 0 => j[m] = rsPrev[m]
    <3>1. Blank \in Data(Octets)
      BY DEF Blank, Data, NoByte, Octet
    <3>2. offset \in 0 .. Octets /\ m \in 0 .. Octets - 1 /\ m < Octets - 0 /\ m + 0 = m
      BY <1>1
    <3>3. \A i \in 0 .. Octets - 1 :
             j[i] = IF i < Octets - offset THEN rsPrev[i + offset]
                    ELSE Blank[i - (Octets - offset)]
      BY <2>3, <3>1, <3>2, JoinedIs
    <3> HIDE DEF j, m
    <3> QED BY <3>2, <3>3
  <2>6. top = NoByte \/ top = j[m]
    BY <2>1, <2>5
  <2>7. m \in 0 .. Octets - 1 /\ m # 0 /\ \A i \in 0 .. Octets - 1 : i <= m
    BY <1>1
  <2>8. NoByte \in Octet /\ \A i \in 0 .. Octets - 1 : j[i] \in Octet
    BY <2>4 DEF Data, NoByte, Octet
  <2> DEFINE r == [j EXCEPT ![m] = top]
  <2>9. r \in Data(Octets)
    <3>1. top \in Octet
      BY <2>6, <2>7, <2>8
    <3> HIDE DEF j, m
    <3> QED BY <2>4, <3>1 DEF Data
  <2>10. r[m] = top /\ \A i \in 0 .. Octets - 1 : i # m => r[i] = j[i]
    <3> HIDE DEF j, m
    <3> QED BY <2>4, <2>7 DEF Data
  <2> HIDE DEF r, j, m
  <2>11. Tight(r, Octets)
    <3>1. /\ j[0] # NoByte
          /\ \A i, k \in 0 .. Octets - 1 : i < k /\ j[k] # NoByte => j[i] # NoByte
      BY <2>4 DEF Tight
    <3>2. 0 \in 0 .. Octets - 1
      BY <1>1
    <3>3. ASSUME NEW i \in 0 .. Octets - 1, NEW k \in 0 .. Octets - 1, i < k, r[k] # NoByte
          PROVE  r[i] # NoByte
      <4>1. i # m
        <5>1. k <= m /\ m \in Int
          BY <1>1, <2>7 DEF m
        <5> QED BY <3>3, <5>1
      <4>2. j[k] # NoByte
        BY <2>6, <2>10, <3>3
      <4> QED BY <2>10, <3>1, <3>3, <4>1, <4>2
    <3> QED BY <2>7, <2>10, <3>1, <3>2, <3>3 DEF Tight
  <2>12. Word(r, TRUE) \in GoodWord(Octets)
    BY <2>9, <2>11, WordIsGood
  <2>13. output' = Append(output, Word(r, TRUE))
    BY <2>1 DEF r, j, m
  <2>14. output' \in Seq(GoodWord(Octets))
    <3> DEFINE G == GoodWord(Octets)
    <3> HIDE DEF G
    <3>1. output \in Seq(G) /\ Word(r, TRUE) \in G
      BY <1>2, <2>12 DEF G
    <3>2. Append(output, Word(r, TRUE)) \in Seq(G)
      BY ONLY <3>1, AppendProperties
    <3> QED BY <2>13, <3>2 DEF G
  <2>15. RShiftInv'
    BY <1>2, <2>2 DEF RShiftInv
  <2>16. Runs(Octets, doubled', At(FALSE, rs_firstWord'), d)
    BY <1>3, <2>2 DEF Follow
  <2> QED BY <1>2, <1>5, <2>2, <2>14, <2>15, <2>16
<1> QED BY <1>6, <1>7 DEF RShift

LEMMA NothingShifts == ShiftersInv /\ UNCHANGED shiftVars => ShiftersInv'
<1> SUFFICES ASSUME ShiftersInv, UNCHANGED shiftVars PROVE ShiftersInv'
  OBVIOUS
<1>1. UNCHANGED <<offset, input, shifted, halves, doubled, output,
                  ls_firstWord, ls_writeRemainder, lsPrev, hwState, hwWord, even, temp,
                  rsState, rs_firstWord, rsPrev>>
  BY DEF shiftVars, lsVars, hwVars, dwVars, rsVars
<1>2. StreamsAreGood' /\ LShiftInv' /\ HalfWidthInv' /\ DoubleWidthInv' /\ RShiftInv'
  BY <1>1 DEF ShiftersInv, StreamsAreGood, LShiftInv, HalfWidthInv, DoubleWidthInv, RShiftInv
<1>3. RolesFollow'
  <2>1. PICK d, h, s \in Role : Follow(d, h, s)
    BY DEF ShiftersInv, RolesFollow, Follow
  <2>2. Follow(d, h, s)'
    <3>1. /\ Runs(Octets, doubled, At(FALSE, rs_firstWord), d)
          /\ Runs(HalfOf, halves, At(even = 1, d.start), h)
          /\ Runs(Octets, shifted, At(FALSE, IF hwState = "SECOND" THEN hwWord.last
                                             ELSE h.start), s)
      BY <2>1 DEF Follow
    <3>2. Runs(Octets, doubled, At(FALSE, rs_firstWord), d)'
      <4>1. Runs(Octets, doubled', At(FALSE, rs_firstWord'), d)
        BY <1>1, <3>1
      <4> QED BY <1>1, <4>1, RunsStay
    <3>3. Runs(HalfOf, halves, At(even = 1, d.start), h)'
      <4>1. Runs(HalfOf, halves', At(even' = 1, d.start), h)
        BY <1>1, <3>1
      <4> QED BY <1>1, <4>1, RunsStay
    <3>4. Runs(Octets, shifted, At(FALSE, IF hwState = "SECOND" THEN hwWord.last
                                          ELSE h.start), s)'
      <4>1. Runs(Octets, shifted', At(FALSE, IF hwState' = "SECOND" THEN hwWord'.last
                                             ELSE h.start), s)
        BY <1>1, <3>1
      <4> QED BY <1>1, <4>1, RunsStay
    <3>5. /\ h.upper <=> hwState' = "SECOND"
          /\ hwState' = "SECOND" /\ h.start => hwWord'.data[offset'] # NoByte
          /\ offset' # 0 => s.start = (ls_firstWord' /\ ~ls_writeRemainder')
      BY <1>1, <2>1 DEF Follow
    <3> QED BY <3>2, <3>3, <3>4, <3>5 DEF Follow
  <2> QED BY <2>1, <2>2 DEF RolesFollow, Follow
<1> QED BY <1>1, <1>2, <1>3 DEF ShiftersInv

(* Whatever packages are sent, with whichever offset, and however the      *)
(* functions take turns, each of them finds what it relies on in the       *)
(* stream it reads: every word on every stream of the chain has octets,    *)
(* has them without a gap, and has all of them unless it is the last of    *)
(* its package.                                                            *)
THEOREM ShiftedWordsAreWellFormed == ShiftSpec => []WordsAreWellFormed
<1>1. ShiftInit => ShiftersInv
  BY InitShiftersInv
<1>2. ShiftersInv /\ [ShiftNext]_shiftVars => ShiftersInv'
  BY LShiftKeeps, ToHalfWidthKeeps, ToDoubleWidthKeeps, RShiftKeeps, NothingShifts
  DEF ShiftNext
<1>3. ShiftersInv => WordsAreWellFormed
  <2> SUFFICES ASSUME ShiftersInv PROVE WordsAreWellFormed
    OBVIOUS
  <2>1. Octets \in Nat \ {0} /\ HalfOf \in Nat \ {0}
    BY OctetSizes
  <2>2. /\ \A stream \in {shifted, doubled, output} : stream \in Seq(GoodWord(Octets))
        /\ halves \in Seq(GoodWord(HalfOf))
    BY DEF ShiftersInv, StreamsAreGood
  <2> QED BY <2>1, <2>2, GoodIsWellFormed DEF WordsAreWellFormed
<1> QED BY <1>1, <1>2, <1>3, PTL DEF ShiftSpec

-----------------------------------------------------------------------------
(***************************************************************************)
(* What goes into the chain of shifters comes out of it.  The invariant    *)
(* places every word of every stream in the packages that were sent: the   *)
(* words of a stream lie between the spot up to which its writer has       *)
(* written and the one up to which its reader has read, and what a         *)
(* function keeps in its registers is what lies between its two spots.     *)
(***************************************************************************)
(* The octets of package p with f octets before them, and what its words   *)
(* are: a word begins at a spot, so many octets into a package.            *)
OctetAt(f, p, x) ==
    IF x < f THEN Zero ELSE IF x < job[p] + f THEN <<p, x - f>> ELSE NoByte
Spots == [package : Nat \ {0}, place : Nat]
Spot(p, x) == [package |-> p, place |-> x]
IsThere(f, at) == at.package \in 1 .. Len(job) /\ at.place < job[at.package] + f
DataAt(width, f, at) == [i \in 0 .. width - 1 |-> OctetAt(f, at.package, at.place + i)]
IsLastAt(width, f, at) == at.place + width >= job[at.package] + f
WordAt(width, f, at) == Word(DataAt(width, f, at), IsLastAt(width, f, at))
NextSpot(width, f, at) ==
    IF IsLastAt(width, f, at) THEN Spot(at.package + 1, 0)
    ELSE Spot(at.package, at.place + width)

(* The words of a stream, all that lie between two spots.                  *)
Fills(width, f, words, g) ==
    \A i \in 1 .. Len(words) :
        /\ IsThere(f, g[i]) /\ words[i] = WordAt(width, f, g[i])
        /\ g[i + 1] = NextSpot(width, f, g[i])
Leads(width, f, words, from, to) ==
    \E g \in [1 .. Len(words) + 1 -> Spots] :
        g[1] = from /\ g[Len(words) + 1] = to /\ Fills(width, f, words, g)

(* How far each function is: it has read what comes before the one spot    *)
(* and written what comes before the other one.                            *)
LShiftIsAt(read, written) ==
    IF ls_writeRemainder
    THEN /\ ls_firstWord /\ read = Spot(written.package + 1, 0)
         /\ IsThere(offset, written) /\ written.place >= job[written.package]
         /\ written.place >= Octets
         /\ lsPrev = DataAt(Octets, 0, Spot(written.package, written.place - Octets))
    ELSE /\ written = read
         /\ offset # 0 => ls_firstWord = (read.place = 0)
         /\ offset # 0 /\ read.place # 0 =>
               /\ read.place >= Octets
               /\ lsPrev = DataAt(Octets, 0, Spot(read.package, read.place - Octets))

HalfWidthIsAt(read, written) ==
    IF hwState = "SECOND"
    THEN /\ IsThere(offset, written) /\ written.place >= HalfOf
         /\ LET at == Spot(written.package, written.place - HalfOf) IN
            hwWord = WordAt(Octets, offset, at) /\ read = NextSpot(Octets, offset, at)
    ELSE read = written

DoubleWidthIsAt(read, written) ==
    IF even = 1
    THEN /\ read = Spot(written.package, written.place + HalfOf) /\ IsThere(offset, read)
         /\ \A i \in 0 .. HalfOf - 1 :
               temp[i] = OctetAt(offset, written.package, written.place + i)
    ELSE read = written

RShiftIsAt(read, written) ==
    IF rsState = "REMAINDER"
    THEN /\ rs_firstWord /\ read = Spot(written.package + 1, 0)
         /\ IsThere(0, written) /\ IsLastAt(Octets, offset, written)
         /\ rsPrev = DataAt(Octets, offset, written)
    ELSE /\ rs_firstWord = (read.place = 0)
         /\ IF rs_firstWord THEN written = read
            ELSE /\ read.place >= Octets
                 /\ written = Spot(read.package, read.place - Octets)
                 /\ rsPrev = DataAt(Octets, offset, written)

(* The end of what was sent; a spot up to there.                           *)
EndSpot == Spot(Len(job) + 1, 0)
IsUpToEnd(at) == (at.place = 0 /\ at.package <= Len(job) + 1) \/ IsThere(0, at)

LShiftSpots(a, b) == Leads(Octets, 0, input, a, EndSpot) /\ LShiftIsAt(a, b)
HalfWidthSpots(b, c, d) == Leads(Octets, offset, shifted, c, b) /\ HalfWidthIsAt(c, d)
DoubleWidthSpots(d, e, g) == Leads(HalfOf, offset, halves, e, d) /\ DoubleWidthIsAt(e, g)
RShiftSpots(g, h, o) ==
    /\ Leads(Octets, offset, doubled, h, g)
    /\ Transparent => /\ RShiftIsAt(h, o) /\ IsUpToEnd(o)
                      /\ Leads(Octets, 0, output, Spot(1, 0), o)
ChainIsAt(b, d, g) ==
    /\ \E a \in Spots : LShiftSpots(a, b)
    /\ \E c \in Spots : HalfWidthSpots(b, c, d)
    /\ \E e \in Spots : DoubleWidthSpots(d, e, g)
    /\ \E h, o \in Spots : RShiftSpots(g, h, o)
ChainInv ==
    /\ offset \in 0 .. Octets - 1 /\ job \in Seq(Nat \ {0})
    /\ \E b, d, g \in Spots : ChainIsAt(b, d, g)

(* The packages up to a spot.                                              *)
FirstOctets(p, n) == [y \in 1 .. n |-> <<p, y - 1>>]
PackagesTo(at) ==
    [q \in 1 .. at.package |->
        FirstOctets(q, IF q < at.package THEN job[q] ELSE at.place)]

LEMMA SpotsAre ==
    /\ \A p \in Nat \ {0}, x \in Nat :
          Spot(p, x) \in Spots /\ Spot(p, x).package = p /\ Spot(p, x).place = x
    /\ \A at \in Spots :
          at.package \in Nat \ {0} /\ at.place \in Nat /\ at = Spot(at.package, at.place)
    BY DEF Spot, Spots

LEMMA NextIsASpot ==
    ASSUME NEW width \in Nat, NEW f, NEW at \in Spots
    PROVE  NextSpot(width, f, at) \in Spots
<1>1. at.package \in Nat \ {0} /\ at.place \in Nat
  BY SpotsAre
<1>2. at.package + 1 \in Nat \ {0} /\ at.place + width \in Nat /\ 0 \in Nat
  BY <1>1
<1>3. Spot(at.package + 1, 0) \in Spots /\ Spot(at.package, at.place + width) \in Spots
  BY <1>1, <1>2, SpotsAre
<1> QED BY <1>3 DEF NextSpot

(* The words of a stream that nothing is in, that a word is written to,    *)
(* that one is read from, and of two that follow one another.              *)
LEMMA LeadsNowhere ==
    ASSUME NEW width, NEW f, NEW at \in Spots
    PROVE  Leads(width, f, << >>, at, at)
<1> DEFINE g == [i \in 1 .. Len(<< >>) + 1 |-> at]
<1>1. Len(<< >>) = 0
  OBVIOUS
<1>2. g \in [1 .. Len(<< >>) + 1 -> Spots] /\ g[1] = at /\ g[Len(<< >>) + 1] = at
  BY <1>1
<1>3. Fills(width, f, << >>, g)
  BY <1>1 DEF Fills
<1> QED BY <1>2, <1>3 DEF Leads

LEMMA LeadsOn ==
    ASSUME NEW S, NEW words \in Seq(S), NEW w, NEW width \in Nat, NEW f,
           NEW from \in Spots, NEW to \in Spots, Leads(width, f, words, from, to),
           IsThere(f, to), w = WordAt(width, f, to)
    PROVE  Leads(width, f, Append(words, w), from, NextSpot(width, f, to))
<1>1. PICK g \in [1 .. Len(words) + 1 -> Spots] :
          g[1] = from /\ g[Len(words) + 1] = to /\ Fills(width, f, words, g)
  BY DEF Leads
<1> DEFINE n == Len(words)
           more == Append(words, w)
           next == NextSpot(width, f, to)
           h == [i \in 1 .. n + 1 + 1 |-> IF i <= n + 1 THEN g[i] ELSE next]
           Fits(at, word, then) ==
               IsThere(f, at) /\ word = WordAt(width, f, at) /\ then = NextSpot(width, f, at)
<1>2. /\ n \in Nat /\ Len(more) = n + 1 /\ more[n + 1] = w
      /\ \A i \in 1 .. n : more[i] = words[i]
  <2>1. words \in Seq(S \cup {w}) /\ w \in S \cup {w}
    BY SeqMonotonic
  <2> QED BY ONLY <2>1
<1>3. next \in Spots
  BY NextIsASpot
<1>4. g \in [1 .. n + 1 -> Spots] /\ g[1] = from /\ g[n + 1] = to
  BY <1>1
<1>5. \A i \in 1 .. n : Fits(g[i], words[i], g[i + 1])
  BY <1>1 DEF Fills
<1>6. Fits(to, w, next)
  OBVIOUS
<1> HIDE DEF n, more, next, Fits
<1>7. h \in [1 .. n + 1 + 1 -> Spots]
  BY <1>2, <1>3, <1>4
<1>8. /\ \A i \in 1 .. n + 1 : h[i] = g[i]
      /\ h[n + 1 + 1] = next
  BY <1>2
<1> HIDE DEF h
<1>9. ASSUME NEW i \in 1 .. n + 1 PROVE Fits(h[i], more[i], h[i + 1])
  <2>1. CASE i = n + 1
    <3>1. h[i] = to /\ more[i] = w /\ h[i + 1] = next
      BY <1>2, <1>4, <1>8, <2>1
    <3> QED BY <1>6, <3>1
  <2>2. CASE i # n + 1
    <3>1. i \in 1 .. n /\ i + 1 \in 1 .. n + 1
      BY <1>2, <2>2
    <3>2. h[i] = g[i] /\ h[i + 1] = g[i + 1] /\ more[i] = words[i]
      BY <1>2, <1>8, <3>1
    <3> QED BY <1>5, <3>1, <3>2
  <2> QED BY <2>1, <2>2
<1>10. Fills(width, f, more, h)
  BY <1>2, <1>9 DEF Fills, Fits
<1>11. 1 \in 1 .. n + 1
  BY <1>2
<1>12. h[1] = from /\ h[Len(more) + 1] = next /\ h \in [1 .. Len(more) + 1 -> Spots]
  BY <1>2, <1>4, <1>7, <1>8, <1>11
<1>13. Leads(width, f, more, from, next)
  BY <1>10, <1>12 DEF Leads
<1> QED BY <1>13 DEF more, next

LEMMA LeadsFrom ==
    ASSUME NEW S, NEW words \in Seq(S), words # << >>, NEW width, NEW f,
           NEW from \in Spots, NEW to \in Spots, Leads(width, f, words, from, to)
    PROVE  /\ IsThere(f, from) /\ Head(words) = WordAt(width, f, from)
           /\ Leads(width, f, Tail(words), NextSpot(width, f, from), to)
<1>1. PICK g \in [1 .. Len(words) + 1 -> Spots] :
          g[1] = from /\ g[Len(words) + 1] = to /\ Fills(width, f, words, g)
  BY DEF Leads
<1> DEFINE n == Len(words)
           rest == Tail(words)
           h == [i \in 1 .. n |-> g[i + 1]]
           Fits(at, word, then) ==
               IsThere(f, at) /\ word = WordAt(width, f, at) /\ then = NextSpot(width, f, at)
<1>2. /\ n \in Nat \ {0} /\ Len(rest) = n - 1 /\ Head(words) = words[1]
      /\ \A i \in 1 .. n - 1 : rest[i] = words[i + 1]
  BY EmptySeq
<1>3. g \in [1 .. n + 1 -> Spots] /\ g[1] = from /\ g[n + 1] = to
  BY <1>1
<1>4. \A i \in 1 .. n : Fits(g[i], words[i], g[i + 1])
  BY <1>1 DEF Fills
<1> HIDE DEF n, rest, Fits
<1>5. 1 \in 1 .. n /\ n \in 1 .. n
  BY <1>2
<1>6. Fits(from, words[1], g[1 + 1])
  BY <1>3, <1>4, <1>5
<1>7. h \in [1 .. n -> Spots] /\ \A i \in 1 .. n : h[i] = g[i + 1]
  BY <1>2, <1>3
<1> HIDE DEF h
<1>8. ASSUME NEW i \in 1 .. n - 1 PROVE Fits(h[i], rest[i], h[i + 1])
  <2>1. i \in 1 .. n /\ i + 1 \in 1 .. n
    BY <1>2
  <2>2. h[i] = g[i + 1] /\ h[i + 1] = g[(i + 1) + 1] /\ rest[i] = words[i + 1]
    BY <1>2, <1>7, <2>1
  <2> QED BY <1>4, <2>1, <2>2
<1>9. Fills(width, f, rest, h)
  BY <1>2, <1>8 DEF Fills, Fits
<1>10. Len(rest) + 1 = n
  BY <1>2
<1>11. /\ IsThere(f, from) /\ words[1] = WordAt(width, f, from)
       /\ g[1 + 1] = NextSpot(width, f, from)
  BY <1>6 DEF Fits
<1>12. h[1] = NextSpot(width, f, from) /\ h[Len(rest) + 1] = to
       /\ h \in [1 .. Len(rest) + 1 -> Spots]
  BY <1>3, <1>5, <1>7, <1>10, <1>11
<1>13. Leads(width, f, rest, NextSpot(width, f, from), to)
  BY <1>9, <1>12 DEF Leads
<1> QED BY <1>2, <1>11, <1>13 DEF rest

LEMMA LeadsThrough ==
    ASSUME NEW S, NEW s \in Seq(S), NEW t \in Seq(S), NEW width, NEW f,
           NEW from \in Spots, NEW mid \in Spots, NEW to \in Spots,
           Leads(width, f, s, from, mid), Leads(width, f, t, mid, to)
    PROVE  Leads(width, f, s \o t, from, to)
<1>1. PICK g \in [1 .. Len(s) + 1 -> Spots] :
          g[1] = from /\ g[Len(s) + 1] = mid /\ Fills(width, f, s, g)
  BY DEF Leads
<1>2. PICK h \in [1 .. Len(t) + 1 -> Spots] :
          h[1] = mid /\ h[Len(t) + 1] = to /\ Fills(width, f, t, h)
  BY DEF Leads
<1> DEFINE m == Len(s)
           n == Len(t)
           both == s \o t
           b == [i \in 1 .. m + n + 1 |-> IF i <= m THEN g[i] ELSE h[i - m]]
           Fits(at, word, then) ==
               IsThere(f, at) /\ word = WordAt(width, f, at) /\ then = NextSpot(width, f, at)
<1>3. /\ m \in Nat /\ n \in Nat /\ Len(both) = m + n
      /\ \A i \in 1 .. m : both[i] = s[i]
      /\ \A i \in 1 .. n : both[i + m] = t[i]
  <2>1. /\ Len(s) \in Nat /\ Len(t) \in Nat /\ Len(s \o t) = Len(s) + Len(t)
        /\ \A i \in 1 .. Len(s) + Len(t) :
              (s \o t)[i] = IF i <= Len(s) THEN s[i] ELSE t[i - Len(s)]
    BY ConcatProperties
  <2> HIDE DEF both
  <2>2. /\ m \in Nat /\ n \in Nat /\ Len(both) = m + n
        /\ \A i \in 1 .. m + n : both[i] = IF i <= m THEN s[i] ELSE t[i - m]
    BY <2>1 DEF both
  <2> HIDE DEF m, n
  <2>3. \A i \in 1 .. n : i + m \in 1 .. m + n /\ ~(i + m <= m) /\ (i + m) - m = i
    BY <2>2
  <2> QED BY <2>2, <2>3
<1>4. /\ g \in [1 .. m + 1 -> Spots] /\ g[1] = from /\ g[m + 1] = mid
      /\ h \in [1 .. n + 1 -> Spots] /\ h[1] = mid /\ h[n + 1] = to
  BY <1>1, <1>2
<1>5. \A i \in 1 .. m : Fits(g[i], s[i], g[i + 1])
  BY <1>1 DEF Fills
<1>6. \A i \in 1 .. n : Fits(h[i], t[i], h[i + 1])
  BY <1>2 DEF Fills
<1> HIDE DEF m, n, both, Fits
<1>7. b \in [1 .. m + n + 1 -> Spots]
  <2>1. ASSUME NEW i \in 1 .. m + n + 1
        PROVE  (IF i <= m THEN g[i] ELSE h[i - m]) \in Spots
    <3>1. i <= m => i \in 1 .. m + 1
      BY <1>3
    <3>2. ~(i <= m) => i - m \in 1 .. n + 1
      BY <1>3
    <3> QED BY <1>4, <3>1, <3>2
  <2> QED BY <2>1
<1>8. /\ \A i \in 1 .. m : b[i] = g[i]
      /\ \A i \in 1 .. n + 1 : b[i + m] = h[i]
  <2>1. \A i \in 1 .. m : i \in 1 .. m + n + 1 /\ i <= m
    BY <1>3
  <2>2. \A i \in 1 .. n + 1 : i + m \in 1 .. m + n + 1 /\ ~(i + m <= m) /\ (i + m) - m = i
    BY <1>3
  <2> QED BY <2>1, <2>2
<1> HIDE DEF b
<1>9. b[m + 1] = mid /\ b[m + n + 1] = to /\ b[1] = from
  <2>1. 1 \in 1 .. n + 1 /\ n + 1 \in 1 .. n + 1 /\ 1 + m = m + 1 /\ (n + 1) + m = m + n + 1
    BY <1>3
  <2>2. b[m + 1] = mid /\ b[m + n + 1] = to
    BY <1>4, <1>8, <2>1
  <2>3. CASE m = 0
    BY <1>4, <2>2, <2>3
  <2>4. CASE m # 0
    <3>1. 1 \in 1 .. m
      BY <1>3, <2>4
    <3> QED BY <1>4, <1>8, <2>2, <3>1
  <2> QED BY <2>2, <2>3, <2>4
<1>10. ASSUME NEW i \in 1 .. m + n PROVE Fits(b[i], both[i], b[i + 1])
  <2>1. CASE i <= m
    <3>1. i \in 1 .. m /\ (i + 1 \in 1 .. m \/ i + 1 = m + 1)
      BY <1>3, <2>1
    <3>2. b[i] = g[i] /\ both[i] = s[i] /\ b[i + 1] = g[i + 1]
      BY <1>3, <1>4, <1>8, <1>9, <3>1
    <3> QED BY <1>5, <3>1, <3>2
  <2>2. CASE ~(i <= m)
    <3> DEFINE j == i - m
    <3>1. j \in 1 .. n /\ j \in 1 .. n + 1 /\ j + 1 \in 1 .. n + 1 /\ i = j + m
          /\ i + 1 = (j + 1) + m
      BY <1>3, <2>2
    <3> HIDE DEF j
    <3>2. b[i] = h[j] /\ both[i] = t[j] /\ b[i + 1] = h[j + 1]
      BY <1>3, <1>8, <3>1
    <3> QED BY <1>6, <3>1, <3>2
  <2> QED BY <2>1, <2>2
<1>11. Fills(width, f, both, b)
  BY <1>3, <1>10 DEF Fills, Fits
<1>12. b \in [1 .. Len(both) + 1 -> Spots] /\ b[1] = from /\ b[Len(both) + 1] = to
  BY <1>3, <1>7, <1>9
<1>13. Leads(width, f, both, from, to)
  BY <1>11, <1>12 DEF Leads
<1> QED BY <1>13 DEF both

(* What the octets of a package are.                                       *)
LEMMA OctetsAre ==
    ASSUME job \in Seq(Nat \ {0}), NEW p \in 1 .. Len(job), NEW f \in Nat
    PROVE  /\ job[p] \in Nat \ {0}
           /\ \A x \in Nat : OctetAt(f, p, x) = NoByte <=> x >= job[p] + f
           /\ \A x \in Nat : OctetAt(f, p, x + f) = OctetAt(0, p, x)
           /\ \A x \in Nat : x < f => OctetAt(f, p, x) = Zero
           /\ \A x \in Nat : x < job[p] => OctetAt(0, p, x) = <<p, x>>
<1>1. job[p] \in Nat \ {0} /\ p \in Nat \ {0}
  OBVIOUS
<1>2. Zero # NoByte /\ \A y : <<p, y>> # NoByte
  BY <1>1 DEF Zero, NoByte
<1>3. ASSUME NEW x \in Nat PROVE OctetAt(f, p, x) = NoByte <=> x >= job[p] + f
  <2>1. CASE x < f
    <3>1. OctetAt(f, p, x) = Zero /\ ~(x >= job[p] + f)
      BY <1>1, <2>1 DEF OctetAt
    <3> QED BY <1>2, <3>1
  <2>2. CASE ~(x < f) /\ x < job[p] + f
    <3>1. OctetAt(f, p, x) = <<p, x - f>> /\ ~(x >= job[p] + f)
      BY <1>1, <2>2 DEF OctetAt
    <3> QED BY <1>2, <3>1
  <2>3. CASE ~(x < f) /\ ~(x < job[p] + f)
    <3>1. OctetAt(f, p, x) = NoByte /\ x >= job[p] + f
      BY <1>1, <2>3 DEF OctetAt
    <3> QED BY <3>1
  <2> QED BY <2>1, <2>2, <2>3
<1>4. ASSUME NEW x \in Nat PROVE OctetAt(f, p, x + f) = OctetAt(0, p, x)
  <2>1. ~(x + f < f) /\ ~(x < 0) /\ (x + f) - f = x /\ x - 0 = x
        /\ (x + f < job[p] + f <=> x < job[p] + 0)
    BY <1>1
  <2> QED BY <2>1 DEF OctetAt
<1>5. \A x \in Nat : x < f => OctetAt(f, p, x) = Zero
  BY DEF OctetAt
<1>6. ASSUME NEW x \in Nat, x < job[p] PROVE OctetAt(0, p, x) = <<p, x>>
  <2>1. ~(x < 0) /\ x < job[p] + 0 /\ x - 0 = x
    BY <1>1, <1>6
  <2> QED BY <2>1 DEF OctetAt
<1> QED BY <1>1, <1>3, <1>4, <1>5, <1>6

LEMMA WordsAre ==
    ASSUME NEW width, NEW f, NEW at
    PROVE  /\ WordAt(width, f, at).data = DataAt(width, f, at)
           /\ WordAt(width, f, at).last = IsLastAt(width, f, at)
           /\ \A i \in 0 .. width - 1 :
                 DataAt(width, f, at)[i] = OctetAt(f, at.package, at.place + i)
    BY DEF WordAt, Word, DataAt

(* How many words a package takes.                                         *)
LEMMA WordsNeeded ==
    ASSUME NEW length \in Nat \ {0}
    PROVE  LET n == (length + Octets - 1) \div Octets IN
           n \in Nat \ {0} /\ length <= n * Octets /\ n * Octets <= length + Octets - 1
<1> DEFINE O == Octets
           n == (length + O - 1) \div O
           a == length + O - 1
           q == a \div O
           r == a % O
<1>1. O \in Nat \ {0, 1}
  BY OctetSizes
<1>2. a \in Nat /\ a = length + O - 1
  BY <1>1
<1> HIDE DEF a
<1>3. q \in Nat /\ r \in 0 .. O - 1 /\ a = O * q + r
  BY <1>1, <1>2
<1>4. n = q
  BY DEF a
<1> HIDE DEF q, r, n, O
<1>5. q * O = O * q /\ O * q \in Nat
  BY <1>1, <1>3
<1>6. length <= q * O /\ q * O <= length + O - 1
  BY <1>1, <1>2, <1>3, <1>5
<1>7. q # 0
  <2>1. q = 0 => q * O = 0
    BY <1>1
  <2> QED BY <1>6, <2>1
<1> QED BY <1>3, <1>4, <1>6, <1>7 DEF n, O

LEMMA PackageLeads ==
    ASSUME job \in Seq(Nat \ {0}), NEW p \in 1 .. Len(job)
    PROVE  Leads(Octets, 0, PackageWords(p, job[p]), Spot(p, 0), Spot(p + 1, 0))
<1> DEFINE O == Octets
           L == job[p]
           n == (L + O - 1) \div O
           Place(k) == L - (k - 1) * O
           Base(k) == (k - 1) * O
           data(k) == [i \in 0 .. O - 1 |->
                          IF i \in LenToKeep(Place(k)) THEN <<p, (k - 1) * O + i>> ELSE NoByte]
           words == PackageWords(p, L)
           end == Spot(p + 1, 0)
           g == [k \in 1 .. n + 1 |-> IF k <= n THEN Spot(p, Base(k)) ELSE end]
<1>1. /\ O \in Nat \ {0, 1} /\ KeepBits \in Nat /\ KeepBits >= O
      /\ L \in Nat \ {0} /\ p \in Nat \ {0}
  BY OctetSizes, ShifterAssumption
<1>2. n \in Nat \ {0} /\ L <= n * O /\ n * O <= L + O - 1
  BY <1>1, WordsNeeded
<1>3. words = [k \in 1 .. n |-> [data |-> data(k), last |-> k = n]]
  BY DEF PackageWords
<1> HIDE DEF n, L
<1>4. ASSUME NEW k \in 1 .. n
      PROVE  /\ Base(k) \in Nat /\ Base(k) < L /\ Place(k) = L - Base(k)
             /\ (k = n <=> Base(k) + O >= L)
             /\ k < n => Base(k + 1) = Base(k) + O
             /\ k = 1 => Base(k) = 0
  <2>1. /\ k * O \in Nat /\ (k - 1) * O = k * O - O /\ n * O \in Nat /\ 1 * O = O
        /\ ((k + 1) - 1) * O = k * O
    BY <1>1, <1>2
  <2>2. k * O <= n * O
    BY <1>1, <1>2
  <2>3. k < n => (k + 1) * O <= n * O /\ (k + 1) * O = k * O + O
    BY <1>1, <1>2
  <2>4. (k - 1) * O \in Nat
    BY <1>1
  <2>5. (k - 1) * O < L
    BY <1>1, <1>2, <2>1, <2>2
  <2>6. k < n => k * O < L
    BY <1>1, <1>2, <2>1, <2>3
  <2>7. k = n => (k - 1) * O + O >= L
    BY <1>1, <1>2, <2>1
  <2>8. k # n => k < n
    BY <1>2
  <2>9. k = n <=> (k - 1) * O + O >= L
    BY <1>1, <2>1, <2>6, <2>7, <2>8
  <2>10. k = 1 => (k - 1) * O = 0
    BY <1>1
  <2>11. k < n => ((k + 1) - 1) * O = (k - 1) * O + O
    BY <1>1, <2>1
  <2>12. Place(k) = L - Base(k)
    OBVIOUS
  <2> HIDE DEF Place
  <2> QED BY ONLY <2>4, <2>5, <2>9, <2>10, <2>11, <2>12
<1>5. ASSUME NEW k \in 1 .. n
      PROVE  /\ IsThere(0, Spot(p, Base(k)))
             /\ words[k] = WordAt(O, 0, Spot(p, Base(k)))
             /\ NextSpot(O, 0, Spot(p, Base(k))) =
                   IF k = n THEN end ELSE Spot(p, Base(k) + O)
  <2> DEFINE base == Base(k)
             at == Spot(p, base)
             r == L - base
             m == IF r \in 1 .. KeepBits - 1 THEN r ELSE KeepBits
  <2>1. base \in Nat /\ base < L /\ Place(k) = r /\ (k = n <=> base + O >= L)
    BY <1>4
  <2>2. data(k) = [i \in 0 .. O - 1 |->
                      IF i \in LenToKeep(r) THEN <<p, base + i>> ELSE NoByte]
    BY <2>1
  <2>3. LenToKeep(r) = 0 .. m - 1
    BY DEF LenToKeep
  <2> HIDE DEF base, data, Base, Place
  <2>4. at.package = p /\ at.place = base /\ at \in Spots
    BY <1>1, <2>1, SpotsAre
  <2> HIDE DEF at
  <2>5. IsThere(0, at)
    BY <1>1, <2>1, <2>4 DEF IsThere, L
  <2>6. \A i \in 0 .. O - 1 : i \in 0 .. m - 1 <=> base + i < L
    BY <1>1, <2>1
  <2> HIDE DEF m, r
  <2>7. ASSUME NEW i \in 0 .. O - 1
        PROVE  (IF i \in LenToKeep(r) THEN <<p, base + i>> ELSE NoByte)
                 = OctetAt(0, at.package, at.place + i)
    <3>1. ~(base + i < 0) /\ (base + i) - 0 = base + i /\ L + 0 = L
      BY <1>1, <2>1
    <3> QED BY <2>3, <2>4, <2>6, <3>1 DEF OctetAt, L
  <2>8. data(k) = DataAt(O, 0, at)
    BY <2>2, <2>7 DEF DataAt
  <2>9. IsLastAt(O, 0, at) = (k = n)
    <3>1. L + 0 = L
      BY <1>1
    <3> QED BY <2>1, <2>4, <3>1 DEF IsLastAt, L
  <2>10. words[k] = WordAt(O, 0, at)
    BY <1>3, <2>8, <2>9 DEF WordAt, Word
  <2>11. NextSpot(O, 0, at) = IF k = n THEN end ELSE Spot(p, base + O)
    BY <2>4, <2>9 DEF NextSpot
  <2> QED BY <2>5, <2>10, <2>11 DEF at, base
<1>6. Len(words) = n
  BY <1>2, <1>3
<1> HIDE DEF words, data, Place, end
<1>7. end \in Spots
  <2>1. p + 1 \in Nat \ {0} /\ 0 \in Nat
    BY <1>1
  <2> QED BY <2>1, SpotsAre DEF end
<1>8. g \in [1 .. n + 1 -> Spots]
  <2>1. ASSUME NEW k \in 1 .. n + 1 PROVE (IF k <= n THEN Spot(p, Base(k)) ELSE end) \in Spots
    <3>1. CASE k <= n
      <4>1. k \in 1 .. n
        BY <1>2, <3>1
      <4>2. Base(k) \in Nat
        BY <1>4, <4>1
      <4> HIDE DEF Base
      <4> QED BY <1>1, <3>1, <4>2, SpotsAre
    <3>2. CASE ~(k <= n)
      BY <1>7, <3>2
    <3> QED BY <3>1, <3>2
  <2> HIDE DEF Base
  <2> QED BY <2>1
<1>9. \A k \in 1 .. n : g[k] = Spot(p, Base(k))
  <2>1. \A k \in 1 .. n : k \in 1 .. n + 1 /\ k <= n
    BY <1>2
  <2> HIDE DEF Base
  <2> QED BY <2>1
<1>10. g[n + 1] = end
  <2>1. n + 1 \in 1 .. n + 1 /\ ~(n + 1 <= n)
    BY <1>2
  <2> HIDE DEF Base
  <2> QED BY <2>1
<1> HIDE DEF g
<1>11. ASSUME NEW k \in 1 .. n
       PROVE  /\ IsThere(0, g[k]) /\ words[k] = WordAt(O, 0, g[k])
              /\ g[k + 1] = NextSpot(O, 0, g[k])
  <2>1. g[k] = Spot(p, Base(k))
    BY <1>9
  <2>2. g[k + 1] = IF k = n THEN end ELSE Spot(p, Base(k) + O)
    <3>1. CASE k = n
      BY <1>10, <3>1
    <3>2. CASE k # n
      <4>1. k + 1 \in 1 .. n /\ k < n
        BY <1>2, <3>2
      <4>2. g[k + 1] = Spot(p, Base(k + 1)) /\ Base(k + 1) = Base(k) + O
        BY <1>4, <1>9, <4>1
      <4> HIDE DEF Base
      <4> QED BY <3>2, <4>2
    <3> QED BY <3>1, <3>2
  <2>3. /\ IsThere(0, Spot(p, Base(k))) /\ words[k] = WordAt(O, 0, Spot(p, Base(k)))
        /\ NextSpot(O, 0, Spot(p, Base(k))) = IF k = n THEN end ELSE Spot(p, Base(k) + O)
    BY <1>5
  <2> HIDE DEF Base
  <2> QED BY <2>1, <2>2, <2>3
<1>12. Fills(O, 0, words, g)
  BY <1>6, <1>11 DEF Fills
<1>13. g[1] = Spot(p, 0)
  <2>1. 1 \in 1 .. n
    BY <1>2
  <2>2. g[1] = Spot(p, Base(1)) /\ Base(1) = 0
    BY <1>4, <1>9, <2>1
  <2> HIDE DEF Base
  <2> QED BY <2>2
<1>14. Leads(O, 0, words, Spot(p, 0), end)
  BY <1>6, <1>8, <1>10, <1>12, <1>13 DEF Leads
<1> QED BY <1>14 DEF words, end, L

LEMMA AllWordsLead ==
    ASSUME job \in Seq(Nat \ {0})
    PROVE  Leads(Octets, 0, AllWords, Spot(1, 0), EndSpot)
<1> DEFINE n == Len(job)
           S == GoodWord(Octets)
           seqs == [p \in 1 .. n |-> PackageWords(p, job[p])]
           To(words, k) == Leads(Octets, 0, words, Spot(1, 0), Spot(k + 1, 0))
<1>1. n \in Nat /\ \A p \in 1 .. n : job[p] \in Nat \ {0}
  OBVIOUS
<1>2. /\ seqs \in [1 .. n -> Seq(S)] /\ Len(seqs) = n
      /\ \A p \in 1 .. n : seqs[p] = PackageWords(p, job[p])
  <2>1. ASSUME NEW p \in 1 .. n PROVE PackageWords(p, job[p]) \in Seq(S)
    <3>1. p \in Nat \ {0} /\ job[p] \in Nat \ {0}
      BY <1>1
    <3> QED BY <3>1, PackageIsGood
  <2> HIDE DEF S, n
  <2>2. seqs \in [1 .. n -> Seq(S)]
    BY <2>1
  <2>3. Len(seqs) = n
    BY <1>1
  <2> QED BY <2>2, <2>3
<1>3. AllWords = FlattenSeq(seqs)
  BY DEF AllWords
<1>4. ASSUME NEW p \in 1 .. n
      PROVE  Leads(Octets, 0, seqs[p], Spot(p, 0), Spot(p + 1, 0))
  BY <1>2, PackageLeads
<1>5. \A k \in Nat : Spot(k + 1, 0) \in Spots
  <2>1. ASSUME NEW k \in Nat PROVE k + 1 \in Nat \ {0} /\ 0 \in Nat
    OBVIOUS
  <2> QED BY <2>1, SpotsAre
<1> HIDE DEF seqs, S, n
<1>6. CASE n = 0
  <2>1. seqs = << >>
    BY <1>2, <1>6
  <2>2. FlattenSeq(<< >>) = << >>
    BY DEF FlattenSeq
  <2>3. Spot(1, 0) \in Spots /\ EndSpot = Spot(1, 0)
    <3>1. Spot(0 + 1, 0) \in Spots /\ 0 + 1 = 1
      BY <1>5
    <3> QED BY <1>6, <3>1 DEF EndSpot, n
  <2> QED BY <1>3, <2>1, <2>2, <2>3, LeadsNowhere
<1>7. CASE n # 0
  <2> DEFINE Built == {k \in Nat : k + 1 <= n =>
                          \E g \in [1 .. k + 1 -> Seq(S)] :
                              IsFlat(g, seqs, k + 1) /\ To(g[k + 1], k + 1)}
  <2>1. 0 \in Built
    <3> DEFINE g == [k \in 1 .. 1 |-> seqs[1]]
    <3>1. 1 \in 1 .. n
      BY <1>1, <1>7
    <3>2. g \in [1 .. 1 -> Seq(S)] /\ g[1] = seqs[1]
      BY <1>2, <3>1
    <3>3. IsFlat(g, seqs, 1)
      BY DEF IsFlat
    <3>4. To(g[1], 1)
      BY <1>4, <3>1, <3>2
    <3> HIDE DEF g, To
    <3>5. \E h \in [1 .. 0 + 1 -> Seq(S)] : IsFlat(h, seqs, 0 + 1) /\ To(h[0 + 1], 0 + 1)
      <4>1. 0 + 1 = 1
        OBVIOUS
      <4> QED BY <3>2, <3>3, <3>4, <4>1
    <3> QED BY <3>5
  <2> HIDE DEF To
  <2>2. ASSUME NEW k \in Nat, k \in Built PROVE k + 1 \in Built
    <3> DEFINE j == k + 1
    <3> SUFFICES ASSUME j + 1 <= n
                 PROVE  \E h \in [1 .. j + 1 -> Seq(S)] :
                            IsFlat(h, seqs, j + 1) /\ To(h[j + 1], j + 1)
      OBVIOUS
    <3>1. j \in Nat \ {0} /\ j <= n /\ j + 1 \in 1 .. n
      BY <1>1
    <3>2. PICK g \in [1 .. j -> Seq(S)] : IsFlat(g, seqs, j) /\ To(g[j], j)
      BY <2>2, <3>1
    <3> HIDE DEF j
    <3> DEFINE both == g[j] \o seqs[j + 1]
               h == [m \in 1 .. j + 1 |-> IF m = j + 1 THEN both ELSE g[m]]
    <3>3. g[j] \in Seq(S) /\ seqs[j + 1] \in Seq(S)
      <4>1. j \in 1 .. j
        BY <3>1
      <4>2. g \in [1 .. j -> Seq(S)]
        OBVIOUS
      <4> QED BY ONLY <1>2, <3>1, <4>1, <4>2
    <3>4. both \in Seq(S)
      BY ONLY <3>3, ConcatProperties
    <3>5. To(both, j + 1)
      <4>1. /\ Leads(Octets, 0, g[j], Spot(1, 0), Spot(j + 1, 0))
            /\ Leads(Octets, 0, seqs[j + 1], Spot(j + 1, 0), Spot((j + 1) + 1, 0))
        BY <1>4, <3>1, <3>2 DEF To
      <4>2. Spot(1, 0) \in Spots /\ Spot(j + 1, 0) \in Spots /\ Spot((j + 1) + 1, 0) \in Spots
        <5>1. 0 \in Nat /\ 0 + 1 = 1 /\ j \in Nat /\ j + 1 \in Nat
          BY <3>1
        <5>2. Spot(0 + 1, 0) \in Spots
          BY ONLY <1>5, <5>1
        <5> QED BY ONLY <1>5, <5>1, <5>2
      <4> QED BY ONLY <3>3, <4>1, <4>2, LeadsThrough DEF To, both
    <3> HIDE DEF both
    <3>6. h[j + 1] = both
      <4>1. j + 1 \in 1 .. j + 1
        BY <3>1
      <4> QED BY ONLY <4>1
    <3>7. h \in [1 .. j + 1 -> Seq(S)]
      BY <3>1, <3>4
    <3>8. ASSUME NEW m \in 1 .. j + 1
          PROVE  h[m] = IF m = 1 THEN seqs[m] ELSE h[m - 1] \o seqs[m]
      <4>1. CASE m = j + 1
        <5>1. m # 1 /\ m - 1 = j /\ j \in 1 .. j + 1 /\ j # j + 1
          BY <3>1, <4>1
        <5>2. h[m - 1] = g[j]
          BY <5>1
        <5> HIDE DEF h
        <5> QED BY <3>6, <4>1, <5>1, <5>2 DEF both
      <4>2. CASE m # j + 1
        <5>1. m \in 1 .. j /\ h[m] = g[m]
          BY <3>1, <4>2
        <5>2. m # 1 => m - 1 \in 1 .. j + 1 /\ h[m - 1] = g[m - 1]
          BY <3>1, <5>1
        <5>3. g[m] = IF m = 1 THEN seqs[m] ELSE g[m - 1] \o seqs[m]
          BY <3>2, <5>1 DEF IsFlat
        <5> HIDE DEF h
        <5> QED BY <5>1, <5>2, <5>3
      <4> QED BY <4>1, <4>2
    <3>9. h = [m \in 1 .. j + 1 |-> h[m]]
      OBVIOUS
    <3> HIDE DEF h
    <3>10. IsFlat(h, seqs, j + 1)
      BY <3>8, <3>9 DEF IsFlat
    <3> QED BY <3>5, <3>6, <3>7, <3>10
  <2> HIDE DEF Built
  <2>3. Nat \subseteq Built
    BY <2>1, <2>2, SetInduction
  <2>4. n - 1 \in Built /\ (n - 1) + 1 = n
    BY <1>1, <1>7, <2>3
  <2> HIDE DEF To
  <2>5. PICK g \in [1 .. n -> Seq(S)] : IsFlat(g, seqs, n) /\ To(g[n], n)
    BY <2>4 DEF Built
  <2>6. FlattenSeq(seqs) = g[n]
    BY <1>1, <1>2, <1>7, <2>5, FlattenIs
  <2> QED BY <1>3, <2>5, <2>6 DEF To, EndSpot, n
<1> QED BY <1>6, <1>7

(* None of this changes but with what was sent.                            *)
LEMMA SpotsStay ==
    ASSUME job' = job
    PROVE  /\ \A f, p, x : OctetAt(f, p, x)' = OctetAt(f, p, x)
           /\ \A f, at : IsThere(f, at)' = IsThere(f, at)
           /\ \A width, f, at : DataAt(width, f, at)' = DataAt(width, f, at)
           /\ \A width, f, at : IsLastAt(width, f, at)' = IsLastAt(width, f, at)
           /\ \A width, f, at : WordAt(width, f, at)' = WordAt(width, f, at)
           /\ \A width, f, at : NextSpot(width, f, at)' = NextSpot(width, f, at)
           /\ \A width, f, words, from, to :
                 Leads(width, f, words, from, to)' = Leads(width, f, words, from, to)
           /\ EndSpot' = EndSpot
<1>1. /\ \A f, p, x : OctetAt(f, p, x)' = OctetAt(f, p, x)
      /\ \A f, at : IsThere(f, at)' = IsThere(f, at)
      /\ \A width, f, at : IsLastAt(width, f, at)' = IsLastAt(width, f, at)
      /\ EndSpot' = EndSpot
  BY DEF OctetAt, IsThere, IsLastAt, EndSpot
<1>2. \A width, f, at : DataAt(width, f, at)' = DataAt(width, f, at)
  BY <1>1 DEF DataAt
<1>3. /\ \A width, f, at : WordAt(width, f, at)' = WordAt(width, f, at)
      /\ \A width, f, at : NextSpot(width, f, at)' = NextSpot(width, f, at)
  BY <1>1, <1>2 DEF WordAt, NextSpot
<1>4. \A width, f, words, from, to :
         Leads(width, f, words, from, to)' = Leads(width, f, words, from, to)
  BY <1>1, <1>3 DEF Leads, Fills
<1> QED BY <1>1, <1>2, <1>3, <1>4

(* Two neighbouring words make one that has f octets more before it,       *)
LEMMA LShiftJoins ==
    ASSUME job \in Seq(Nat \ {0}), NEW f \in 1 .. Octets - 1, NEW at \in Spots,
           at.package \in 1 .. Len(job), NEW prev, NEW cur,
           IF at.place = 0 THEN prev = Zeroes
           ELSE /\ at.place >= Octets
                /\ prev = DataAt(Octets, 0, Spot(at.package, at.place - Octets)),
           \A i \in 0 .. Octets - 1 : cur[i] = OctetAt(0, at.package, at.place + i)
    PROVE  Joined(prev, cur, Octets - f) = DataAt(Octets, f, at)
<1> DEFINE O == Octets
           n == O - f
           p == at.package
           x == at.place
<1>1. O \in Nat \ {0, 1} /\ f \in Nat /\ n \in 1 .. O - 1 /\ n = O - f /\ O - n = f
  BY OctetSizes
<1>2. p \in Nat \ {0} /\ x \in Nat
  BY SpotsAre
<1>3. /\ \A y \in Nat : OctetAt(f, p, y + f) = OctetAt(0, p, y)
      /\ \A y \in Nat : y < f => OctetAt(f, p, y) = Zero
  BY <1>1, OctetsAre
<1>4. ASSUME NEW i \in 0 .. O - 1
      PROVE  (IF i < O - n THEN prev[i + n] ELSE cur[i - (O - n)]) = OctetAt(f, p, x + i)
  <2>1. CASE i < O - n /\ x = 0
    <3>1. i + n \in 0 .. O - 1 /\ x + i \in Nat /\ x + i < f
      BY <1>1, <2>1
    <3>2. prev[i + n] = Zero
      BY <2>1, <3>1 DEF Zeroes
    <3> QED BY <1>3, <2>1, <3>1, <3>2
  <2>2. CASE i < O - n /\ x # 0
    <3> DEFINE y == x + i - f
    <3>1. i + n \in 0 .. O - 1 /\ y \in Nat /\ (x - O) + (i + n) = y /\ y + f = x + i
          /\ x - O \in Nat
      <4>1. x >= O /\ i < O - n
        BY <2>2
      <4>2. i \in 0 .. O - 1 /\ O \in Nat /\ n \in Nat /\ n = O - f
            /\ x \in Nat /\ f \in Nat
        BY <1>1, <1>2
      <4> HIDE DEF x, n, O
      <4> QED BY ONLY <4>1, <4>2 DEF y
    <3>2. Spot(p, x - O).package = p /\ Spot(p, x - O).place = x - O
      BY <1>2, <3>1, SpotsAre
    <3>3. prev[i + n] = OctetAt(0, p, (x - O) + (i + n))
      <4> DEFINE before == Spot(p, x - O)
      <4>1. prev = DataAt(O, 0, before)
        BY <2>2
      <4> HIDE DEF before
      <4>2. \A k \in 0 .. O - 1 :
              DataAt(O, 0, before)[k] = OctetAt(0, before.package, before.place + k)
        BY ONLY WordsAre
      <4>3. before.package = p /\ before.place = x - O
        BY <3>2 DEF before
      <4> HIDE DEF p, x, n, y
      <4> QED BY ONLY <3>1, <4>1, <4>2, <4>3
    <3> HIDE DEF y, p, x, n, O
    <3> QED BY <1>3, <2>2, <3>1, <3>3
  <2>3. CASE ~(i < O - n)
    <3> DEFINE y == x + (i - (O - n))
    <3>1. i - (O - n) \in 0 .. O - 1 /\ y \in Nat /\ y + f = x + i
      <4> HIDE DEF x, n, O
      <4>1. ~(i < f) /\ i \in 0 .. O - 1
        BY <1>1, <2>3
      <4>2. i - f \in 0 .. O - 1 /\ x + (i - f) \in Nat /\ (x + (i - f)) + f = x + i
        BY ONLY <1>1, <1>2, <4>1
      <4> QED BY <1>1, <4>2
    <3>2. cur[i - (O - n)] = OctetAt(0, p, y)
      BY <3>1
    <3> HIDE DEF y, p, x, n, O
    <3> QED BY <1>3, <2>3, <3>1, <3>2
  <2> QED BY <2>1, <2>2, <2>3
<1> QED BY <1>4 DEF Joined, DataAt

(* or one that has them no more.                                           *)
LEMMA RShiftJoins ==
    ASSUME job \in Seq(Nat \ {0}), NEW f \in 0 .. Octets - 1, NEW at \in Spots,
           at.package \in 1 .. Len(job), NEW cur,
           \A i \in 0 .. Octets - 1 : cur[i] = OctetAt(f, at.package, at.place + Octets + i)
    PROVE  Joined(DataAt(Octets, f, at), cur, f) = DataAt(Octets, 0, at)
<1> DEFINE O == Octets
           p == at.package
           x == at.place
           prev == DataAt(O, f, at)
<1>1. O \in Nat \ {0, 1} /\ f \in Nat /\ f < O
  BY OctetSizes
<1>2. p \in Nat \ {0} /\ x \in Nat
  BY SpotsAre
<1>3. \A y \in Nat : OctetAt(f, p, y + f) = OctetAt(0, p, y)
  BY <1>1, OctetsAre
<1>4. \A i \in 0 .. O - 1 : prev[i] = OctetAt(f, p, x + i)
  BY WordsAre
<1> HIDE DEF prev
<1>5. ASSUME NEW i \in 0 .. O - 1
      PROVE  (IF i < O - f THEN prev[i + f] ELSE cur[i - (O - f)]) = OctetAt(0, p, x + i)
  <2>1. x + i \in Nat /\ (x + i) + f = x + (i + f)
    <3>1. i \in Nat
      BY <1>1
    <3> HIDE DEF x
    <3> QED BY ONLY <1>1, <1>2, <3>1
  <2>2. CASE i < O - f
    <3>1. i + f \in 0 .. O - 1
      BY <1>1, <2>2
    <3>2. prev[i + f] = OctetAt(f, p, x + (i + f))
      BY <1>4, <3>1
    <3> HIDE DEF p, x, O
    <3> QED BY <1>3, <2>1, <2>2, <3>2
  <2>3. CASE ~(i < O - f)
    <3>1. i - (O - f) \in 0 .. O - 1 /\ (x + O) + (i - (O - f)) = x + (i + f)
      BY <1>1, <1>2, <2>3
    <3>2. cur[i - (O - f)] = OctetAt(f, p, (x + O) + (i - (O - f)))
      BY <3>1
    <3> HIDE DEF p, x, O
    <3> QED BY <1>3, <2>1, <2>3, <3>1, <3>2
  <2> QED BY <2>2, <2>3
<1> QED BY <1>5 DEF Joined, DataAt, prev

(* Where a package ends in a word.                                         *)
LEMMA NothingIsLeft ==
    ASSUME job \in Seq(Nat \ {0}), NEW f \in Nat, NEW at \in Spots,
           at.package \in 1 .. Len(job), NEW m \in 0 .. Octets - 1
    PROVE  NothingFrom(DataAt(Octets, f, at), m) <=> at.place + m >= job[at.package] + f
<1> DEFINE p == at.package
           x == at.place
           L == job[p]
<1>1. /\ Octets \in Nat \ {0, 1} /\ x \in Nat /\ L \in Nat
      /\ \A y \in Nat : OctetAt(f, p, y) = NoByte <=> y >= L + f
  BY OctetSizes, OctetsAre, SpotsAre
<1>2. \A i \in 0 .. Octets - 1 : DataAt(Octets, f, at)[i] = OctetAt(f, p, x + i)
  BY WordsAre
<1> HIDE DEF p, x, L
<1>3. \A i \in 0 .. Octets - 1 : DataAt(Octets, f, at)[i] = NoByte <=> x + i >= L + f
  <2>1. \A i \in 0 .. Octets - 1 : x + i \in Nat
    BY <1>1
  <2> QED BY <1>1, <1>2, <2>1
<1>4. m \in m .. Octets - 1 /\ \A i \in m .. Octets - 1 : i \in 0 .. Octets - 1 /\ i >= m
  BY <1>1
<1>5. NothingFrom(DataAt(Octets, f, at), m) => x + m >= L + f
  BY <1>3, <1>4 DEF NothingFrom
<1>6. x + m >= L + f => NothingFrom(DataAt(Octets, f, at), m)
  <2>1. x + m >= L + f => \A i \in m .. Octets - 1 : x + i >= L + f
    BY <1>1
  <2> QED BY <1>3, <1>4, <2>1 DEF NothingFrom
<1> QED BY <1>5, <1>6 DEF p, x, L

LEMMA FunctionsStay ==
    ASSUME offset' = offset, job' = job
    PROVE  /\ UNCHANGED lsVars => \A a, b : LShiftIsAt(a, b)' <=> LShiftIsAt(a, b)
           /\ UNCHANGED hwVars => \A c, d : HalfWidthIsAt(c, d)' <=> HalfWidthIsAt(c, d)
           /\ UNCHANGED dwVars => \A e, g : DoubleWidthIsAt(e, g)' <=> DoubleWidthIsAt(e, g)
           /\ UNCHANGED rsVars => \A h, o : RShiftIsAt(h, o)' <=> RShiftIsAt(h, o)
           /\ \A o : IsUpToEnd(o)' <=> IsUpToEnd(o)
           /\ Transparent' <=> Transparent
<1>1. UNCHANGED lsVars => \A a, b : LShiftIsAt(a, b)' <=> LShiftIsAt(a, b)
  BY SpotsStay DEF LShiftIsAt, lsVars
<1>2. UNCHANGED hwVars => \A c, d : HalfWidthIsAt(c, d)' <=> HalfWidthIsAt(c, d)
  BY SpotsStay DEF HalfWidthIsAt, hwVars
<1>3. UNCHANGED dwVars => \A e, g : DoubleWidthIsAt(e, g)' <=> DoubleWidthIsAt(e, g)
  BY SpotsStay DEF DoubleWidthIsAt, dwVars
<1>4. UNCHANGED rsVars => \A h, o : RShiftIsAt(h, o)' <=> RShiftIsAt(h, o)
  BY SpotsStay DEF RShiftIsAt, rsVars
<1>5. \A o : IsUpToEnd(o)' <=> IsUpToEnd(o)
  BY SpotsStay DEF IsUpToEnd
<1>6. Transparent' <=> Transparent
  BY DEF Transparent
<1> QED BY <1>1, <1>2, <1>3, <1>4, <1>5, <1>6

(* A function that does nothing stays where it is, if the stream it reads  *)
(* is as before.                                                           *)
LEMMA SpotsAsBefore ==
    ASSUME offset' = offset, job' = job
    PROVE  /\ UNCHANGED <<lsVars, input>> =>
                 \A a, b : LShiftSpots(a, b)' <=> LShiftSpots(a, b)
           /\ UNCHANGED <<hwVars, shifted>> =>
                 \A b, c, d : HalfWidthSpots(b, c, d)' <=> HalfWidthSpots(b, c, d)
           /\ UNCHANGED <<dwVars, halves>> =>
                 \A d, e, g : DoubleWidthSpots(d, e, g)' <=> DoubleWidthSpots(d, e, g)
           /\ UNCHANGED <<rsVars, doubled, output>> =>
                 \A g, h, o : RShiftSpots(g, h, o)' <=> RShiftSpots(g, h, o)
<1>1. UNCHANGED <<lsVars, input>> => \A a, b : LShiftSpots(a, b)' <=> LShiftSpots(a, b)
  BY SpotsStay, FunctionsStay DEF LShiftSpots
<1>2. UNCHANGED <<hwVars, shifted>> =>
         \A b, c, d : HalfWidthSpots(b, c, d)' <=> HalfWidthSpots(b, c, d)
  BY SpotsStay, FunctionsStay DEF HalfWidthSpots
<1>3. UNCHANGED <<dwVars, halves>> =>
         \A d, e, g : DoubleWidthSpots(d, e, g)' <=> DoubleWidthSpots(d, e, g)
  BY SpotsStay, FunctionsStay DEF DoubleWidthSpots
<1>4. UNCHANGED <<rsVars, doubled, output>> =>
         \A g, h, o : RShiftSpots(g, h, o)' <=> RShiftSpots(g, h, o)
  BY SpotsStay, FunctionsStay DEF RShiftSpots
<1> QED BY <1>1, <1>2, <1>3, <1>4

LEMMA LShiftGoesOn == ShiftersInv /\ ChainInv /\ LShift => ChainInv'
<1> SUFFICES ASSUME ShiftersInv, ChainInv, LShift PROVE ChainInv'
  OBVIOUS
<1>1. /\ offset' = offset /\ job' = job
      /\ UNCHANGED <<halves, doubled, output, hwVars, dwVars, rsVars>>
  BY DEF LShift
<1>2. /\ offset \in 0 .. Octets - 1 /\ job \in Seq(Nat \ {0}) /\ Octets \in Nat \ {0, 1}
      /\ input \in Seq(GoodWord(Octets)) /\ shifted \in Seq(GoodWord(Octets))
  BY OctetSizes DEF ChainInv, ShiftersInv, StreamsAreGood
<1>3. PICK b, d, g \in Spots : ChainIsAt(b, d, g)
  BY DEF ChainInv
<1>4. PICK a \in Spots : LShiftSpots(a, b)
  BY <1>3 DEF ChainIsAt
<1>5. PICK c \in Spots : HalfWidthSpots(b, c, d)
  BY <1>3 DEF ChainIsAt
(* It is enough to know that the next word is sent.                        *)
<1>6. ASSUME NEW w, shifted' = Append(shifted, w), IsThere(offset, b),
             w = WordAt(Octets, offset, b), NEW a2 \in Spots, NEW b2 \in Spots,
             b2 = NextSpot(Octets, offset, b), LShiftSpots(a2, b2)'
      PROVE  ChainInv'
  <2>1. HalfWidthSpots(b2, c, d)'
    <3>1. Leads(Octets, offset, shifted, c, b) /\ HalfWidthIsAt(c, d)
      BY <1>5 DEF HalfWidthSpots
    <3>2. Leads(Octets, offset, Append(shifted, w), c, b2)
      BY <1>2, <1>5, <1>6, <3>1, LeadsOn
    <3>3. Leads(Octets, offset, shifted, c, b2)'
      BY <1>1, <1>6, <3>2, SpotsStay
    <3>4. HalfWidthIsAt(c, d)'
      BY <1>1, <3>1, FunctionsStay
    <3> QED BY <3>3, <3>4 DEF HalfWidthSpots
  <2>2. ChainIsAt(b2, d, g)'
    <3>1. \E e \in Spots : DoubleWidthSpots(d, e, g)'
      BY <1>1, <1>3, SpotsAsBefore DEF ChainIsAt
    <3>2. \E h, o \in Spots : RShiftSpots(g, h, o)'
      BY <1>1, <1>3, SpotsAsBefore DEF ChainIsAt
    <3> QED BY <1>6, <2>1, <3>1, <3>2 DEF ChainIsAt
  <2> QED BY <1>1, <1>2, <1>3, <2>2 DEF ChainInv
<1> DEFINE O == Octets
           n == O - offset
           p == b.package
           x == b.place
           L == job[p]
           b2 == NextSpot(O, offset, b)
<1>7. b2 \in Spots /\ p \in Nat \ {0} /\ x \in Nat
  BY <1>2, NextIsASpot, SpotsAre
<1>8. Leads(O, 0, input, a, EndSpot) /\ LShiftIsAt(a, b)
  BY <1>4 DEF LShiftSpots
<1>9. CASE ls_writeRemainder
  <2>1. /\ shifted' = Append(shifted, Word(Joined(lsPrev, Blank, n), TRUE))
        /\ ls_writeRemainder' = FALSE /\ UNCHANGED <<input, ls_firstWord, lsPrev>>
    BY <1>9 DEF LShift
  <2>2. /\ ls_firstWord /\ a = Spot(p + 1, 0) /\ IsThere(offset, b) /\ x >= L /\ x >= O
        /\ lsPrev = DataAt(O, 0, Spot(p, x - O))
    BY <1>8, <1>9 DEF LShiftIsAt
  <2>3. p \in 1 .. Len(job) /\ x < L + offset
    BY <2>2 DEF IsThere
  <2>4. L \in Nat \ {0} /\ \A y \in Nat : OctetAt(0, p, y) = NoByte <=> y >= L + 0
    BY <1>2, <2>3, OctetsAre
  <2>5. offset \in 1 .. O - 1
    <3> HIDE DEF p, x, L
    <3> QED BY <1>2, <1>7, <2>2, <2>3, <2>4
  <2>6. Joined(lsPrev, Blank, n) = DataAt(O, offset, b)
    <3>1. \A i \in 0 .. O - 1 : Blank[i] = OctetAt(0, p, x + i)
      <4>1. \A i \in 0 .. O - 1 : x + i \in Nat /\ x + i >= L + 0
        <5> HIDE DEF p, x, L
        <5> QED BY <1>2, <1>7, <2>2, <2>4
      <4>2. \A i \in 0 .. O - 1 : Blank[i] = NoByte
        BY DEF Blank
      <4> HIDE DEF p, x, L
      <4> QED BY <2>4, <4>1, <4>2
    <3>2. x # 0
      <4> HIDE DEF p, x, L
      <4> QED BY <2>2, <2>4
    <3> QED BY <1>2, <2>2, <2>3, <2>5, <3>1, <3>2, LShiftJoins
  <2>7. IsLastAt(O, offset, b) = TRUE
    <3>1. x + O >= L + offset
      <4> HIDE DEF p, x, L
      <4> QED BY <1>2, <1>7, <2>2, <2>4
    <3> QED BY <3>1 DEF IsLastAt
  <2>8. Word(Joined(lsPrev, Blank, n), TRUE) = WordAt(O, offset, b)
    BY <2>6, <2>7 DEF WordAt
  <2>9. b2 = Spot(p + 1, 0)
    BY <2>7 DEF NextSpot
  <2>10. LShiftSpots(a, b2)'
    <3>1. Leads(O, 0, input, a, EndSpot)'
      BY <1>1, <1>8, <2>1, SpotsStay
    <3>2. a.place = 0
      <4>1. p + 1 \in Nat \ {0} /\ 0 \in Nat
        BY <1>7
      <4> QED BY <2>2, <4>1, SpotsAre
    <3>3. PICK b3 \in Spots : b3 = b2
      BY <1>7
    <3>4. LShiftIsAt(a, b3)'
      BY <2>1, <2>2, <2>9, <3>2, <3>3 DEF LShiftIsAt
    <3>5. b2' = b2
      BY <1>1, SpotsStay
    <3> HIDE DEF b2
    <3> QED BY <3>1, <3>3, <3>4, <3>5 DEF LShiftSpots
  <2>11. PICK b3 \in Spots : b3 = b2 /\ LShiftSpots(a, b3)'
    <3>1. b2' = b2
      BY <1>1, SpotsStay
    <3> HIDE DEF b2
    <3> QED BY <1>7, <2>10, <3>1
  <2> QED BY <1>6, <2>1, <2>2, <2>8, <2>11
<1>10. CASE ~ls_writeRemainder
  <2> DEFINE w == Head(input)
             prev == IF ls_firstWord THEN Zeroes ELSE lsPrev
             send == Word(Joined(prev, w.data, n), NothingFrom(w.data, n))
  <2>1. input # << >> /\ input' = Tail(input)
    BY <1>10 DEF LShift
  <2>2. /\ b = a /\ (offset # 0 => ls_firstWord = (x = 0))
        /\ offset # 0 /\ x # 0 => x >= O /\ lsPrev = DataAt(O, 0, Spot(p, x - O))
    BY <1>8, <1>10 DEF LShiftIsAt
  <2>3. /\ IsThere(0, b) /\ w = WordAt(O, 0, b)
        /\ Leads(O, 0, input', NextSpot(O, 0, b), EndSpot)
    <3>1. EndSpot \in Spots
      <4>1. Len(job) + 1 \in Nat \ {0} /\ 0 \in Nat
        BY <1>2
      <4> QED BY <4>1, SpotsAre DEF EndSpot
    <3> QED BY <1>2, <1>8, <2>1, <2>2, <3>1, LeadsFrom
  <2>4. p \in 1 .. Len(job) /\ x < L + 0
    BY <2>3 DEF IsThere
  <2>5. L \in Nat \ {0} /\ x < L /\ x < L + offset
    <3>1. L \in Nat \ {0}
      BY <1>2, <2>4, OctetsAre
    <3> HIDE DEF p, x, L
    <3> QED BY <1>2, <1>7, <2>4, <3>1
  <2>6. IsThere(offset, b)
    BY <2>4, <2>5 DEF IsThere
  <2>7. w.data = DataAt(O, 0, b) /\ w.last = IsLastAt(O, 0, b)
    BY <2>3, WordsAre
  <2> HIDE DEF w
  <2>8. PICK a2 \in Spots, b3 \in Spots : a2 = NextSpot(O, 0, b) /\ b3 = b2
    BY <1>2, <1>7, NextIsASpot
  <2>9. Leads(O, 0, input, a2, EndSpot)'
    BY <1>1, <2>3, <2>8, SpotsStay
  <2>10. CASE offset = 0
    <3>1. shifted' = Append(shifted, w) /\ UNCHANGED lsVars
      BY <1>10, <2>10 DEF LShift, w
    <3>2. w = WordAt(O, offset, b)
      BY <2>3, <2>10
    <3>3. LShiftIsAt(a2, b3)'
      <4>1. a2 = b3
        BY <2>8, <2>10
      <4>2. ls_writeRemainder' = FALSE \/ ls_writeRemainder' = ls_writeRemainder
        BY <3>1 DEF lsVars
      <4> HIDE DEF b2
      <4> QED BY <1>1, <1>10, <2>10, <3>1, <4>1 DEF LShiftIsAt, lsVars
    <3>4. LShiftSpots(a2, b3)'
      BY <2>9, <3>3 DEF LShiftSpots
    <3> QED BY <1>6, <2>6, <2>8, <3>1, <3>2, <3>4
  <2>11. CASE offset # 0
    <3>1. /\ shifted' = Append(shifted, send) /\ lsPrev' = w.data /\ ls_firstWord' = w.last
          /\ ls_writeRemainder' = (w.last /\ RemainderLeft(send))
      BY <1>10, <2>11 DEF LShift, w
    <3>2. offset \in 1 .. O - 1 /\ n \in 0 .. O - 1 /\ n = O - offset
      BY <1>2, <2>11
    <3>3. Joined(prev, w.data, n) = DataAt(O, offset, b)
      <4>1. IF b.place = 0 THEN prev = Zeroes
            ELSE b.place >= Octets
                 /\ prev = DataAt(Octets, 0, Spot(b.package, b.place - Octets))
        BY <2>2, <2>11
      <4>2. \A i \in 0 .. O - 1 : w.data[i] = OctetAt(0, p, x + i)
        BY <2>7, WordsAre
      <4> HIDE DEF prev
      <4> QED BY <1>2, <2>4, <3>2, <4>1, <4>2, LShiftJoins
    <3>4. NothingFrom(w.data, n) = IsLastAt(O, offset, b)
      <4>1. NothingFrom(w.data, n) <=> x + n >= L + 0
        <5> HIDE DEF n
        <5> QED BY <1>2, <2>4, <2>7, <3>2, NothingIsLeft
      <4>2. x + n >= L + 0 <=> x + O >= L + offset
        <5>1. /\ n = O - offset /\ n \in Nat /\ O \in Nat /\ offset \in Nat /\ x \in Nat
              /\ L \in Nat
          BY <1>2, <1>7, <2>5, <3>2
        <5>2. ASSUME NEW n1 \in Nat, NEW o1 \in Nat, NEW f1 \in Nat, NEW x1 \in Nat,
                     NEW l1 \in Nat, n1 = o1 - f1
              PROVE  x1 + n1 >= l1 + 0 <=> x1 + o1 >= l1 + f1
          BY ONLY <5>2
        <5> HIDE DEF x, L, p, O, n
        <5> QED BY ONLY <5>1, <5>2
      <4>3. NothingFrom(w.data, n) \in BOOLEAN /\ IsLastAt(O, offset, b) \in BOOLEAN
        BY DEF NothingFrom, IsLastAt
      <4>4. IsLastAt(O, offset, b) <=> x + O >= L + offset
        BY DEF IsLastAt
      <4> HIDE DEF x, L, p, n
      <4> QED BY <4>1, <4>2, <4>3, <4>4
    <3> HIDE DEF prev
    <3>5. send = WordAt(O, offset, b) /\ send.last = IsLastAt(O, offset, b)
      BY <3>3, <3>4, WordsAre DEF WordAt
    <3> HIDE DEF send
    <3> DEFINE ends == x + O >= L
               over == x + O >= L + offset
    <3>6. /\ w.last = ends /\ send.last = over
          /\ a2 = IF ends THEN Spot(p + 1, 0) ELSE Spot(p, x + O)
          /\ b3 = IF over THEN Spot(p + 1, 0) ELSE Spot(p, x + O)
      <4>1. L + 0 = L
        BY <2>5
      <4> QED BY <2>7, <2>8, <3>5, <4>1 DEF IsLastAt, NextSpot
    <3>7. ls_firstWord' = ends /\ ls_writeRemainder' = (ends /\ ~over)
      BY <3>1, <3>6 DEF RemainderLeft
    <3>8. /\ Spot(p + 1, 0).place = 0 /\ Spot(p, x + O).package = p
          /\ Spot(p, x + O).place = x + O
      <4>1. p + 1 \in Nat \ {0} /\ 0 \in Nat /\ x + O \in Nat
        BY <1>2, <1>7
      <4> HIDE DEF p, x
      <4> QED BY <1>7, <4>1, SpotsAre
    <3>9. b = Spot(p, (x + O) - O)
      <4>1. (x + O) - O = x
        BY <1>2, <1>7
      <4> QED BY <4>1, SpotsAre
    <3>10. over => ends
      <4> HIDE DEF p, x, L
      <4> QED BY <1>2, <1>7, <2>5
    <3>11. LShiftIsAt(a2, b3)'
      <4>1. CASE ends /\ ~over
        <5>1. /\ ls_writeRemainder' = TRUE /\ ls_firstWord' = TRUE /\ a2 = Spot(p + 1, 0)
              /\ b3 = Spot(p, x + O)
          BY <3>6, <3>7, <4>1
        <5>2. b3.package = p /\ b3.place = x + O
          BY <3>8, <5>1
        <5>3. IsThere(offset, b3)
          <6>1. x + O < L + offset
            <7> HIDE DEF p, x, L
            <7> QED BY <1>2, <1>7, <2>5, <4>1
          <6> QED BY <2>4, <5>2, <6>1 DEF IsThere
        <5>4. IsThere(offset, b3)'
          BY <1>1, <5>3, SpotsStay
        <5>5. x + O >= O /\ x + O >= L
          BY <1>2, <1>7, <4>1
        <5>6. lsPrev' = DataAt(O, 0, Spot(p, (x + O) - O))
          BY <2>7, <3>1, <3>9
        <5>7. lsPrev' = DataAt(O, 0, Spot(b3.package, b3.place - O))'
          BY <1>1, <5>2, <5>6, SpotsStay
        <5>8. b3.place >= job'[b3.package]
          BY <1>1, <5>2, <5>5
        <5> HIDE DEF p, x, L, b2
        <5> QED BY <5>1, <5>2, <5>4, <5>5, <5>7, <5>8 DEF LShiftIsAt
      <4>2. CASE ~(ends /\ ~over)
        <5>1. ls_writeRemainder' = FALSE /\ b3 = a2
          BY <3>6, <3>7, <3>10, <4>2
        <5>2. CASE ends
          <6>1. a2.place = 0 /\ ls_firstWord' = TRUE
            BY <3>6, <3>7, <3>8, <5>2
          <6> QED BY <5>1, <6>1 DEF LShiftIsAt
        <5>3. CASE ~ends
          <6>1. a2.package = p /\ a2.place = x + O /\ ls_firstWord' = FALSE
            <7>1. a2 = Spot(p, x + O)
              BY <3>6, <5>3
            <7>2. ls_firstWord' = FALSE
              <8>1. ends = FALSE
                BY <5>3
              <8>2. ls_firstWord' = ends
                BY ONLY <3>7
              <8> HIDE DEF ends, over
              <8> QED BY ONLY <8>1, <8>2
            <7> QED BY <3>8, <7>1, <7>2
          <6>2. x + O >= O /\ x + O # 0
            BY <1>2, <1>7
          <6>3. lsPrev' = DataAt(O, 0, Spot(p, (x + O) - O))
            BY <2>7, <3>1, <3>9
          <6>4. lsPrev' = DataAt(O, 0, Spot(a2.package, a2.place - O))'
            BY <1>1, <6>1, <6>3, SpotsStay
          <6> HIDE DEF p, x, L, b2
          <6> QED BY <5>1, <6>1, <6>2, <6>4 DEF LShiftIsAt
        <5> QED BY <5>2, <5>3
      <4> QED BY <4>1, <4>2
    <3>12. LShiftSpots(a2, b3)'
      BY <2>9, <3>11 DEF LShiftSpots
    <3> QED BY <1>6, <2>6, <2>8, <3>1, <3>5, <3>12
  <2> QED BY <2>10, <2>11
<1> QED BY <1>9, <1>10

(* A word and its two halves.                                              *)
LEMMA HalvesAt ==
    ASSUME job \in Seq(Nat \ {0}), NEW f \in Nat, NEW at \in Spots, NEW next,
           at.package \in 1 .. Len(job), next = Spot(at.package, at.place + HalfOf)
    PROVE  /\ next \in Spots /\ next.package = at.package
           /\ next.place = at.place + HalfOf /\ at = Spot(next.package, next.place - HalfOf)
           /\ Half(DataAt(Octets, f, at), 0) = DataAt(HalfOf, f, at)
           /\ Half(DataAt(Octets, f, at), 1) = DataAt(HalfOf, f, next)
           /\ DataAt(Octets, f, at)[HalfOf] = NoByte <=> IsLastAt(HalfOf, f, at)
           /\ IsLastAt(HalfOf, f, next) = IsLastAt(Octets, f, at)
           /\ NextSpot(HalfOf, f, next) = NextSpot(Octets, f, at)
           /\ IF IsLastAt(HalfOf, f, at)
              THEN /\ IsLastAt(Octets, f, at)
                   /\ NextSpot(HalfOf, f, at) = NextSpot(Octets, f, at)
              ELSE IsThere(f, next) /\ NextSpot(HalfOf, f, at) = next
<1> DEFINE H == HalfOf
           O == Octets
           p == at.package
           x == at.place
           L == job[p] + f
<1>1. /\ O \in Nat /\ H \in Nat \ {0} /\ O = H + H /\ H < O /\ Octets \div 2 = H
      /\ L \in Nat /\ \A y \in Nat : OctetAt(f, p, y) = NoByte <=> y >= L
  <2>1. job[p] \in Nat \ {0} /\ \A y \in Nat : OctetAt(f, p, y) = NoByte <=> y >= L
    BY OctetsAre
  <2>2. job[p] + f \in Nat
    BY <2>1
  <2> HIDE DEF p
  <2> QED BY <2>1, <2>2, OctetSizes
<1>2. p \in Nat \ {0} /\ x \in Nat /\ at = Spot(p, x) /\ x + H \in Nat
  <2>1. p \in Nat \ {0} /\ x \in Nat /\ at = Spot(p, x)
    BY SpotsAre
  <2> HIDE DEF p, x
  <2> QED BY <1>1, <2>1
<1>3. next \in Spots /\ next.package = p /\ next.place = x + H /\ (x + H) - H = x
  <2>1. (x + H) - H = x
    <3> HIDE DEF x, H
    <3> QED BY <1>1, <1>2
  <2> HIDE DEF p, x, H
  <2> QED BY <1>2, <2>1, SpotsAre DEF p, x, H
<1>4. \A i \in 0 .. H - 1 :
        /\ i + 0 * H \in 0 .. O - 1 /\ x + (i + 0 * H) = x + i
        /\ i + 1 * H \in 0 .. O - 1 /\ x + (i + 1 * H) = (x + H) + i
  BY <1>1, <1>2
<1>5. \A i \in 0 .. O - 1 : DataAt(O, f, at)[i] = OctetAt(f, p, x + i)
  BY WordsAre
<1>6. Half(DataAt(O, f, at), 0) = DataAt(H, f, at)
  <2>1. \A i \in 0 .. H - 1 : DataAt(O, f, at)[i + 0 * H] = OctetAt(f, p, x + i)
    BY <1>4, <1>5
  <2>2. Half(DataAt(O, f, at), 0) = [i \in 0 .. H - 1 |-> DataAt(O, f, at)[i + 0 * H]]
    BY <1>1 DEF Half
  <2> QED BY <2>1, <2>2 DEF DataAt
<1>7. Half(DataAt(O, f, at), 1) = DataAt(H, f, next)
  <2>1. \A i \in 0 .. H - 1 :
          DataAt(O, f, at)[i + 1 * H] = OctetAt(f, next.package, next.place + i)
    BY <1>3, <1>4, <1>5
  <2>2. Half(DataAt(O, f, at), 1) = [i \in 0 .. H - 1 |-> DataAt(O, f, at)[i + 1 * H]]
    BY <1>1 DEF Half
  <2> QED BY <2>1, <2>2 DEF DataAt
<1>8. DataAt(O, f, at)[H] = NoByte <=> x + H >= L
  <2>1. H \in 0 .. O - 1
    BY <1>1
  <2>2. DataAt(O, f, at)[H] = OctetAt(f, p, x + H)
    BY <1>5, <2>1
  <2> HIDE DEF p, x, L
  <2> QED BY <1>1, <1>2, <2>2
<1>9. (x + H) + H = x + O
  BY <1>1, <1>2
<1>10. x + H >= L => x + O >= L
  <2> HIDE DEF x, L, H, O
  <2> QED BY <1>1, <1>2
<1>11. /\ IsLastAt(H, f, at) = (x + H >= L) /\ IsLastAt(O, f, at) = (x + O >= L)
       /\ IsLastAt(H, f, next) = (x + O >= L)
  BY <1>3, <1>9 DEF IsLastAt
<1>12. NextSpot(H, f, next) = NextSpot(O, f, at)
  BY <1>3, <1>9, <1>11 DEF NextSpot
<1>13. IF x + H >= L THEN NextSpot(H, f, at) = NextSpot(O, f, at)
       ELSE IsThere(f, next) /\ NextSpot(H, f, at) = next
  <2>1. CASE x + H >= L
    BY <1>10, <1>11, <2>1 DEF NextSpot
  <2>2. CASE ~(x + H >= L)
    <3>1. x + H < L
      <4> HIDE DEF x, L, H
      <4> QED BY <1>1, <1>2, <2>2
    <3>2. IsThere(f, next)
      BY <1>3, <3>1 DEF IsThere
    <3>3. NextSpot(H, f, at) = next
      BY <1>11, <2>2 DEF NextSpot
    <3> QED BY <2>2, <3>2, <3>3
  <2> QED BY <2>1, <2>2
<1> HIDE DEF x, L, O
<1> QED
  BY <1>2, <1>3, <1>6, <1>7, <1>8, <1>10, <1>11, <1>12, <1>13 DEF x, O

LEMMA HalfWidthGoesOn == ShiftersInv /\ ChainInv /\ ToHalfWidth => ChainInv'
<1> SUFFICES ASSUME ShiftersInv, ChainInv, ToHalfWidth PROVE ChainInv'
  OBVIOUS
<1>1. /\ offset' = offset /\ job' = job
      /\ UNCHANGED <<input, doubled, output, lsVars, dwVars, rsVars>>
  BY DEF ToHalfWidth
<1>2. /\ offset \in 0 .. Octets - 1 /\ job \in Seq(Nat \ {0}) /\ Octets \in Nat \ {0, 1}
      /\ HalfOf \in Nat /\ Octets \div 2 = HalfOf /\ offset \in Nat
      /\ shifted \in Seq(GoodWord(Octets)) /\ halves \in Seq(GoodWord(HalfOf))
  BY OctetSizes DEF ChainInv, ShiftersInv, StreamsAreGood
<1>3. PICK b, d, g \in Spots : ChainIsAt(b, d, g)
  BY DEF ChainInv
<1>4. PICK c \in Spots : HalfWidthSpots(b, c, d)
  BY <1>3 DEF ChainIsAt
<1>5. PICK e \in Spots : DoubleWidthSpots(d, e, g)
  BY <1>3 DEF ChainIsAt
<1> DEFINE f == offset
           O == Octets
           H == HalfOf
<1>6. Leads(O, f, shifted, c, b) /\ HalfWidthIsAt(c, d)
  BY <1>4 DEF HalfWidthSpots
<1>7. PICK d2 \in Spots : d2 = NextSpot(H, f, d)
  BY <1>2, NextIsASpot
(* It is enough to know that the next half is sent.                        *)
<1>8. ASSUME NEW w, halves' = Append(halves, w), IsThere(f, d), w = WordAt(H, f, d),
             NEW c2 \in Spots, Leads(O, f, shifted', c2, b), HalfWidthIsAt(c2, d2)'
      PROVE  ChainInv'
  <2>1. HalfWidthSpots(b, c2, d2)'
    <3>1. Leads(O, f, shifted, c2, b)'
      BY <1>1, <1>8, SpotsStay
    <3> QED BY <1>8, <3>1 DEF HalfWidthSpots
  <2>2. DoubleWidthSpots(d2, e, g)'
    <3>1. Leads(H, f, halves, e, d) /\ DoubleWidthIsAt(e, g)
      BY <1>5 DEF DoubleWidthSpots
    <3>2. Leads(H, f, Append(halves, w), e, d2)
      BY <1>2, <1>5, <1>7, <1>8, <3>1, LeadsOn
    <3>3. Leads(H, f, halves, e, d2)'
      BY <1>1, <1>8, <3>2, SpotsStay
    <3>4. DoubleWidthIsAt(e, g)'
      BY <1>1, <3>1, FunctionsStay
    <3> QED BY <3>3, <3>4 DEF DoubleWidthSpots
  <2>3. ChainIsAt(b, d2, g)'
    <3>1. \E a \in Spots : LShiftSpots(a, b)'
      BY <1>1, <1>3, SpotsAsBefore DEF ChainIsAt
    <3>2. \E h, o \in Spots : RShiftSpots(g, h, o)'
      BY <1>1, <1>3, SpotsAsBefore DEF ChainIsAt
    <3> QED BY <1>8, <2>1, <2>2, <3>1, <3>2 DEF ChainIsAt
  <2> QED BY <1>1, <1>2, <1>3, <1>7, <2>3 DEF ChainInv
<1>9. CASE hwState = "FIRST" /\ shifted # << >>
  <2> DEFINE w == Head(shifted)
  <2>1. /\ hwWord' = w /\ halves' = Append(halves, Word(Half(w.data, 0), FirstHalfIsLast(w)))
        /\ hwState' = IF w.data[Octets \div 2] # NoByte THEN "SECOND" ELSE "FIRST"
        /\ shifted' = Tail(shifted)
    BY <1>9 DEF ToHalfWidth
  <2>2. c = d
    BY <1>6, <1>9 DEF HalfWidthIsAt
  <2>3. PICK c2 \in Spots : c2 = NextSpot(O, f, d)
    BY <1>2, NextIsASpot
  <2>4. IsThere(f, d) /\ w = WordAt(O, f, d) /\ Leads(O, f, shifted', c2, b)
    BY <1>2, <1>6, <1>9, <2>1, <2>2, <2>3, LeadsFrom
  <2>5. d.package \in 1 .. Len(job)
    BY <2>4 DEF IsThere
  <2>6. w.data = DataAt(O, f, d)
    BY <2>4, WordsAre
  <2> HIDE DEF w
  <2>7. PICK next : next = Spot(d.package, d.place + HalfOf)
    OBVIOUS
  <2>8. Word(Half(w.data, 0), FirstHalfIsLast(w)) = WordAt(H, f, d)
    <3>1. Half(w.data, 0) = DataAt(H, f, d)
      BY <1>2, <2>5, <2>6, <2>7, HalvesAt
    <3>2. w.data[HalfOf] = NoByte <=> IsLastAt(H, f, d)
      BY <1>2, <2>5, <2>6, <2>7, HalvesAt
    <3>3. FirstHalfIsLast(w) = IsLastAt(H, f, d)
      BY <1>2, <3>2 DEF FirstHalfIsLast, IsLastAt
    <3> QED BY <3>1, <3>3 DEF WordAt
  <2>9. HalfWidthIsAt(c2, d2)'
    <3>1. CASE IsLastAt(H, f, d)
      <4>1. w.data[HalfOf] = NoByte /\ c2 = d2
        BY <1>2, <1>7, <2>3, <2>5, <2>6, <2>7, <3>1, HalvesAt
      <4>2. hwState' = "FIRST"
        BY <1>2, <2>1, <4>1
      <4> QED BY <4>1, <4>2 DEF HalfWidthIsAt
    <3>2. CASE ~IsLastAt(H, f, d)
      <4>1. w.data[HalfOf] # NoByte /\ d2 = next /\ IsThere(f, next)
        BY <1>2, <1>7, <2>5, <2>6, <2>7, <3>2, HalvesAt
      <4>2. hwState' = "SECOND" /\ hwWord' = w
        BY <1>2, <2>1, <4>1
      <4>3. d = Spot(d2.package, d2.place - H) /\ d2.place = d.place + H
        BY <1>2, <2>5, <2>7, <4>1, HalvesAt
      <4>4. d2.place >= H
        <5>1. d.place \in Nat
          BY SpotsAre
        <5> QED BY <1>2, <4>3, <5>1
      <4>5. IsThere(f, d2)'
        BY <1>1, <4>1, SpotsStay
      <4>6. hwWord' = WordAt(O, f, Spot(d2.package, d2.place - H))'
        BY <1>1, <2>4, <4>2, <4>3, SpotsStay
      <4>7. c2 = NextSpot(O, f, Spot(d2.package, d2.place - H))'
        BY <1>1, <2>3, <4>3, SpotsStay
      <4> QED BY <1>1, <4>2, <4>4, <4>5, <4>6, <4>7 DEF HalfWidthIsAt
    <3> QED BY <3>1, <3>2
  <2> QED BY <1>8, <2>1, <2>4, <2>8, <2>9
<1>10. CASE hwState = "SECOND"
  <2>1. /\ halves' = Append(halves, Word(Half(hwWord.data, 1), hwWord.last))
        /\ hwState' = "FIRST" /\ UNCHANGED <<hwWord, shifted>>
    BY <1>10 DEF ToHalfWidth
  <2> DEFINE at == Spot(d.package, d.place - H)
  <2>2. /\ IsThere(f, d) /\ d.place >= H /\ hwWord = WordAt(O, f, at)
        /\ c = NextSpot(O, f, at)
    BY <1>6, <1>10 DEF HalfWidthIsAt
  <2>3. d.package \in 1 .. Len(job)
    BY <2>2 DEF IsThere
  <2>4. d.package \in Nat \ {0} /\ d.place \in Nat /\ d = Spot(d.package, d.place)
    BY SpotsAre
  <2>5. d.place - H \in Nat /\ (d.place - H) + H = d.place
    BY <1>2, <2>2, <2>4
  <2>6. at \in Spots /\ at.package = d.package /\ at.place = d.place - H
    BY <2>4, <2>5, SpotsAre
  <2>7. d = Spot(at.package, at.place + HalfOf) /\ at.package \in 1 .. Len(job)
    BY <2>3, <2>4, <2>5, <2>6
  <2>8. PICK at2 \in Spots : at2 = at
    BY <2>6
  <2> HIDE DEF at
  <2>9. Word(Half(hwWord.data, 1), hwWord.last) = WordAt(H, f, d)
    <3>1. hwWord.data = DataAt(O, f, at2) /\ hwWord.last = IsLastAt(O, f, at2)
      BY <2>2, <2>8, WordsAre
    <3>2. /\ Half(DataAt(O, f, at2), 1) = DataAt(H, f, d)
          /\ IsLastAt(H, f, d) = IsLastAt(O, f, at2)
      BY <1>2, <2>7, <2>8, HalvesAt
    <3> QED BY <3>1, <3>2 DEF WordAt
  <2>10. d2 = c
    BY <1>2, <1>7, <2>2, <2>7, <2>8, HalvesAt
  <2>11. HalfWidthIsAt(c, d2)'
    BY <2>1, <2>10 DEF HalfWidthIsAt
  <2>12. Leads(O, f, shifted', c, b)
    BY <1>6, <2>1
  <2> QED BY <1>8, <2>1, <2>2, <2>9, <2>11, <2>12
<1> QED BY <1>9, <1>10 DEF ToHalfWidth

LEMMA DoubleWidthGoesOn == ShiftersInv /\ ChainInv /\ ToDoubleWidth => ChainInv'
<1> SUFFICES ASSUME ShiftersInv, ChainInv, ToDoubleWidth PROVE ChainInv'
  OBVIOUS
<1>1. /\ offset' = offset /\ job' = job
      /\ UNCHANGED <<input, shifted, output, lsVars, hwVars, rsVars>>
  BY DEF ToDoubleWidth
<1>2. /\ offset \in 0 .. Octets - 1 /\ job \in Seq(Nat \ {0}) /\ Octets \in Nat \ {0, 1}
      /\ HalfOf \in Nat \ {0} /\ Octets \div 2 = HalfOf /\ Octets = HalfOf + HalfOf
      /\ offset \in Nat /\ even \in {0, 1}
      /\ doubled \in Seq(GoodWord(Octets)) /\ halves \in Seq(GoodWord(HalfOf))
  BY OctetSizes DEF ChainInv, ShiftersInv, StreamsAreGood, DoubleWidthInv
<1>3. PICK b, d, g \in Spots : ChainIsAt(b, d, g)
  BY DEF ChainInv
<1>4. PICK e \in Spots : DoubleWidthSpots(d, e, g)
  BY <1>3 DEF ChainIsAt
<1>5. PICK h, o \in Spots : RShiftSpots(g, h, o)
  BY <1>3 DEF ChainIsAt
<1> DEFINE f == offset
           O == Octets
           H == HalfOf
           half == Head(halves)
           w == Word(Placed(half.data), half.last)
<1>6. Leads(H, f, halves, e, d) /\ DoubleWidthIsAt(e, g)
  BY <1>4 DEF DoubleWidthSpots
<1>7. /\ halves # << >> /\ halves' = Tail(halves) /\ temp' = Placed(half.data)
      /\ IF even = 1 \/ half.last THEN doubled' = Append(doubled, w) /\ even' = 0
         ELSE even' = 1 /\ doubled' = doubled
  BY DEF ToDoubleWidth
<1>8. PICK e2 \in Spots : e2 = NextSpot(H, f, e)
  BY <1>2, NextIsASpot
<1>9. /\ IsThere(f, e) /\ half = WordAt(H, f, e)
      /\ Leads(H, f, halves', e2, d)
  BY <1>2, <1>6, <1>7, <1>8, LeadsFrom
<1>10. half.data = DataAt(H, f, e) /\ half.last = IsLastAt(H, f, e)
  BY <1>9, WordsAre
<1> HIDE DEF half
<1>11. \A i \in 0 .. H - 1 : half.data[i] = OctetAt(f, e.package, e.place + i)
  BY <1>10, WordsAre
<1>12. e.package \in 1 .. Len(job)
  BY <1>9 DEF IsThere
(* It is enough to know that the half goes to its place, or the next word  *)
(* is sent.                                                                *)
<1>13. ASSUME NEW g2 \in Spots, DoubleWidthIsAt(e2, g2)',
              \/ doubled' = doubled /\ g2 = g
              \/ /\ doubled' = Append(doubled, w) /\ IsThere(f, g)
                 /\ w = WordAt(O, f, g) /\ g2 = NextSpot(O, f, g)
       PROVE  ChainInv'
  <2>1. DoubleWidthSpots(d, e2, g2)'
    <3>1. Leads(H, f, halves, e2, d)'
      BY <1>1, <1>9, SpotsStay
    <3> QED BY <1>13, <3>1 DEF DoubleWidthSpots
  <2>2. RShiftSpots(g2, h, o)'
    <3>1. /\ Leads(O, f, doubled, h, g)
          /\ Transparent => /\ RShiftIsAt(h, o) /\ IsUpToEnd(o)
                            /\ Leads(O, 0, output, Spot(1, 0), o)
      BY <1>5 DEF RShiftSpots
    <3>2. Leads(O, f, doubled', h, g2)
      <4>1. CASE doubled' = doubled /\ g2 = g
        BY <3>1, <4>1
      <4>2. CASE /\ doubled' = Append(doubled, w) /\ IsThere(f, g)
                 /\ w = WordAt(O, f, g) /\ g2 = NextSpot(O, f, g)
        <5> HIDE DEF w
        <5>1. Leads(O, f, Append(doubled, w), h, NextSpot(O, f, g))
          BY <1>2, <1>3, <1>5, <3>1, <4>2, LeadsOn
        <5> QED BY <4>2, <5>1
      <4> HIDE DEF w
      <4> QED BY <1>13, <4>1, <4>2
    <3>3. Leads(O, f, doubled, h, g2)'
      BY <1>1, <3>2, SpotsStay
    <3>4. Transparent' => /\ RShiftIsAt(h, o)' /\ IsUpToEnd(o)'
                          /\ Leads(O, 0, output, Spot(1, 0), o)'
      <4>1. Transparent' <=> Transparent
        BY <1>1, FunctionsStay
      <4>2. RShiftIsAt(h, o)' <=> RShiftIsAt(h, o)
        BY <1>1, FunctionsStay
      <4>3. IsUpToEnd(o)' <=> IsUpToEnd(o)
        BY <1>1, FunctionsStay
      <4>4. Leads(O, 0, output, Spot(1, 0), o)' <=> Leads(O, 0, output, Spot(1, 0), o)
        BY <1>1, SpotsStay
      <4> QED BY <3>1, <4>1, <4>2, <4>3, <4>4
    <3> QED BY <3>3, <3>4 DEF RShiftSpots
  <2>3. ChainIsAt(b, d, g2)'
    <3>1. \E a \in Spots : LShiftSpots(a, b)'
      BY <1>1, <1>3, SpotsAsBefore DEF ChainIsAt
    <3>2. \E c \in Spots : HalfWidthSpots(b, c, d)'
      BY <1>1, <1>3, SpotsAsBefore DEF ChainIsAt
    <3> QED BY <1>5, <1>8, <2>1, <2>2, <3>1, <3>2 DEF ChainIsAt
  <2> QED BY <1>1, <1>2, <1>3, <1>13, <2>3 DEF ChainInv
<1>14. CASE even = 0
  <2>1. g = e
    BY <1>6, <1>14 DEF DoubleWidthIsAt
  <2>2. PICK next : next = Spot(e.package, e.place + HalfOf)
    OBVIOUS
  <2>3. \A i \in 0 .. O - 1 :
          Placed(half.data)[i] = IF i < H THEN half.data[i] ELSE NoByte
    BY <1>2, <1>14 DEF Placed
  <2>4. \A i \in 0 .. H - 1 : i \in 0 .. O - 1 /\ i < H
    BY <1>2
  <2>5. CASE half.last
    <3>1. IsLastAt(H, f, e)
      BY <1>10, <2>5
    <3>2. IsLastAt(O, f, e) /\ e2 = NextSpot(O, f, e)
      BY <1>2, <1>8, <1>12, <2>2, <3>1, HalvesAt
    <3>3. \A i \in 0 .. O - 1 : Placed(half.data)[i] = OctetAt(f, e.package, e.place + i)
      <4> TAKE i \in 0 .. O - 1
      <4>1. CASE i < H
        <5>1. i \in 0 .. H - 1
          BY <1>2, <4>1
        <5> QED BY <1>11, <2>3, <4>1, <5>1
      <4>2. CASE ~(i < H)
        <5>1. job[e.package] \in Nat
              /\ \A y \in Nat : OctetAt(f, e.package, y) = NoByte <=> y >= job[e.package] + f
          BY <1>2, <1>12, OctetsAre
        <5>2. e.place + H >= job[e.package] + f /\ e.place \in Nat
          BY <3>1, SpotsAre DEF IsLastAt
        <5> DEFINE L == job[e.package]
                   x == e.place
        <5>3. x + i \in Nat /\ x + i >= L + f
          <6>1. i \in Nat /\ i >= H /\ H \in Nat /\ L \in Nat /\ f \in Nat /\ x \in Nat
            BY <1>2, <4>2, <5>1, <5>2
          <6>2. x + H >= L + f
            BY <5>2
          <6> HIDE DEF L, x, H, f
          <6> QED BY ONLY <6>1, <6>2
        <5> QED BY <2>3, <4>2, <5>1, <5>3
      <4> QED BY <4>1, <4>2
    <3>4. Placed(half.data) = DataAt(O, f, e)
      BY <3>3 DEF Placed, DataAt
    <3>5. half.last = IsLastAt(O, f, e)
      BY <1>10, <3>1, <3>2 DEF IsLastAt
    <3>6. w = WordAt(O, f, g)
      BY <2>1, <3>4, <3>5 DEF WordAt
    <3>7. doubled' = Append(doubled, w) /\ even' = 0
      BY <1>7, <2>5
    <3>8. DoubleWidthIsAt(e2, e2)'
      BY <3>7 DEF DoubleWidthIsAt
    <3> HIDE DEF w
    <3> QED BY <1>8, <1>9, <1>13, <2>1, <3>2, <3>6, <3>7, <3>8
  <2>6. CASE ~half.last
    <3>1. ~IsLastAt(H, f, e)
      BY <1>10, <2>6
    <3>2. IsThere(f, next) /\ e2 = next /\ e2.package = e.package
      BY <1>2, <1>8, <1>12, <2>2, <3>1, HalvesAt
    <3>3. even' = 1 /\ doubled' = doubled
      BY <1>7, <1>14, <2>6
    <3>4. \A i \in 0 .. H - 1 : temp'[i] = OctetAt(f, g.package, g.place + i)
      BY <1>7, <1>11, <2>1, <2>3, <2>4
    <3>5. \A i \in 0 .. H - 1 : temp'[i] = OctetAt(f, g.package, g.place + i)'
      BY <1>1, <3>4, SpotsStay
    <3>6. IsThere(f, e2)'
      BY <1>1, <3>2, SpotsStay
    <3>7. e2 = Spot(g.package, g.place + H)
      BY <2>1, <2>2, <3>2
    <3>8. DoubleWidthIsAt(e2, g)'
      BY <1>1, <3>3, <3>5, <3>6, <3>7 DEF DoubleWidthIsAt
    <3> HIDE DEF w
    <3> QED BY <1>13, <3>3, <3>8
  <2> QED BY <2>5, <2>6
<1>15. CASE even = 1
  <2>1. /\ e = Spot(g.package, g.place + H)
        /\ \A i \in 0 .. H - 1 : temp[i] = OctetAt(f, g.package, g.place + i)
    BY <1>6, <1>15 DEF DoubleWidthIsAt
  <2>2. g.package \in Nat \ {0} /\ g.place \in Nat /\ g.place + H \in Nat
    <3>1. g.package \in Nat \ {0} /\ g.place \in Nat
      BY SpotsAre
    <3> QED BY <1>2, <3>1
  <2>3. e.package = g.package /\ e.place = g.place + H
    BY <2>1, <2>2, SpotsAre
  <2>4. /\ IsLastAt(H, f, e) = IsLastAt(O, f, g)
        /\ e2 = NextSpot(O, f, g)
    BY <1>2, <1>8, <1>12, <2>1, <2>3, HalvesAt
  <2>5. IsThere(f, g)
    <3>1. g.place + H < job[g.package] + f
      BY <1>9, <2>3 DEF IsThere
    <3>2. job[g.package] \in Nat
      BY <1>2, <1>12, <2>3, OctetsAre
    <3>3. g.place < job[g.package] + f
      <4>1. ASSUME NEW x \in Nat, NEW w1 \in Nat, NEW l \in Int, x + w1 < l
            PROVE  x < l
        BY ONLY <4>1
      <4>2. job[g.package] + f \in Int
        BY <1>2, <3>2
      <4> QED BY <1>2, <2>2, <3>1, <4>1, <4>2
    <3> QED BY <1>12, <2>3, <3>3 DEF IsThere
  <2>6. \A i \in 0 .. O - 1 :
          Placed(half.data)[i] = IF i >= H THEN half.data[i - H] ELSE temp[i]
    BY <1>2, <1>15 DEF Placed
  <2>7. \A i \in 0 .. O - 1 : Placed(half.data)[i] = OctetAt(f, g.package, g.place + i)
    <3> TAKE i \in 0 .. O - 1
    <3>1. CASE i >= H
      <4>1. i - H \in 0 .. H - 1 /\ (g.place + H) + (i - H) = g.place + i
        BY <1>2, <2>2, <3>1
      <4>2. half.data[i - H] = OctetAt(f, g.package, (g.place + H) + (i - H))
        BY <1>11, <2>3, <4>1
      <4> QED BY <2>6, <3>1, <4>1, <4>2
    <3>2. CASE ~(i >= H)
      <4>1. i \in 0 .. H - 1
        BY <1>2, <3>2
      <4> QED BY <2>1, <2>6, <3>2, <4>1
    <3> QED BY <3>1, <3>2
  <2>8. Placed(half.data) = DataAt(O, f, g)
    BY <2>7 DEF Placed, DataAt
  <2>9. w = WordAt(O, f, g)
    BY <1>10, <2>4, <2>8 DEF WordAt
  <2>10. doubled' = Append(doubled, w) /\ even' = 0
    BY <1>7, <1>15
  <2>11. DoubleWidthIsAt(e2, e2)'
    BY <2>10 DEF DoubleWidthIsAt
  <2> HIDE DEF w
  <2> QED BY <1>8, <1>13, <2>4, <2>5, <2>9, <2>10, <2>11
<1> QED BY <1>2, <1>14, <1>15

LEMMA NextIsUpToEnd ==
    ASSUME job \in Seq(Nat \ {0}), NEW at \in Spots, IsThere(0, at), NEW width \in Nat
    PROVE  IsUpToEnd(NextSpot(width, 0, at))
<1> DEFINE p == at.package
           x == at.place
<1>1. p \in 1 .. Len(job) /\ p \in Nat \ {0} /\ x \in Nat /\ x + width \in Nat
  <2>1. p \in Nat \ {0} /\ x \in Nat
    BY SpotsAre
  <2>2. p \in 1 .. Len(job)
    BY DEF IsThere
  <2> HIDE DEF p, x
  <2> QED BY <2>1, <2>2
<1>2. job[p] \in Nat
  BY <1>1, OctetsAre
<1>3. CASE IsLastAt(width, 0, at)
  <2>1. NextSpot(width, 0, at) = Spot(p + 1, 0)
    BY <1>3 DEF NextSpot
  <2>2. Spot(p + 1, 0).package = p + 1 /\ Spot(p + 1, 0).place = 0
    <3>1. p + 1 \in Nat \ {0} /\ 0 \in Nat
      BY <1>1
    <3> QED BY <3>1, SpotsAre
  <2>3. p + 1 <= Len(job) + 1
    BY <1>1
  <2> QED BY <2>1, <2>2, <2>3 DEF IsUpToEnd
<1>4. CASE ~IsLastAt(width, 0, at)
  <2>1. NextSpot(width, 0, at) = Spot(p, x + width)
    BY <1>4 DEF NextSpot
  <2>2. Spot(p, x + width).package = p /\ Spot(p, x + width).place = x + width
    BY <1>1, SpotsAre
  <2>3. x + width < job[p] + 0
    <3> DEFINE L == job[p]
    <3>1. ~(x + width >= L + 0)
      BY <1>4 DEF IsLastAt
    <3> HIDE DEF x, L
    <3> QED BY <1>1, <1>2, <3>1 DEF L
  <2> QED BY <1>1, <2>1, <2>2, <2>3 DEF IsUpToEnd, IsThere
<1> QED BY <1>3, <1>4

LEMMA RShiftGoesOn == ShiftersInv /\ ChainInv /\ RShift => ChainInv'
<1> SUFFICES ASSUME ShiftersInv, ChainInv, RShift PROVE ChainInv'
  OBVIOUS
<1>1. /\ offset' = offset /\ job' = job
      /\ UNCHANGED <<input, shifted, halves, lsVars, hwVars, dwVars>>
  BY DEF RShift
<1>2. /\ offset \in 0 .. Octets - 1 /\ job \in Seq(Nat \ {0}) /\ Octets \in Nat \ {0, 1}
      /\ offset \in Nat /\ offset < Octets /\ rs_firstWord \in BOOLEAN
      /\ doubled \in Seq(GoodWord(Octets)) /\ output \in Seq(GoodWord(Octets))
  <2>1. offset \in 0 .. Octets - 1 /\ Octets \in Nat \ {0, 1}
    BY OctetSizes DEF ChainInv
  <2> QED BY <2>1 DEF ChainInv, ShiftersInv, StreamsAreGood, RShiftInv
<1>3. PICK b, d, g \in Spots : ChainIsAt(b, d, g)
  BY DEF ChainInv
<1>4. PICK h, o \in Spots : RShiftSpots(g, h, o)
  BY <1>3 DEF ChainIsAt
<1> DEFINE f == offset
           O == Octets
           start == Spot(1, 0)
<1>5. /\ Leads(O, f, doubled, h, g)
      /\ Transparent => /\ RShiftIsAt(h, o) /\ IsUpToEnd(o)
                        /\ Leads(O, 0, output, start, o)
  BY <1>4 DEF RShiftSpots
(* It is enough to know where the function is.                             *)
<1>6. ASSUME NEW h2 \in Spots, NEW o2 \in Spots, Leads(O, f, doubled', h2, g),
             Transparent => /\ RShiftIsAt(h2, o2)' /\ IsUpToEnd(o2)
                            /\ Leads(O, 0, output', start, o2)
      PROVE  ChainInv'
  <2>1. RShiftSpots(g, h2, o2)'
    <3>1. Leads(O, f, doubled, h2, g)'
      BY <1>1, <1>6, SpotsStay
    <3>2. Transparent' => /\ RShiftIsAt(h2, o2)' /\ IsUpToEnd(o2)'
                          /\ Leads(O, 0, output, start, o2)'
      <4>1. Transparent' <=> Transparent
        BY <1>1, FunctionsStay
      <4>2. IsUpToEnd(o2)' <=> IsUpToEnd(o2)
        BY <1>1, FunctionsStay
      <4>3. Leads(O, 0, output, start, o2)' <=> Leads(O, 0, output', start, o2)
        BY <1>1, SpotsStay
      <4> QED BY <1>6, <4>1, <4>2, <4>3
    <3> QED BY <3>1, <3>2 DEF RShiftSpots
  <2>2. ChainIsAt(b, d, g)'
    <3>1. \E a \in Spots : LShiftSpots(a, b)'
      BY <1>1, <1>3, SpotsAsBefore DEF ChainIsAt
    <3>2. \E c \in Spots : HalfWidthSpots(b, c, d)'
      BY <1>1, <1>3, SpotsAsBefore DEF ChainIsAt
    <3>3. \E e \in Spots : DoubleWidthSpots(d, e, g)'
      BY <1>1, <1>3, SpotsAsBefore DEF ChainIsAt
    <3> QED BY <1>6, <2>1, <3>1, <3>2, <3>3 DEF ChainIsAt
  <2> QED BY <1>1, <1>2, <1>3, <2>2 DEF ChainInv
<1>7. PICK o2 \in Spots : o2 = NextSpot(O, 0, o)
  BY <1>2, NextIsASpot
(* A word that is sent is the next one.                                    *)
<1>8. ASSUME Transparent, NEW sent, output' = Append(output, sent), IsThere(0, o),
             sent = WordAt(O, 0, o)
      PROVE  IsUpToEnd(o2) /\ Leads(O, 0, output', start, o2)
  <2>1. IsUpToEnd(o2)
    BY <1>2, <1>7, <1>8, NextIsUpToEnd
  <2>2. start \in Spots
    BY SpotsAre
  <2>3. Leads(O, 0, Append(output, sent), start, NextSpot(O, 0, o))
    BY <1>2, <1>4, <1>5, <1>8, <2>2, LeadsOn
  <2> QED BY <1>7, <1>8, <2>1, <2>3
<1>9. CASE rsState = "PKG" /\ doubled # << >>
  <2> DEFINE w == Head(doubled)
             send == IF rs_firstWord THEN Word(Blank, FALSE)
                     ELSE IF offset = 0 THEN w
                     ELSE Word(Joined(rsPrev, w.data, offset), NothingFrom(w.data, offset))
  <2>1. /\ doubled' = Tail(doubled)
        /\ output' = IF rs_firstWord THEN output ELSE Append(output, send)
        /\ rsPrev' = w.data /\ rs_firstWord' = w.last
        /\ rsState' = IF NeedsRemainder(w, send) THEN "REMAINDER" ELSE "PKG"
    BY <1>9 DEF RShift
  <2>2. PICK h2 \in Spots : h2 = NextSpot(O, f, h)
    BY <1>2, NextIsASpot
  <2>3. IsThere(f, h) /\ w = WordAt(O, f, h) /\ Leads(O, f, doubled', h2, g)
    BY <1>2, <1>3, <1>4, <1>5, <1>9, <2>1, <2>2, LeadsFrom
  <2>4. w.data = DataAt(O, f, h) /\ w.last = IsLastAt(O, f, h)
    BY <2>3, WordsAre
  <2> HIDE DEF w
  <2> DEFINE p == h.package
             x == h.place
             L == job[p]
  <2>5. /\ p \in 1 .. Len(job) /\ p \in Nat \ {0} /\ x \in Nat /\ x < L + f
        /\ L \in Nat \ {0} /\ h = Spot(p, x)
    <3>1. p \in 1 .. Len(job) /\ x < L + f
      BY <2>3 DEF IsThere
    <3>2. L \in Nat \ {0}
      BY <1>2, <3>1, OctetsAre
    <3> QED BY <3>1, <3>2, SpotsAre
  <2>6. CASE ~Transparent
    BY <1>6, <2>2, <2>3, <2>6
  <2>7. CASE Transparent
    <3>1. rs_firstWord = (x = 0) /\ RShiftIsAt(h, o)
      BY <1>5, <1>9, <2>7 DEF RShiftIsAt
    <3> DEFINE ends == x + O >= L + f
    <3>2. w.last = ends /\ h2 = IF ends THEN Spot(p + 1, 0) ELSE Spot(p, x + O)
      BY <2>2, <2>4 DEF IsLastAt, NextSpot
    <3>3. /\ Spot(p + 1, 0).place = 0 /\ Spot(p, x + O).package = p
          /\ Spot(p, x + O).place = x + O /\ Spot(p, (x + O) - O) = h
      <4>1. p + 1 \in Nat \ {0} /\ 0 \in Nat /\ x + O \in Nat
        <5> HIDE DEF p, x, L
        <5> QED BY <1>2, <2>5
      <4>2. (x + O) - O = x
        BY <1>2, <2>5
      <4>3. Spot(p, (x + O) - O) = h
        BY <2>5, <4>2
      <4> HIDE DEF p, x
      <4> QED BY <2>5, <4>1, <4>3, SpotsAre
    <3>4. CASE rs_firstWord
      <4>1. o = h /\ x = 0
        BY <1>9, <3>1, <3>4 DEF RShiftIsAt
      <4>2. /\ output' = output
            /\ rsState' = IF ends THEN "REMAINDER" ELSE "PKG"
            /\ rs_firstWord' = ends
        <5>1. output' = output
          BY <2>1, <3>4
        <5>2. send.last = FALSE
          BY <3>4 DEF Word
        <5>3. NeedsRemainder(w, send) <=> ends
          BY <3>2, <5>2 DEF NeedsRemainder
        <5>4. rs_firstWord' = ends
          BY <2>1, <3>2
        <5> HIDE DEF send, ends
        <5> QED BY <2>1, <5>1, <5>3, <5>4
      <4>3. RShiftIsAt(h2, h)'
        <5>1. CASE ends
          <6>1. rsState' = "REMAINDER" /\ rs_firstWord' = TRUE /\ h2 = Spot(p + 1, 0)
            BY <3>2, <4>2, <5>1
          <6>2. IsThere(0, h)'
            <7>1. x < L + 0
              <8> HIDE DEF p, L
              <8> QED BY <2>5, <4>1
            <7>2. IsThere(0, h)
              BY <2>5, <7>1 DEF IsThere
            <7> QED BY <1>1, <7>2, SpotsStay
          <6>3. IsLastAt(O, f, h)'
            <7>1. IsLastAt(O, f, h)
              BY <5>1 DEF IsLastAt
            <7> QED BY <1>1, <7>1, SpotsStay
          <6>4. rsPrev' = DataAt(O, f, h)'
            BY <1>1, <2>1, <2>4, SpotsStay
          <6> QED BY <1>1, <6>1, <6>2, <6>3, <6>4 DEF RShiftIsAt
        <5>2. CASE ~ends
          <6>1. rsState' = "PKG" /\ rs_firstWord' = FALSE /\ h2 = Spot(p, x + O)
            <7>1. rs_firstWord' = FALSE
              <8>1. ends = FALSE
                BY <5>2
              <8> HIDE DEF ends
              <8> QED BY <4>2, <8>1
            <7> QED BY <3>2, <4>2, <5>2, <7>1
          <6>2. h2.place >= O /\ h2.place # 0 /\ h = Spot(h2.package, h2.place - O)
            <7>1. h2.package = p /\ h2.place = x + O
              BY <3>3, <6>1
            <7>2. x + O >= O /\ x + O # 0
              BY <1>2, <2>5
            <7> QED BY <3>3, <7>1, <7>2
          <6>3. rsPrev' = DataAt(O, f, h)'
            BY <1>1, <2>1, <2>4, SpotsStay
          <6> QED BY <1>1, <6>1, <6>2, <6>3 DEF RShiftIsAt
        <5> QED BY <5>1, <5>2
      <4>4. IsUpToEnd(h) /\ Leads(O, 0, output', start, h)
        BY <1>5, <2>7, <4>1, <4>2
      <4> QED BY <1>6, <2>2, <2>3, <4>3, <4>4
    <3>5. CASE ~rs_firstWord
      <4>1. x # 0 /\ x >= O /\ o = Spot(p, x - O) /\ rsPrev = DataAt(O, f, o)
        BY <1>9, <3>1, <3>5 DEF RShiftIsAt
      <4>2. x - O \in Nat /\ (x - O) + O = x
        BY <1>2, <2>5, <4>1
      <4>3. o.package = p /\ o.place = x - O
        BY <2>5, <4>1, <4>2, SpotsAre
      <4>4. f # 0
        <5> SUFFICES ASSUME f = 0 PROVE FALSE
          OBVIOUS
        <5>1. L < O
          BY <2>5, <2>7 DEF Transparent
        <5>2. x < L
          BY <2>5
        <5> HIDE DEF x, L, p
        <5> QED BY <1>2, <2>5, <4>1, <5>1, <5>2
      <4>5. send = Word(Joined(rsPrev, w.data, f), NothingFrom(w.data, f))
        BY <3>5, <4>4
      <4> DEFINE over == x >= L
      <4>6. Joined(rsPrev, w.data, f) = DataAt(O, 0, o)
        <5>1. \A i \in 0 .. O - 1 : w.data[i] = OctetAt(f, o.package, o.place + O + i)
          <6>1. \A i \in 0 .. O - 1 : w.data[i] = OctetAt(f, p, x + i)
            BY <2>4, WordsAre
          <6>2. o.place + O = x
            BY <4>2, <4>3
          <6> QED BY <4>3, <6>1, <6>2
        <5>2. o.package \in 1 .. Len(job)
          BY <2>5, <4>3
        <5> QED BY <1>2, <4>1, <5>1, <5>2, RShiftJoins
      <4>7. NothingFrom(w.data, f) = over
        <5>1. NothingFrom(w.data, f) <=> x + f >= L + f
          BY <1>2, <2>4, <2>5, NothingIsLeft
        <5>2. x + f >= L + f <=> x >= L
          <6> HIDE DEF x, L, p
          <6> QED BY <1>2, <2>5
        <5>3. NothingFrom(w.data, f) \in BOOLEAN
          BY DEF NothingFrom
        <5> HIDE DEF x, L, p
        <5> QED BY <5>1, <5>2, <5>3
      <4>8. IsLastAt(O, 0, o) = over
        <5>1. (x - O) + O >= L + 0 <=> x >= L
          <6> HIDE DEF x, L, p
          <6> QED BY <1>2, <2>5, <4>2
        <5> QED BY <4>3, <5>1 DEF IsLastAt
      <4>9. send = WordAt(O, 0, o) /\ send.last = over
        <5> HIDE DEF send, over
        <5>1. send = WordAt(O, 0, o)
          BY <4>5, <4>6, <4>7, <4>8 DEF WordAt
        <5>2. send.last = IsLastAt(O, 0, o)
          BY <5>1, WordsAre
        <5> QED BY <4>8, <5>1, <5>2
      <4>10. IsThere(0, o)
        <5>1. x - O < L + 0
          <6> HIDE DEF x, L, p
          <6> QED BY <1>2, <2>5, <4>2
        <5> QED BY <2>5, <4>3, <5>1 DEF IsThere
      <4> HIDE DEF send
      <4>11. output' = Append(output, send)
        BY <2>1, <3>5
      <4>12. IsUpToEnd(o2) /\ Leads(O, 0, output', start, o2)
        BY <1>8, <2>7, <4>9, <4>10, <4>11
      <4>13. o2 = IF over THEN Spot(p + 1, 0) ELSE h
        <5>1. Spot(p, (x - O) + O) = h
          BY <2>5, <4>2
        <5> QED BY <1>7, <4>3, <4>8, <5>1 DEF NextSpot
      <4>14. over => ends
        <5> HIDE DEF x, L, p
        <5> QED BY <1>2, <2>5
      <4>15. rs_firstWord' = ends /\ rsState' = IF ends /\ ~over THEN "REMAINDER" ELSE "PKG"
        BY <2>1, <3>2, <4>9 DEF NeedsRemainder
      <4>16. rsPrev' = DataAt(O, f, h)'
        BY <1>1, <2>1, <2>4, SpotsStay
      <4>17. RShiftIsAt(h2, o2)'
        <5>1. CASE ends /\ ~over
          <6>1. /\ rsState' = "REMAINDER" /\ rs_firstWord' = TRUE
                /\ h2 = Spot(p + 1, 0) /\ o2 = h
            BY <3>2, <4>13, <4>15, <5>1
          <6>2. IsThere(0, h)'
            <7>1. x < L + 0
              <8> HIDE DEF x, p, L
              <8> QED BY <2>5, <5>1
            <7>2. IsThere(0, h)
              BY <2>5, <7>1 DEF IsThere
            <7> QED BY <1>1, <7>2, SpotsStay
          <6>3. IsLastAt(O, f, h)'
            <7>1. IsLastAt(O, f, h)
              BY <5>1 DEF IsLastAt
            <7> QED BY <1>1, <7>1, SpotsStay
          <6> QED BY <1>1, <4>16, <6>1, <6>2, <6>3 DEF RShiftIsAt
        <5>2. CASE over
          <6>1. rsState' = "PKG" /\ rs_firstWord' = TRUE
            BY <4>14, <4>15, <5>2
          <6>2. h2 = o2 /\ h2.place = 0
            BY <3>2, <3>3, <4>13, <4>14, <5>2
          <6> QED BY <6>1, <6>2 DEF RShiftIsAt
        <5>3. CASE ~ends
          <6>1. rsState' = "PKG" /\ rs_firstWord' = FALSE
            <7>1. ends = FALSE
              BY <5>3
            <7> HIDE DEF ends, over
            <7> QED BY <4>15, <7>1
          <6>2. h2 = Spot(p, x + O) /\ o2 = h
            <7>1. ~over
              BY <4>14, <5>3
            <7> QED BY <3>2, <4>13, <5>3, <7>1
          <6>3. h2.place >= O /\ h2.place # 0 /\ h = Spot(h2.package, h2.place - O)
            <7>1. h2.package = p /\ h2.place = x + O
              BY <3>3, <6>2
            <7>2. x + O >= O /\ x + O # 0
              BY <1>2, <2>5
            <7> QED BY <3>3, <7>1, <7>2
          <6> QED BY <1>1, <4>16, <6>1, <6>2, <6>3 DEF RShiftIsAt
        <5> QED BY <5>1, <5>2, <5>3
      <4> QED BY <1>6, <1>7, <2>2, <2>3, <4>12, <4>17
    <3> QED BY <1>2, <3>4, <3>5
  <2> QED BY <2>6, <2>7
<1>10. CASE rsState = "REMAINDER"
  <2>1. /\ rsState' = "PKG" /\ UNCHANGED <<rsPrev, rs_firstWord, doubled>>
        /\ \E top \in IF offset = 0 THEN {NoByte, rsPrev[Octets - 1]} ELSE {NoByte} :
              output' = Append(output,
                  Word([Joined(rsPrev, Blank, offset) EXCEPT ![Octets - 1] = top], TRUE))
    BY <1>10 DEF RShift
  <2>2. Leads(O, f, doubled', h, g)
    BY <1>5, <2>1
  <2>3. CASE ~Transparent
    BY <1>6, <2>2, <2>3
  <2>4. CASE Transparent
    <3> DEFINE p == o.package
               x == o.place
               L == job[p]
    <3>1. /\ rs_firstWord /\ h = Spot(p + 1, 0) /\ IsThere(0, o) /\ IsLastAt(O, f, o)
          /\ rsPrev = DataAt(O, f, o)
      BY <1>5, <1>10, <2>4 DEF RShiftIsAt
    <3>2. /\ p \in 1 .. Len(job) /\ x < L + 0 /\ x + O >= L + f
          /\ p \in Nat \ {0} /\ x \in Nat
      BY <3>1, SpotsAre DEF IsThere, IsLastAt
    <3>3. /\ L \in Nat \ {0} /\ \A y \in Nat : OctetAt(f, p, y) = NoByte <=> y >= L + f
      BY <1>2, <3>2, OctetsAre
    <3>4. \A y \in Nat : OctetAt(0, p, y) = NoByte <=> y >= L + 0
      BY <1>2, <3>2, OctetsAre
    <3>5. Joined(rsPrev, Blank, f) = DataAt(O, 0, o)
      <4>1. \A i \in 0 .. O - 1 : Blank[i] = OctetAt(f, p, x + O + i)
        <5>1. \A i \in 0 .. O - 1 : x + O + i \in Nat /\ x + O + i >= L + f
          <6> HIDE DEF x, L, p
          <6> QED BY <1>2, <3>2, <3>3
        <5>2. \A i \in 0 .. O - 1 : Blank[i] = NoByte
          BY DEF Blank
        <5> HIDE DEF x, L, p
        <5> QED BY <3>3, <5>1, <5>2
      <4> QED BY <1>2, <3>1, <3>2, <4>1, RShiftJoins
    <3>6. x + (O - 1) \in Nat /\ x + (O - 1) >= L + 0 /\ O - 1 \in 0 .. O - 1
      <4>1. f # 0 \/ L < O
        BY <2>4, <3>2 DEF Transparent
      <4> HIDE DEF x, L, p
      <4> QED BY <1>2, <3>2, <3>3, <4>1
    <3>7. DataAt(O, 0, o)[O - 1] = NoByte
      <4>1. DataAt(O, 0, o)[O - 1] = OctetAt(0, p, x + (O - 1))
        BY <3>6, WordsAre
      <4> HIDE DEF x, L, p
      <4> QED BY <3>4, <3>6, <4>1
    <3>8. ASSUME NEW top \in IF f = 0 THEN {NoByte, rsPrev[O - 1]} ELSE {NoByte}
          PROVE  top = NoByte
      <4>1. f = 0 => rsPrev[O - 1] = NoByte
        BY <3>1, <3>7
      <4> QED BY <4>1
    <3>9. [DataAt(O, 0, o) EXCEPT ![O - 1] = NoByte] = DataAt(O, 0, o)
      BY <3>7 DEF DataAt
    <3> DEFINE sent == Word(DataAt(O, 0, o), TRUE)
    <3>10. output' = Append(output, sent)
      BY <2>1, <3>5, <3>8, <3>9
    <3>11. IsLastAt(O, 0, o) = TRUE
      <4>1. x + O >= L + 0
        <5> HIDE DEF x, L, p
        <5> QED BY <1>2, <3>2, <3>3
      <4> QED BY <4>1 DEF IsLastAt
    <3>12. sent = WordAt(O, 0, o) /\ o2 = h
      BY <1>7, <3>1, <3>11 DEF WordAt, NextSpot
    <3> HIDE DEF sent
    <3>13. IsUpToEnd(o2) /\ Leads(O, 0, output', start, o2)
      BY <1>8, <2>4, <3>1, <3>10, <3>12
    <3>14. h.place = 0
      <4>1. p + 1 \in Nat \ {0} /\ 0 \in Nat
        BY <3>2
      <4> QED BY <3>1, <4>1, SpotsAre
    <3>15. rs_firstWord' = TRUE
      BY <1>2, <2>1, <3>1
    <3>16. RShiftIsAt(h, o2)'
      BY <2>1, <3>12, <3>14, <3>15 DEF RShiftIsAt
    <3> QED BY <1>6, <2>2, <3>13, <3>16
  <2> QED BY <2>3, <2>4
<1> QED BY <1>9, <1>10 DEF RShift

LEMMA InitChainInv == ShiftInit => ChainInv
<1> SUFFICES ASSUME ShiftInit PROVE ChainInv
  OBVIOUS
<1>1. /\ offset \in 0 .. Octets - 1 /\ job \in Seq(Nat \ {0}) /\ Octets \in Nat \ {0, 1}
      /\ input = AllWords
      /\ shifted = << >> /\ halves = << >> /\ doubled = << >> /\ output = << >>
      /\ ls_firstWord = TRUE /\ ls_writeRemainder = FALSE /\ hwState = "FIRST"
      /\ even = 0 /\ rsState = "PKG" /\ rs_firstWord = TRUE
  BY ShifterAssumption, OctetSizes DEF ShiftInit
<1>2. PICK at \in Spots : at = Spot(1, 0) /\ at.package = 1 /\ at.place = 0
  BY SpotsAre
<1>3. LShiftSpots(at, at)
  <2>1. Leads(Octets, 0, input, at, EndSpot)
    BY <1>1, <1>2, AllWordsLead
  <2>2. LShiftIsAt(at, at)
    BY <1>1, <1>2 DEF LShiftIsAt
  <2> QED BY <2>1, <2>2 DEF LShiftSpots
<1>4. HalfWidthSpots(at, at, at)
  BY <1>1, LeadsNowhere DEF HalfWidthSpots, HalfWidthIsAt
<1>5. DoubleWidthSpots(at, at, at)
  BY <1>1, LeadsNowhere DEF DoubleWidthSpots, DoubleWidthIsAt
<1>6. RShiftSpots(at, at, at)
  <2>1. IsUpToEnd(at)
    <3>1. 1 <= Len(job) + 1
      BY <1>1
    <3> QED BY <1>2, <3>1 DEF IsUpToEnd
  <2>2. RShiftIsAt(at, at)
    BY <1>1, <1>2 DEF RShiftIsAt
  <2>3. Leads(Octets, 0, output, Spot(1, 0), at) /\ Leads(Octets, offset, doubled, at, at)
    BY <1>1, <1>2, LeadsNowhere
  <2> QED BY <2>1, <2>2, <2>3 DEF RShiftSpots
<1>7. ChainIsAt(at, at, at)
  BY <1>3, <1>4, <1>5, <1>6 DEF ChainIsAt
<1> QED BY <1>1, <1>7 DEF ChainInv

LEMMA NothingGoesOn == ChainInv /\ UNCHANGED shiftVars => ChainInv'
<1> SUFFICES ASSUME ChainInv, UNCHANGED shiftVars PROVE ChainInv'
  OBVIOUS
<1>1. /\ offset' = offset /\ job' = job
      /\ UNCHANGED <<lsVars, input>> /\ UNCHANGED <<hwVars, shifted>>
      /\ UNCHANGED <<dwVars, halves>> /\ UNCHANGED <<rsVars, doubled, output>>
  BY DEF shiftVars
<1>2. PICK b, d, g \in Spots : ChainIsAt(b, d, g)
  BY DEF ChainInv
<1>3. ChainIsAt(b, d, g)'
  <2>1. \E a \in Spots : LShiftSpots(a, b)'
    BY <1>1, <1>2, SpotsAsBefore DEF ChainIsAt
  <2>2. \E c \in Spots : HalfWidthSpots(b, c, d)'
    BY <1>1, <1>2, SpotsAsBefore DEF ChainIsAt
  <2>3. \E e \in Spots : DoubleWidthSpots(d, e, g)'
    BY <1>1, <1>2, SpotsAsBefore DEF ChainIsAt
  <2>4. \E h, o \in Spots : RShiftSpots(g, h, o)'
    BY <1>1, <1>2, SpotsAsBefore DEF ChainIsAt
  <2> QED BY <2>1, <2>2, <2>3, <2>4 DEF ChainIsAt
<1> QED BY <1>1, <1>2, <1>3 DEF ChainInv

(* A function that satisfies the recursion of Packages is the one it       *)
(* defines.                                                                *)
IsSortedOut(g, words, n) ==
    g = [k \in 0 .. n |-> IF k = 0 THEN << << >> >> ELSE AddedTo(g[k - 1], words[k])]

LEMMA PackagesAre ==
    ASSUME NEW words, Len(words) \in Nat, NEW g, IsSortedOut(g, words, Len(words))
    PROVE  Packages(words) = g[Len(words)]
<1> DEFINE n == Len(words)
           s == CHOOSE f : f = [k \in 0 .. Len(words) |->
                    IF k = 0 THEN << << >> >> ELSE AddedTo(f[k - 1], words[k])]
<1>1. s = [k \in 0 .. n |-> IF k = 0 THEN << << >> >> ELSE AddedTo(s[k - 1], words[k])]
  BY DEF IsSortedOut
<1>2. Packages(words) = s[n]
  BY DEF Packages
<1> HIDE DEF s
<1> DEFINE Same == {k \in Nat : k <= n => s[k] = g[k]}
<1>3. 0 \in Same
  <2>1. 0 \in 0 .. n OBVIOUS
  <2>2. s[0] = << << >> >> BY <1>1, <2>1
  <2>3. g[0] = << << >> >> BY <2>1 DEF IsSortedOut
  <2> QED BY <2>2, <2>3
<1>4. ASSUME NEW k \in Nat, k \in Same, k + 1 <= n PROVE s[k + 1] = g[k + 1]
  <2>1. k + 1 \in 0 .. n /\ k + 1 # 0 /\ (k + 1) - 1 = k /\ s[k] = g[k] BY <1>4
  <2>2. s[k + 1] = AddedTo(s[k], words[k + 1])
    BY <1>1, <2>1
  <2>3. g[k + 1] = AddedTo(g[k], words[k + 1])
    BY <2>1 DEF IsSortedOut
  <2> QED BY <2>1, <2>2, <2>3
<1>5. \A k \in Nat : k \in Same => k + 1 \in Same
  BY <1>4
<1> HIDE DEF Same
<1>6. Nat \subseteq Same
  BY <1>3, <1>5, SetInduction
<1> QED BY <1>2, <1>6 DEF Same

(* How many octets the word at a spot has.                                 *)
LEMMA OctetsOfWord ==
    ASSUME job \in Seq(Nat \ {0}), NEW at \in Spots, IsThere(0, at)
    PROVE  LET room == job[at.package] - at.place IN
           KeepToLen(Keep(DataAt(Octets, 0, at))) = IF room < Octets THEN room ELSE Octets
<1> DEFINE O == Octets
           p == at.package
           x == at.place
           L == job[p]
           m == IF L - x < O THEN L - x ELSE O
           keep == Keep(DataAt(O, 0, at))
<1>1. p \in 1 .. Len(job) /\ x < L + 0 /\ x \in Nat
  BY SpotsAre DEF IsThere
<1>2. O \in Nat \ {0} /\ KeepBits \in Nat /\ KeepBits >= O
  BY ShifterAssumption
<1>3. L \in Nat \ {0} /\ \A y \in Nat : OctetAt(0, p, y) = NoByte <=> y >= L + 0
  BY <1>1, OctetsAre
<1> HIDE DEF p, x, L
<1>4. m \in 1 .. KeepBits /\ \A i \in Int : i \in 0 .. m - 1 <=> i \in 0 .. O - 1 /\ x + i < L
  BY <1>1, <1>2, <1>3
<1> HIDE DEF m
<1>5. keep = 0 .. m - 1
  <2>1. \A i \in 0 .. O - 1 : DataAt(O, 0, at)[i] = OctetAt(0, p, x + i)
    BY WordsAre DEF p, x
  <2>2. keep = {i \in 0 .. O - 1 : DataAt(O, 0, at)[i] # NoByte}
    BY DEF Keep, DataAt
  <2>3. \A i \in 0 .. O - 1 : DataAt(O, 0, at)[i] # NoByte <=> x + i < L
    <3>1. \A i \in 0 .. O - 1 : x + i \in Nat /\ (x + i < L <=> ~(x + i >= L + 0))
      BY <1>1, <1>2, <1>3
    <3> QED BY <1>3, <2>1, <3>1
  <2>4. \A i \in keep : i \in 0 .. m - 1
    BY <1>4, <2>2, <2>3
  <2>5. \A i \in 0 .. m - 1 : i \in keep
    BY <1>4, <2>2, <2>3
  <2> HIDE DEF keep
  <2> QED BY <2>4, <2>5
<1>6. \A k \in 1 .. KeepBits : 0 .. m - 1 = 0 .. k - 1 => k = m
  <2> SUFFICES ASSUME NEW k \in 1 .. KeepBits, 0 .. m - 1 = 0 .. k - 1 PROVE k = m
    OBVIOUS
  <2>1. m \in Nat \ {0} /\ k \in Nat \ {0}
    BY <1>2, <1>4
  <2>2. m - 1 \in 0 .. m - 1 /\ k - 1 \in 0 .. k - 1
    BY <2>1
  <2>3. m - 1 \in 0 .. k - 1 /\ k - 1 \in 0 .. m - 1
    BY <2>2
  <2> QED BY <2>1, <2>3
<1>7. KeepToLen(keep) = m
  <2>1. KeepToLen(keep) = CHOOSE k \in 1 .. KeepBits : keep = 0 .. k - 1
    BY DEF KeepToLen
  <2> HIDE DEF keep
  <2> QED BY <1>4, <1>5, <1>6, <2>1
<1> QED BY <1>7 DEF m, L, p, x

LEMMA FirstOctetsAre ==
    ASSUME NEW p \in Nat, NEW n \in Nat
    PROVE  /\ FirstOctets(p, n) \in Seq(Nat \X Int) /\ Len(FirstOctets(p, n)) = n
           /\ \A y \in 1 .. n : FirstOctets(p, n)[y] = <<p, y - 1>>
BY DEF FirstOctets

LEMMA MoreOctets ==
    ASSUME NEW p \in Nat, NEW x \in Nat, NEW m \in Nat
    PROVE  FirstOctets(p, x) \o [i \in 1 .. m |-> <<p, x + i - 1>>] = FirstOctets(p, x + m)
<1> DEFINE S == Nat \X Int
           s == FirstOctets(p, x)
           t == [i \in 1 .. m |-> <<p, x + i - 1>>]
           u == FirstOctets(p, x + m)
<1>1. s \in Seq(S) /\ Len(s) = x /\ \A y \in 1 .. x : s[y] = <<p, y - 1>>
  BY FirstOctetsAre
<1>2. t \in Seq(S) /\ Len(t) = m /\ \A i \in 1 .. m : t[i] = <<p, x + i - 1>>
  OBVIOUS
<1>3. u \in Seq(S) /\ Len(u) = x + m /\ \A y \in 1 .. x + m : u[y] = <<p, y - 1>>
  BY FirstOctetsAre
<1> HIDE DEF s, t, u
<1>4. /\ s \o t \in Seq(S) /\ Len(s \o t) = x + m
      /\ \A y \in 1 .. x + m : (s \o t)[y] = IF y <= x THEN s[y] ELSE t[y - x]
  BY <1>1, <1>2, ConcatProperties
<1>5. ASSUME NEW y \in 1 .. x + m PROVE (s \o t)[y] = u[y]
  <2>1. CASE y <= x
    <3>1. y \in 1 .. x
      BY <2>1
    <3> QED BY <1>1, <1>3, <1>4, <2>1, <3>1
  <2>2. CASE ~(y <= x)
    <3>1. y - x \in 1 .. m /\ x + (y - x) - 1 = y - 1
      BY <2>2
    <3>2. t[y - x] = <<p, y - 1>>
      BY <1>2, <3>1
    <3> QED BY <1>3, <1>4, <2>2, <3>2
  <2> QED BY <2>1, <2>2
<1> HIDE DEF S
<1> QED BY <1>3, <1>4, <1>5, SeqEqual DEF s, t, u

LEMMA PackagesToAre ==
    ASSUME job \in Seq(Nat \ {0}), NEW at \in Spots, at.package <= Len(job) + 1
    PROVE  /\ PackagesTo(at) \in Seq(Seq(Nat \X Int)) /\ Len(PackagesTo(at)) = at.package
           /\ \A q \in 1 .. at.package : PackagesTo(at)[q] =
                  FirstOctets(q, IF q < at.package THEN job[q] ELSE at.place)
<1>1. at.package \in Nat \ {0} /\ at.place \in Nat
  BY SpotsAre
<1>2. \A q \in 1 .. at.package : (IF q < at.package THEN job[q] ELSE at.place) \in Nat
  BY <1>1
<1>3. \A q \in 1 .. at.package :
        FirstOctets(q, IF q < at.package THEN job[q] ELSE at.place) \in Seq(Nat \X Int)
  <2> TAKE q \in 1 .. at.package
  <2>1. PICK n \in Nat : n = IF q < at.package THEN job[q] ELSE at.place
    BY <1>2
  <2>2. q \in Nat
    OBVIOUS
  <2>3. FirstOctets(q, n) \in Seq(Nat \X Int)
    BY <2>2, FirstOctetsAre
  <2> QED BY <2>1, <2>3
<1> DEFINE p == at.package
           part(q) == FirstOctets(q, IF q < p THEN job[q] ELSE at.place)
           S == Seq(Nat \X Int)
<1>4. PackagesTo(at) = [q \in 1 .. p |-> part(q)]
  BY DEF PackagesTo
<1>5. p \in Nat /\ \A q \in 1 .. p : part(q) \in S
  BY <1>1, <1>3
<1>6. /\ PackagesTo(at) \in Seq(S) /\ Len(PackagesTo(at)) = p
      /\ \A q \in 1 .. p : PackagesTo(at)[q] = part(q)
  <2> HIDE DEF p, part, S
  <2> QED BY <1>4, <1>5
<1> QED BY <1>6

(* A word more is the octets of the word more.                             *)
LEMMA AddedIs ==
    ASSUME job \in Seq(Nat \ {0}), NEW at \in Spots, IsThere(0, at)
    PROVE  AddedTo(PackagesTo(at), WordAt(Octets, 0, at)) = PackagesTo(NextSpot(Octets, 0, at))
<1> DEFINE O == Octets
           p == at.package
           x == at.place
           L == job[p]
           w == WordAt(O, 0, at)
           now == PackagesTo(at)
           m == KeepToLen(Keep(w.data))
           more == [i \in 1 .. m |-> w.data[i - 1]]
           then == [now EXCEPT ![p] = now[p] \o more]
           part(q) == FirstOctets(q, IF q < p THEN job[q] ELSE x + m)
<1>1. p \in 1 .. Len(job) /\ p \in Nat \ {0} /\ x < L + 0 /\ x \in Nat /\ p <= Len(job) + 1
  <2>1. p \in 1 .. Len(job) /\ p \in Nat \ {0} /\ x < L + 0 /\ x \in Nat
    BY SpotsAre DEF IsThere
  <2>2. p <= Len(job) + 1
    BY <2>1
  <2> QED BY <2>1, <2>2
<1>2. O \in Nat \ {0}
  BY OctetSizes
<1>3. L \in Nat \ {0} /\ \A y \in Nat : y < L => OctetAt(0, p, y) = <<p, y>>
  BY <1>1, OctetsAre
<1>4. w.data = DataAt(O, 0, at) /\ w.last = IsLastAt(O, 0, at)
  BY WordsAre
<1>5. m = IF L - x < O THEN L - x ELSE O
  BY <1>4, OctetsOfWord
<1>6. \A i \in 0 .. O - 1 : w.data[i] = OctetAt(0, p, x + i)
  BY <1>4, WordsAre
<1>7. /\ now \in Seq(Seq(Nat \X Int)) /\ Len(now) = p
      /\ \A q \in 1 .. p : now[q] = FirstOctets(q, IF q < p THEN job[q] ELSE x)
  BY <1>1, PackagesToAre
<1>8. AddedTo(now, w) = IF w.last THEN Append(then, << >>) ELSE then
  <2> HIDE DEF now, w
  <2> QED BY <1>7 DEF AddedTo
<1>9. m \in Nat /\ x + m \in Nat /\ m <= O /\ x + m <= L
  <2> HIDE DEF m, x, p, L, w
  <2> QED BY <1>1, <1>2, <1>3, <1>5
<1>10. more = [i \in 1 .. m |-> <<p, x + i - 1>>]
  <2>1. ASSUME NEW i \in 1 .. m PROVE w.data[i - 1] = <<p, x + i - 1>>
    <3> HIDE DEF m, x, p, L, w
    <3>1. i - 1 \in 0 .. O - 1 /\ x + (i - 1) \in Nat /\ x + (i - 1) < L
          /\ x + (i - 1) = x + i - 1
      BY <1>1, <1>2, <1>3, <1>9
    <3>2. w.data[i - 1] = OctetAt(0, p, x + (i - 1))
      BY <1>6, <3>1
    <3> QED BY <1>3, <3>1, <3>2
  <2> HIDE DEF m, w
  <2> QED BY <2>1
<1>11. now[p] \o more = FirstOctets(p, x + m)
  <2> HIDE DEF now, more, m, x, p
  <2>1. now[p] = FirstOctets(p, x)
    <3>1. p \in 1 .. p /\ ~(p < p)
      BY <1>1
    <3> QED BY <1>7, <3>1
  <2>2. FirstOctets(p, x) \o [i \in 1 .. m |-> <<p, x + i - 1>>] = FirstOctets(p, x + m)
    <3>1. p \in Nat /\ x \in Nat /\ m \in Nat
      BY <1>1, <1>9
    <3> QED BY ONLY <3>1, MoreOctets, Zenon
  <2> QED BY <1>10, <2>1, <2>2
<1> HIDE DEF now, more, m
<1>12. then = [q \in 1 .. p |-> part(q)]
  <2>1. now = [q \in 1 .. p |-> now[q]]
    BY <1>7
  <2>2. \A q \in 1 .. p : part(q) = IF q = p THEN now[p] \o more ELSE now[q]
    <3>1. \A q \in 1 .. p : q # p => q < p
      BY <1>1
    <3>2. ~(p < p)
      BY <1>1
    <3> HIDE DEF p, x
    <3> QED BY <1>7, <1>11, <3>1, <3>2
  <2> HIDE DEF p, part
  <2> QED BY <2>1, <2>2
<1> HIDE DEF then
<1>13. CASE IsLastAt(O, 0, at)
  <2>1. x + m = L
    <3>1. x + O >= L + 0
      BY <1>13 DEF IsLastAt
    <3> HIDE DEF x, p, L
    <3> QED BY <1>1, <1>2, <1>3, <1>5, <3>1
  <2> DEFINE next == Spot(p + 1, 0)
  <2>2. next = NextSpot(O, 0, at)
    BY <1>13 DEF NextSpot
  <2>3. next \in Spots /\ next.package = p + 1 /\ next.place = 0 /\ p + 1 \in Nat
    <3>1. p + 1 \in Nat \ {0} /\ 0 \in Nat
      BY <1>1
    <3> QED BY <3>1, SpotsAre
  <2>4. next.package <= Len(job) + 1
    BY <1>1, <2>3
  <2> HIDE DEF next
  <2>5. /\ PackagesTo(next) \in Seq(Seq(Nat \X Int)) /\ Len(PackagesTo(next)) = p + 1
        /\ \A q \in 1 .. p + 1 : PackagesTo(next)[q] =
               FirstOctets(q, IF q < p + 1 THEN job[q] ELSE 0)
    BY <2>3, <2>4, PackagesToAre
  <2>6. FirstOctets(p + 1, 0) = << >> /\ << >> \in Seq(Nat \X Int)
    BY DEF FirstOctets
  <2>7. \A q \in 1 .. p : then[q] = FirstOctets(q, job[q])
    <3>1. \A q \in 1 .. p : q < p \/ (q = p /\ ~(q < p))
      BY <1>1
    <3>2. \A q \in 1 .. p : then[q] = part(q)
      BY <1>12
    <3>3. part(p) = FirstOctets(p, L)
      BY <1>1, <2>1
    <3> HIDE DEF x
    <3> QED BY <3>1, <3>2, <3>3
  <2>8. then \in Seq(Seq(Nat \X Int)) /\ Len(then) = p
    <3>1. \A q \in 1 .. p : FirstOctets(q, job[q]) \in Seq(Nat \X Int)
      <4>1. \A q \in 1 .. p : q \in Nat /\ job[q] \in Nat
        BY <1>1
      <4> QED BY <4>1, FirstOctetsAre
    <3>2. then = [q \in 1 .. p |-> FirstOctets(q, job[q])]
      BY <1>12, <2>7
    <3> HIDE DEF p
    <3> QED BY <1>1, <3>1, <3>2
  <2> DEFINE got == Append(then, << >>)
  <2>9. /\ got \in Seq(Seq(Nat \X Int)) /\ Len(got) = p + 1
        /\ \A q \in 1 .. p : got[q] = then[q]
        /\ got[p + 1] = << >>
    <3> DEFINE S == Seq(Nat \X Int)
    <3>1. << >> \in S
      BY <2>6
    <3> HIDE DEF S, p
    <3> QED BY <2>8, <3>1, AppendProperties
  <2> HIDE DEF got
  <2>10. \A q \in 1 .. p + 1 : got[q] = PackagesTo(next)[q]
    <3> TAKE q \in 1 .. p + 1
    <3>1. CASE q = p + 1
      <4>1. ~(p + 1 < p + 1) /\ p + 1 \in 1 .. p + 1
        BY <1>1
      <4>2. PackagesTo(next)[p + 1] = FirstOctets(p + 1, 0)
        BY <2>5, <4>1
      <4> QED BY <2>6, <2>9, <3>1, <4>2
    <3>2. CASE q # p + 1
      <4>1. q \in 1 .. p /\ q < p + 1
        <5>1. p \in Nat /\ q \in 1 .. p + 1 /\ q # p + 1
          BY <1>1, <3>2
        <5> HIDE DEF p
        <5> QED BY ONLY <5>1
      <4> QED BY <2>5, <2>7, <2>9, <4>1
    <3> QED BY <3>1, <3>2
  <2>11. got = PackagesTo(next)
    <3> DEFINE S == Seq(Nat \X Int)
    <3> HIDE DEF S
    <3> QED BY <2>5, <2>9, <2>10, SeqEqual DEF S
  <2> QED BY <1>4, <1>8, <1>13, <2>2, <2>11 DEF got, now
<1>14. CASE ~IsLastAt(O, 0, at)
  <2>1. x + m = x + O
    <3>1. ~(x + O >= L + 0)
      BY <1>14 DEF IsLastAt
    <3> HIDE DEF x, p, L
    <3> QED BY <1>1, <1>2, <1>3, <1>5, <3>1
  <2> DEFINE next == Spot(p, x + O)
  <2>2. next = NextSpot(O, 0, at)
    BY <1>14 DEF NextSpot
  <2>3. next.package = p /\ next.place = x + O
    <3>1. x + O \in Nat
      BY <1>1, <1>2
    <3> QED BY <1>1, <3>1, SpotsAre
  <2> HIDE DEF next
  <2>4. then = PackagesTo(next)
    BY <1>12, <2>1, <2>3 DEF PackagesTo
  <2> QED BY <1>4, <1>8, <1>14, <2>2, <2>4 DEF now
<1> QED BY <1>13, <1>14

(* The words up to a spot make up the packages up to it.                   *)
LEMMA WordsMakePackages ==
    ASSUME job \in Seq(Nat \ {0}), NEW words, Len(words) \in Nat, NEW to \in Spots,
           Leads(Octets, 0, words, Spot(1, 0), to)
    PROVE  Packages(words) = PackagesTo(to)
<1>1. PICK g \in [1 .. Len(words) + 1 -> Spots] :
          g[1] = Spot(1, 0) /\ g[Len(words) + 1] = to /\ Fills(Octets, 0, words, g)
  BY DEF Leads
<1> DEFINE n == Len(words)
           h == [k \in 0 .. n |-> PackagesTo(g[k + 1])]
<1>2. ASSUME NEW k \in 0 .. n
      PROVE  h[k] = IF k = 0 THEN << << >> >> ELSE AddedTo(h[k - 1], words[k])
  <2>1. CASE k = 0
    <3>1. h[k] = PackagesTo(Spot(1, 0))
      BY <1>1, <2>1
    <3>2. Spot(1, 0).package = 1 /\ Spot(1, 0).place = 0
      BY SpotsAre
    <3>3. PackagesTo(Spot(1, 0)) = [q \in 1 .. 1 |-> FirstOctets(q, 0)]
      BY <3>2 DEF PackagesTo
    <3>4. \A q : FirstOctets(q, 0) = << >>
      BY DEF FirstOctets
    <3> QED BY <2>1, <3>1, <3>3, <3>4
  <2>2. CASE k # 0
    <3>1. /\ k \in 1 .. n /\ k - 1 \in 0 .. n /\ (k - 1) + 1 = k
          /\ k \in 1 .. n + 1 /\ k + 1 \in 1 .. n + 1
      BY <2>2
    <3>2. PICK at \in Spots : at = g[k]
      BY <1>1, <3>1
    <3>3. IsThere(0, at) /\ words[k] = WordAt(Octets, 0, at)
          /\ g[k + 1] = NextSpot(Octets, 0, at)
      BY <1>1, <3>1, <3>2 DEF Fills
    <3>4. h[k] = PackagesTo(NextSpot(Octets, 0, at))
      BY <3>3
    <3>5. h[k - 1] = PackagesTo(at)
      BY <3>1, <3>2
    <3> HIDE DEF h
    <3> QED BY <2>2, <3>3, <3>4, <3>5, AddedIs
  <2> QED BY <2>1, <2>2
<1>3. IsSortedOut(h, words, n)
  <2>1. h = [k \in 0 .. n |-> h[k]]
    OBVIOUS
  <2> HIDE DEF h
  <2> QED BY <1>2, <2>1 DEF IsSortedOut
<1>4. h[n] = PackagesTo(to)
  BY <1>1
<1> HIDE DEF h
<1> QED BY <1>3, <1>4, PackagesAre

LEMMA ChainMeans == ShiftersInv /\ ChainInv => BytesComeThrough
<1> SUFFICES ASSUME ShiftersInv, ChainInv, Transparent
             PROVE  LET got == Packages(output)  sent == Packages(AllWords)  n == Len(got) IN
                    /\ n <= Len(sent) /\ Front(got) = SubSeq(sent, 1, n - 1)
                    /\ IsPrefix(got[n], sent[n])
  BY DEF BytesComeThrough
<1> DEFINE S == Seq(Nat \X Int)
           J == Len(job)
<1>1. job \in Seq(Nat \ {0}) /\ J \in Nat
  BY DEF ChainInv
<1>2. PICK b, d, g \in Spots : ChainIsAt(b, d, g)
  BY DEF ChainInv
<1>3. PICK h, o \in Spots : RShiftSpots(g, h, o)
  BY <1>2 DEF ChainIsAt
<1>4. IsUpToEnd(o) /\ Leads(Octets, 0, output, Spot(1, 0), o)
  BY <1>3 DEF RShiftSpots
<1> DEFINE p == o.package
           x == o.place
<1>5. p \in Nat \ {0} /\ x \in Nat
  BY SpotsAre
<1>6. \/ p = J + 1 /\ x = 0
      \/ p <= J /\ x <= job[p] /\ job[p] \in Nat
  <2>1. CASE p \in 1 .. J /\ x < job[p] + 0
    <3>1. job[p] \in Nat
      BY <1>1, <2>1
    <3> QED BY <1>5, <2>1, <3>1
  <2>2. CASE x = 0 /\ p <= J + 1
    <3>1. p <= J => job[p] \in Nat
      BY <1>1, <1>5
    <3> QED BY <1>1, <1>5, <2>2, <3>1
  <2> QED BY <1>4, <2>1, <2>2 DEF IsUpToEnd, IsThere
<1>7. p <= J + 1
  BY <1>1, <1>5, <1>6
<1> DEFINE got == PackagesTo(o)
           sent == PackagesTo(EndSpot)
<1>8. Packages(output) = got
  <2>1. Len(output) \in Nat
    BY DEF ShiftersInv, StreamsAreGood
  <2> QED BY <1>1, <1>4, <2>1, WordsMakePackages
<1>9. EndSpot \in Spots /\ EndSpot.package = J + 1 /\ EndSpot.place = 0
  <2>1. J + 1 \in Nat \ {0} /\ 0 \in Nat
    BY <1>1
  <2> QED BY <2>1, SpotsAre DEF EndSpot
<1>10. Packages(AllWords) = sent
  <2>1. AllWords \in Seq(GoodWord(Octets))
    BY <1>1, AllWordsAreGood
  <2>2. Len(AllWords) \in Nat
    BY <2>1
  <2> QED BY <1>1, <1>9, <2>2, AllWordsLead, WordsMakePackages
<1>11. /\ got \in Seq(S) /\ Len(got) = p
       /\ \A q \in 1 .. p : got[q] = FirstOctets(q, IF q < p THEN job[q] ELSE x)
  BY <1>1, <1>7, PackagesToAre
<1>12. /\ sent \in Seq(S) /\ Len(sent) = J + 1
       /\ \A q \in 1 .. J + 1 : sent[q] = FirstOctets(q, IF q < J + 1 THEN job[q] ELSE 0)
  <2>1. EndSpot.package <= J + 1
    BY <1>1, <1>9
  <2> QED BY <1>1, <1>9, <2>1, PackagesToAre
<1> HIDE DEF got, sent, p, x, J
<1>13. \A q \in 1 .. p - 1 : got[q] = sent[q]
  <2> TAKE q \in 1 .. p - 1
  <2>1. q \in 1 .. p /\ q < p /\ q \in 1 .. J + 1 /\ q < J + 1
    BY <1>1, <1>5, <1>7
  <2> QED BY <1>11, <1>12, <2>1
<1>14. SubSeq(got, 1, p - 1) = SubSeq(sent, 1, p - 1)
  <2> HIDE DEF S
  <2> DEFINE s == SubSeq(got, 1, p - 1)
             t == SubSeq(sent, 1, p - 1)
  <2>1. \A q \in 1 .. p - 1 : got[q] \in S /\ sent[q] \in S
    <3>1. \A q \in 1 .. p - 1 : q \in 1 .. Len(got) /\ q \in 1 .. Len(sent)
      BY <1>1, <1>5, <1>7, <1>11, <1>12
    <3> QED BY <1>11, <1>12, <3>1, ElementOfSeq
  <2>2. 1 \in Int /\ p - 1 \in Int /\ \A q \in 1 .. (p - 1) - 1 + 1 : q \in 1 .. p - 1 /\ 1 + q - 1 = q
    BY <1>5
  <2>3. /\ s \in Seq(S) /\ Len(s) = (IF 1 <= p - 1 THEN (p - 1) - 1 + 1 ELSE 0)
        /\ \A q \in 1 .. (p - 1) - 1 + 1 : s[q] = got[1 + q - 1]
    BY <2>1, <2>2, SubSeqProperties
  <2>4. /\ t \in Seq(S) /\ Len(t) = (IF 1 <= p - 1 THEN (p - 1) - 1 + 1 ELSE 0)
        /\ \A q \in 1 .. (p - 1) - 1 + 1 : t[q] = sent[1 + q - 1]
    BY <2>1, <2>2, SubSeqProperties
  <2>5. \A q \in 1 .. Len(s) : q \in 1 .. (p - 1) - 1 + 1
    BY <1>5, <2>3
  <2>6. \A q \in 1 .. Len(s) : s[q] = t[q]
    BY <1>13, <2>2, <2>3, <2>4, <2>5
  <2>7. Len(s) = Len(t)
    BY <2>3, <2>4
  <2> HIDE DEF s, t
  <2> QED BY <2>3, <2>4, <2>6, <2>7, SeqEqual DEF s, t
<1>15. IsPrefix(got[p], sent[p])
  <2>1. p \in 1 .. p /\ ~(p < p) /\ p \in Nat /\ p \in 1 .. J + 1
    BY <1>1, <1>5, <1>7
  <2>2. got[p] = FirstOctets(p, x)
    BY <1>11, <2>1
  <2>3. PICK y \in Nat : sent[p] = FirstOctets(p, y) /\ x <= y
    <3>1. CASE p = J + 1 /\ x = 0
      <4>1. sent[p] = FirstOctets(p, 0)
        BY <1>1, <1>12, <2>1, <3>1
      <4> QED BY <3>1, <4>1
    <3>2. CASE p <= J /\ x <= job[p] /\ job[p] \in Nat
      <4>1. p < J + 1
        BY <1>1, <2>1, <3>2
      <4> QED BY <1>12, <2>1, <3>2, <4>1
    <3> QED BY <1>6, <3>1, <3>2
  <2> DEFINE s == FirstOctets(p, x)
             t == FirstOctets(p, y)
  <2>4. /\ s \in Seq(Nat \X Int) /\ Len(s) = x
        /\ \A k \in 1 .. x : s[k] = <<p, k - 1>>
    BY <1>5, <2>1, FirstOctetsAre
  <2>5. /\ t \in Seq(Nat \X Int) /\ Len(t) = y
        /\ \A k \in 1 .. y : t[k] = <<p, k - 1>>
    BY <2>1, FirstOctetsAre
  <2> HIDE DEF s, t
  <2>6. \A k \in 1 .. x : k \in 1 .. y
    BY <1>5, <2>3
  <2>7. Begins(s, t)
    BY <2>3, <2>4, <2>5, <2>6 DEF Begins
  <2>8. IsPrefix(s, t)
    BY <2>4, <2>5, <2>7, BeginsIsPrefix
  <2> QED BY <2>2, <2>3, <2>8 DEF s, t
<1>16. Front(got) = SubSeq(sent, 1, p - 1)
  BY <1>11, <1>14 DEF Front
<1> QED BY <1>7, <1>8, <1>10, <1>11, <1>12, <1>15, <1>16

(* Whatever packages are sent, with whichever offset, and however the      *)
(* functions take turns, what the chain gives back is a beginning of what  *)
(* went in: no octet is lost, made up, or put into another place or        *)
(* another package.  Of offset 0 this is claimed of packages of less than  *)
(* a word only, the rest being what rshiftWordByOctet does not do then.    *)

(* Whatever packages are sent, with whichever offset, and however the      *)
(* functions take turns, what the chain gives back is a beginning of what  *)
(* went in: no octet is lost, made up, or put into another place or        *)
(* another package.  Of offset 0 this is claimed of packages of less than  *)
(* a word only, the rest being what rshiftWordByOctet does not do then.    *)

(* Whatever packages are sent, with whichever offset, and however the      *)
(* functions take turns, what the chain gives back is a beginning of what  *)
(* went in: no octet is lost, made up, or put into another place or        *)
(* another package.  With offset 0 this is said of packages of less than a *)
(* word, as in BytesComeThrough.                                           *)
THEOREM WhatGoesInComesOut == ShiftSpec => []BytesComeThrough
<1>1. ShiftInit => ShiftersInv /\ ChainInv
  BY InitShiftersInv, InitChainInv
<1>2. ShiftersInv /\ ChainInv /\ [ShiftNext]_shiftVars => (ShiftersInv /\ ChainInv)'
  <2> SUFFICES ASSUME ShiftersInv, ChainInv, [ShiftNext]_shiftVars
               PROVE  ShiftersInv' /\ ChainInv'
    OBVIOUS
  <2>1. ShiftersInv'
    BY LShiftKeeps, ToHalfWidthKeeps, ToDoubleWidthKeeps, RShiftKeeps, NothingShifts
    DEF ShiftNext
  <2>2. ChainInv'
    BY LShiftGoesOn, HalfWidthGoesOn, DoubleWidthGoesOn, RShiftGoesOn, NothingGoesOn
    DEF ShiftNext
  <2> QED BY <2>1, <2>2
<1>3. ShiftersInv /\ ChainInv => BytesComeThrough
  BY ChainMeans
<1> QED BY <1>1, <1>2, <1>3, PTL DEF ShiftSpec
=============================================================================
