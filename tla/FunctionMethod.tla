---------------------------- MODULE FunctionMethod ----------------------------
(***************************************************************************)
(* The kernel of hls/function_method: cm_sum, cm_sum_squares and           *)
(* cm_sum_products, each passing the items on to the next, and             *)
(* cm_write_sums, which collects their lines of sums.  A write to a full   *)
(* stream blocks its process, so a step is what an invocation does up to   *)
(* the write it may have to wait for: an item that was read is held until  *)
(* it can be passed on, a sum that is complete until it can be written.    *)
(* The processes interleave freely.                                        *)
(*                                                                         *)
(*   s_axis_data -> sum -> data_1 -> squares -> data_2 -> products         *)
(*                   | sums            | sumsS               | sumsP       *)
(*                   +----------> cm_write_sums <------------+             *)
(*                                                                         *)
(* A sum is the lanes it multiplies and the items it has taken, in order.  *)
(***************************************************************************)
EXTENDS Integers, SequencesExt

CONSTANTS
    N,                  \* words of a line, 16
    regSampleSize,      \* items of a batch
    Items,              \* items that are sent
    DataDepth, Data2Depth, SumsDepth    \* depths of the streams

(* The widths are powers of 2, so that N is even.  (The index of a product *)
(* is written with N for the 16 of cm_sum_products.hpp:65: any other width *)
(* is that of a kernel with its own number there.)                         *)
ASSUME FunctionAssumption ==
    /\ N \in Nat \ {0} /\ N % 2 = 0 /\ Items \in Nat
    /\ {regSampleSize, DataDepth, Data2Depth, SumsDepth} \subseteq Nat \ {0}

VARIABLES
    s_axis_data, data_1, data_2, sums, sumsS, sumsP, m_axis_write_data,
    lineData, lineDataS,    \* what cm_sum, cm_sum_squares read and did not pass on
    currentSum, currentSumS,                        \* of all lanes alike
    currentSumP, sampleCounter, productCounter, state,  \* cm_sum_products
    lines_i                                         \* cm_write_sums: i

functionVars == <<s_axis_data, data_1, data_2, sums, sumsS, sumsP, m_axis_write_data,
          lineData, lineDataS, currentSum, currentSumS, currentSumP,
          sampleCounter, productCounter, state, lines_i>>

noProd == (N * (N - 1)) \div 2
M      == noProd % N
Words  == 0 .. N - 1

Index(a, b) == a * N - (a * (a + 1)) \div 2 + b - a - 1
LanesAt(k)  == CHOOSE p \in Words \X Words : p[1] < p[2] /\ Index(p[1], p[2]) = k
Sum(lanes, items) == [of |-> lanes, items |-> items]

(* What no bit of keep is set for.                                         *)
Undefined == Sum(<< >>, << >>)

FunctionInit ==
    /\ s_axis_data = [n \in 1 .. Items |-> n] /\ m_axis_write_data = << >>
    /\ data_1 = << >> /\ data_2 = << >> /\ sums = << >> /\ sumsS = << >> /\ sumsP = << >>
    /\ lineData = << >> /\ lineDataS = << >> /\ currentSum = << >> /\ currentSumS = << >>
    /\ currentSumP = [k \in 0 .. noProd - 1 |-> Sum(LanesAt(k), << >>)]
    /\ sampleCounter = 0 /\ productCounter = 0 /\ state = "COMPUTE" /\ lines_i = 0
-----------------------------------------------------------------------------
(* cm_sum and cm_sum_squares differ in what they add up.  The counter of a *)
(* batch's samples is the length of the sum.                               *)
ReadLine(dataIn, line, current) ==
    /\ line = << >> /\ Len(current) < regSampleSize /\ dataIn # << >>
    /\ line' = <<Head(dataIn)>> /\ dataIn' = Tail(dataIn)

PassOn(line, dataOut, depth, current) ==
    /\ line # << >> /\ Len(dataOut) < depth
    /\ dataOut' = Append(dataOut, Head(line)) /\ line' = << >>
    /\ current' = Append(current, Head(line))

WriteSum(current, sumOut, lanes) ==
    /\ Len(current) = regSampleSize /\ Len(sumOut) < SumsDepth
    /\ sumOut' = Append(sumOut,
          [data |-> [w \in Words |-> Sum(lanes[w], current)], last |-> FALSE])
    /\ current' = << >>

SumLanes    == [w \in Words |-> <<w>>]
SquareLanes == [w \in Words |-> <<w, w>>]

CmSum ==
    /\ \/ ReadLine(s_axis_data, lineData, currentSum) /\ UNCHANGED <<data_1, sums, currentSum>>
       \/ PassOn(lineData, data_1, DataDepth, currentSum) /\ UNCHANGED <<s_axis_data, sums>>
       \/ WriteSum(currentSum, sums, SumLanes) /\ UNCHANGED <<s_axis_data, lineData, data_1>>
    /\ UNCHANGED <<data_2, sumsS, sumsP, m_axis_write_data, lineDataS, currentSumS,
                   currentSumP, sampleCounter, productCounter, state, lines_i>>

CmSumSquares ==
    /\ \/ ReadLine(data_1, lineDataS, currentSumS) /\ UNCHANGED <<data_2, sumsS, currentSumS>>
       \/ PassOn(lineDataS, data_2, Data2Depth, currentSumS) /\ UNCHANGED <<data_1, sumsS>>
       \/ WriteSum(currentSumS, sumsS, SquareLanes) /\ UNCHANGED <<data_1, lineDataS, data_2>>
    /\ UNCHANGED <<s_axis_data, sums, sumsP, m_axis_write_data, lineData, currentSum,
                   currentSumP, sampleCounter, productCounter, state, lines_i>>

ComputeProducts ==
    /\ state = "COMPUTE" /\ data_2 # << >>
    /\ data_2' = Tail(data_2)
    /\ currentSumP' = [k \in DOMAIN currentSumP |->
                          [currentSumP[k] EXCEPT !.items = Append(@, Head(data_2))]]
    /\ LET batch == sampleCounter + 1 = regSampleSize IN
       /\ sampleCounter' = IF batch THEN 0 ELSE sampleCounter + 1
       /\ state' = IF batch THEN "WRITE" ELSE "COMPUTE"
    /\ UNCHANGED <<sumsP, productCounter>>

(* The last line has M sums.  REINIT is left by nothing.                   *)
(* (Operators named "Bug..." are deliberate slips that model checking has  *)
(* to catch when they stand in for the operator after them.)               *)
FullLine == productCounter + N < noProd
BugComputeAgain == "COMPUTE"
AfterWrite == "REINIT"
WriteProducts ==
    LET n == IF FullLine THEN N ELSE M IN
    /\ state = "WRITE" /\ Len(sumsP) < SumsDepth
    /\ sumsP' = Append(sumsP,
          [data |-> [w \in Words |-> IF w < n THEN currentSumP[productCounter + w]
                                     ELSE Undefined],
           last |-> ~FullLine])
    /\ productCounter' = IF FullLine THEN productCounter + N ELSE 0
    /\ state' = IF FullLine THEN state ELSE AfterWrite
    /\ UNCHANGED <<data_2, currentSumP, sampleCounter>>

CmSumProducts ==
    /\ ComputeProducts \/ WriteProducts
    /\ UNCHANGED <<s_axis_data, data_1, sums, sumsS, m_axis_write_data, lineData, lineDataS,
                   currentSum, currentSumS, lines_i>>

(* A line of sums, then one of squares, and from then on only products:    *)
(* i goes up and never comes back.                                         *)
BugProductsTooEarly == lines_i >= 1
OnlyProducts == lines_i > 1
TakeLine(stream) ==
    /\ stream # << >>
    /\ stream' = Tail(stream)
    /\ m_axis_write_data' = Append(m_axis_write_data, Head(stream))
    /\ lines_i' = lines_i + 1
CmWriteSums ==
    /\ \/ lines_i = 0 /\ TakeLine(sums) /\ UNCHANGED <<sumsS, sumsP>>
       \/ lines_i = 1 /\ TakeLine(sumsS) /\ UNCHANGED <<sums, sumsP>>
       \/ OnlyProducts /\ TakeLine(sumsP) /\ UNCHANGED <<sums, sumsS>>
    /\ UNCHANGED <<s_axis_data, data_1, data_2, lineData, lineDataS, currentSum, currentSumS,
                   currentSumP, sampleCounter, productCounter, state>>

FunctionNext == CmSum \/ CmSumSquares \/ CmSumProducts \/ CmWriteSums
FunctionSpec == FunctionInit /\ [][FunctionNext]_functionVars
-----------------------------------------------------------------------------
(* The lines of the first batch: sums, squares, products in the order of   *)
(* their closed-form index, the last line padded.                          *)
FirstBatch == [n \in 1 .. regSampleSize |-> n]
Lines ==
    LET products == (noProd + N - 1) \div N IN
    <<[data |-> [w \in Words |-> Sum(<<w>>, FirstBatch)], last |-> FALSE],
      [data |-> [w \in Words |-> Sum(<<w, w>>, FirstBatch)], last |-> FALSE]>>
    \o [l \in 1 .. products |->
          [data |-> [w \in Words |-> LET k == (l - 1) * N + w IN
                       IF k < noProd THEN Sum(LanesAt(k), FirstBatch) ELSE Undefined],
           last |-> l = products]]

(* Whatever the order of the processes and the items behind the batch,     *)
(* what is written is the first batch: its sums before its squares before  *)
(* its products, and nothing else ever.                                    *)
OneBatchInOrder == IsPrefix(m_axis_write_data, Lines)

(* The kernel takes no more items behind its batch than its two streams of *)
(* data hold and one in each of the processes that wait to pass one on     *)
(* (cm_sum_products.hpp:132: REINIT is never left).                        *)
TakesOneBatch ==
    Items - Len(s_axis_data) <= regSampleSize + DataDepth + Data2Depth + 2
=============================================================================
