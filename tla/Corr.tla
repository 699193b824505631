-------------------------------- MODULE Corr --------------------------------
(***************************************************************************)
(* The process CORR of hls/class_method/correlation.hpp.  It accumulates   *)
(* the sums of a batch of items and then streams them out, N sums of       *)
(* elements, N sums of squares and P sums of products, zeroing each as it  *)
(* is read.  One action is one invocation of accumulate(), a pipeline that *)
(* starts a new invocation whenever the previous one has its operands;     *)
(* dst.write blocks an invocation while the stream is full.                *)
(***************************************************************************)
EXTENDS CorrParameters, Sequences

VARIABLES
    src,                \* stream of items, with their last flag
    dst,                \* stream of sums, with their last flag
    samples_number,     \* shared with COEFF, written here
    state, top_result, idx_s, idx_sq, output_index, samples_counter,
    last, write,
    sums_elements, sums_squares, sums_products

corrState == <<state, top_result, idx_s, idx_sq, output_index,
               samples_counter, last, write,
               sums_elements, sums_squares, sums_products>>
vars == <<src, dst, samples_number, corrState>>

InputFlit == [last : BOOLEAN, val : Items]
SumFlit   == [last : BOOLEAN, val : Words]

(* Types of the variables, with the range each index really takes. *)
CorrTypeOK ==
    /\ src \in Seq(InputFlit)
    /\ dst \in Seq(SumFlit)
    /\ samples_number \in Counts /\ samples_counter \in Counts
    /\ state \in {"COMPUTE", "READOUT_S", "READOUT_SQ", "READOUT_P"}
    /\ top_result \in Words
    /\ idx_s \in Lanes /\ idx_sq \in Lanes /\ output_index \in Pairs
    /\ last \in BOOLEAN /\ write \in BOOLEAN
    /\ sums_elements \in [Lanes -> Words]
    /\ sums_squares \in [Lanes -> Words]
    /\ sums_products \in [Pairs -> Words]

CorrInit ==
    /\ samples_number = 0
    /\ state = "COMPUTE"
    /\ top_result = 0
    /\ idx_s = 0 /\ idx_sq = 0 /\ output_index = 0 /\ samples_counter = 0
    /\ last = FALSE /\ write = FALSE
    /\ sums_elements = [i \in Lanes |-> 0]
    /\ sums_squares = [i \in Lanes |-> 0]
    /\ sums_products = [i \in Pairs |-> 0]

Init == src = << >> /\ dst = << >> /\ CorrInit
-----------------------------------------------------------------------------
(* An operator named "Bug..." is a deliberate slip that model checking has *)
(* to catch when it stands in for the operator after it; the model itself  *)
(* uses none.  Here: a write that does not wait for room loses the sum.    *)
BugLossyFlush ==
    dst' = IF write /\ Len(dst) < Depth
           THEN Append(dst, [last |-> last, val |-> top_result]) ELSE dst

(* Every invocation first writes out the sum read by the previous one. *)
Flush ==
    /\ write => Len(dst) < Depth
    /\ dst' = IF write THEN Append(dst, [last |-> last, val |-> top_result])
                       ELSE dst

(* COMPUTE with an item: add it to all the sums; its last flag closes the  *)
(* batch.                                                                  *)
ComputeItem ==
    /\ state = "COMPUTE" /\ src # << >>
    /\ Flush
    /\ LET x == Head(src).val IN
       /\ sums_elements' = [i \in Lanes |-> (sums_elements[i] + x[i]) % W]
       /\ sums_squares'  = [i \in Lanes |-> (sums_squares[i] + Square(x, i)) % W]
       /\ sums_products' = [i \in Pairs |-> (sums_products[i] + Product(x, i)) % W]
    /\ src' = Tail(src)
    /\ samples_counter' = (samples_counter + 1) % U
    /\ IF Head(src).last
       THEN samples_number' = samples_counter' /\ state' = "READOUT_S"
       ELSE UNCHANGED <<samples_number, state>>
    /\ write' = FALSE /\ last' = FALSE
    /\ UNCHANGED <<top_result, idx_s, idx_sq, output_index>>

(* COMPUTE with nothing to read. *)
ComputeIdle ==
    /\ state = "COMPUTE" /\ src = << >>
    /\ Flush
    /\ write' = FALSE /\ last' = FALSE
    /\ UNCHANGED <<src, samples_number, state, top_result, idx_s, idx_sq,
                   output_index, samples_counter,
                   sums_elements, sums_squares, sums_products>>

(* read_accumulator() leaves the accumulator it reads at zero. *)
BugKeepAccumulator(sums, i) == sums
ReadAccumulator(sums, i) == [sums EXCEPT ![i] = 0]

(* The index of an array of n accumulators after one is read. *)
BugNoWrap(i, n) == i + 1
Advance(i, n) == IF i + 1 = n THEN 0 ELSE i + 1

(* The state after entry i of n is read. *)
BugSwitchTooLate(i, n, nextState) == IF i = n THEN nextState ELSE state
StateAfter(i, n, nextState) == IF i + 1 = n THEN nextState ELSE state

ReadoutS ==
    /\ state = "READOUT_S"
    /\ Flush
    /\ top_result' = sums_elements[idx_s]
    /\ sums_elements' = ReadAccumulator(sums_elements, idx_s)
    /\ write' = TRUE
    /\ idx_s' = Advance(idx_s, N)
    /\ state' = StateAfter(idx_s, N, "READOUT_SQ")
    /\ UNCHANGED <<src, samples_number, idx_sq, output_index, samples_counter,
                   last, sums_squares, sums_products>>

ReadoutSQ ==
    /\ state = "READOUT_SQ"
    /\ Flush
    /\ top_result' = sums_squares[idx_sq]
    /\ sums_squares' = ReadAccumulator(sums_squares, idx_sq)
    /\ write' = TRUE
    /\ idx_sq' = Advance(idx_sq, N)
    /\ state' = StateAfter(idx_sq, N, "READOUT_P")
    /\ UNCHANGED <<src, samples_number, idx_s, output_index, samples_counter,
                   last, sums_elements, sums_products>>

(* The read-out of products is over when process(false) returns true. *)
BugOneProductShort == output_index + 2 = P
FinalProduct == output_index + 1 = P

(* After the final product the batch's sample count is dropped. *)
ReadoutP ==
    /\ state = "READOUT_P"
    /\ Flush
    /\ top_result' = sums_products[output_index]
    /\ sums_products' = ReadAccumulator(sums_products, output_index)
    /\ write' = TRUE
    /\ last' = FinalProduct
    /\ output_index' = Advance(output_index, P)
    /\ IF FinalProduct
       THEN samples_counter' = 0 /\ samples_number' = 0 /\ state' = "COMPUTE"
       ELSE UNCHANGED <<samples_counter, samples_number, state>>
    /\ UNCHANGED <<src, idx_s, idx_sq, sums_elements, sums_squares>>

Accumulate == ComputeItem \/ ComputeIdle \/ ReadoutS \/ ReadoutSQ \/ ReadoutP
-----------------------------------------------------------------------------
(* The neighbours of CORR in correlation_top: convert_data_in writes items *)
(* and COEFF reads sums.                                                   *)
Offer(f) ==
    /\ Len(src) < Depth
    /\ src' = Append(src, f)
    /\ UNCHANGED <<dst, samples_number, corrState>>

Collect ==
    /\ dst # << >>
    /\ dst' = Tail(dst)
    /\ UNCHANGED <<src, samples_number, corrState>>

Next == Accumulate \/ Collect \/ \E f \in InputFlit : Offer(f)

Spec == Init /\ [][Next]_vars

FairSpec == Spec /\ WF_vars(Accumulate) /\ WF_vars(Collect)
=============================================================================
