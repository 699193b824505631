-------------------------------- MODULE Kernel --------------------------------
(***************************************************************************)
(* The kernel design_user_hls_c0_0 of hls/class_method/correlation.cpp:    *)
(* four free-running processes, convert_data_in, CORR, COEFF and           *)
(* convert_data_out, joined by bounded streams, and the variable samples   *)
(* that CORR writes and COEFF reads.  The dataflow region sets no order    *)
(* between invocations of different processes, so they interleave freely.  *)
(***************************************************************************)
EXTENDS CorrParameters, Sequences

CONSTANTS
    Sizes,          \* values the host may put in the register numberItems
    MaxBatches      \* bound: the host sends so many batches

ASSUME KernelAssumption == Sizes \subseteq Nat \ {0} /\ MaxBatches \in Nat

VARIABLES
    numberItems,                                    \* AXI-lite register
    axis_host_sink, data_source, sums, result_values, axis_host_src,
    samples,
    valid_read, counter_read, y,                    \* convert_data_in
    valid_write, x,                                 \* convert_data_out
    corr_state, corr_last, corr_write,              \* CORR
    top_result, idx_s, idx_sq, output_index, samples_counter,
    sums_elements, sums_squares, sums_products,
    coeff_state, coeff_last, coeff_write,           \* COEFF
    counter, counter_rd, row, col, index,
    mem_e, mem_sq, mem_p, coeff, coeff_value,
    sent, received                                  \* what the host has done

CORR == INSTANCE Corr WITH
    src <- data_source, dst <- sums, samples_number <- samples,
    state <- corr_state, last <- corr_last, write <- corr_write

COEFF == INSTANCE Coeff WITH
    src <- sums, dst <- result_values, samples_number <- samples,
    state <- coeff_state, last <- coeff_last, write <- coeff_write

corrVars == <<corr_state, top_result, idx_s, idx_sq, output_index,
              samples_counter, corr_last, corr_write,
              sums_elements, sums_squares, sums_products>>
coeffVars == <<coeff_state, counter, counter_rd, row, col, index,
               mem_e, mem_sq, mem_p, coeff, coeff_value, coeff_last, coeff_write>>
inState  == <<valid_read, counter_read, y>>
outState == <<valid_write, x>>
host     == <<numberItems, sent, received>>
streams  == <<axis_host_sink, data_source, sums, result_values, axis_host_src>>
vars == <<streams, samples, inState, outState, corrVars, coeffVars, host>>

ZeroItem == [i \in Lanes |-> 0]

Init ==
    /\ numberItems \in Sizes
    /\ axis_host_sink = << >> /\ data_source = << >> /\ sums = << >>
    /\ result_values = << >> /\ axis_host_src = << >>
    /\ valid_read = FALSE /\ counter_read = 0
    /\ y = [last |-> FALSE, val |-> ZeroItem]
    /\ valid_write = FALSE /\ x = [last |-> FALSE, val |-> ZeroCoeff]
    /\ CORR!CorrInit /\ COEFF!CoeffInit
    /\ sent = << >> /\ received = << >>
-----------------------------------------------------------------------------
(* The two ends of the kernel, in the hands of the host's DMA. *)
Send ==
    /\ Len(sent) < MaxBatches * numberItems
    /\ Len(axis_host_sink) < Depth
    /\ \E item \in Items :
          /\ axis_host_sink' = Append(axis_host_sink, item)
          /\ sent' = Append(sent, item)
    /\ UNCHANGED <<data_source, sums, result_values, axis_host_src, samples, inState,
                   outState, corrVars, coeffVars, numberItems, received>>

Receive ==
    /\ axis_host_src # << >>
    /\ axis_host_src' = Tail(axis_host_src)
    /\ received' = Append(received, Head(axis_host_src))
    /\ UNCHANGED <<axis_host_sink, data_source, sums, result_values, samples, inState,
                   outState, corrVars, coeffVars, numberItems, sent>>

(* convert_data_in counts the items and flags the last one of a batch.     *)
(* ("Bug..." operators are deliberate slips, as in Corr.)                  *)
BugLastOneEarly(count) == count + 1 = numberItems
IsLast(count) == count = numberItems

BugNoRestart(count) == count
Restarted(count) == IF count = numberItems THEN 0 ELSE count

ConvertDataIn ==
    /\ valid_read => Len(data_source) < Depth
    /\ data_source' = IF valid_read THEN Append(data_source, y) ELSE data_source
    /\ \/ /\ axis_host_sink # << >>
          /\ axis_host_sink' = Tail(axis_host_sink)
          /\ y' = [last |-> IsLast(counter_read + 1), val |-> Head(axis_host_sink)]
          /\ valid_read' = TRUE
          /\ counter_read' = Restarted(counter_read + 1)
       \/ /\ axis_host_sink = << >>
          /\ valid_read' = FALSE
          /\ counter_read' = Restarted(counter_read)
          /\ UNCHANGED <<axis_host_sink, y>>
    /\ UNCHANGED <<sums, result_values, axis_host_src, samples, outState,
                   corrVars, coeffVars, host>>

Accumulate ==
    /\ CORR!Accumulate
    /\ UNCHANGED <<axis_host_sink, result_values, axis_host_src, inState, outState,
                   coeffVars, host>>

AccCoeff ==
    /\ COEFF!AccCoeff
    /\ UNCHANGED <<axis_host_sink, data_source, axis_host_src, inState, outState,
                   corrVars, host>>

ConvertDataOut ==
    /\ valid_write => Len(axis_host_src) < Depth
    /\ axis_host_src' = IF valid_write THEN Append(axis_host_src, x) ELSE axis_host_src
    /\ \/ /\ result_values # << >>
          /\ x' = Head(result_values)
          /\ result_values' = Tail(result_values)
          /\ valid_write' = TRUE
       \/ /\ result_values = << >>
          /\ valid_write' = FALSE
          /\ UNCHANGED <<result_values, x>>
    /\ UNCHANGED <<axis_host_sink, data_source, sums, samples, inState,
                   corrVars, coeffVars, host>>

Next == Send \/ Receive \/ ConvertDataIn \/ Accumulate \/ AccCoeff \/ ConvertDataOut

Spec == Init /\ [][Next]_vars

(* Every process of the kernel keeps being invoked, and the DMA engine     *)
(* takes the results.                                                      *)
FairSpec == Spec /\ WF_vars(ConvertDataIn) /\ WF_vars(Accumulate) /\ WF_vars(AccCoeff)
                 /\ WF_vars(ConvertDataOut) /\ WF_vars(Receive)
=============================================================================
