----------------------------- MODULE FirstKernel -----------------------------
(***************************************************************************)
(* The first-generation kernel, design_user_hls_c0_0_top of                *)
(* coyote_integration/hdl: convert_data_in, CORR, COEFF, convert_data_out. *)
(* A step is one invocation of one of them; they interleave freely.        *)
(*                                                                         *)
(* A sum is written as what it is a sum of: its place stands for the lanes *)
(* multiplied, and it counts the items it holds of each batch.  A          *)
(* coefficient is the words it is computed from.                           *)
(***************************************************************************)
EXTENDS Integers, SequencesExt

CONSTANTS N, numberItems, MaxBatches, StreamDepth

ASSUME FirstKernelAssumption ==
    N \in Nat \ {0, 1} /\ {numberItems, MaxBatches, StreamDepth} \subseteq Nat \ {0}

VARIABLES
    data,           \* what the items are like: flat lanes hold the same value in
                    \* every item, the coefficient of whole pairs is 1 or -1
    axis_sink,      \* batch numbers of the items that are to be streamed in
    data_source, sums, result_values,
    samples,        \* the variable CORR writes and COEFF reads
    in,             \* convert_data_in: valid, y, counter
    corr,           \* CORR; at stands for idx_s, then idx_sq, then output_index
    coeff,          \* COEFF; mem is mem_e, mem_sq and mem_p after another
    out             \* convert_data_out: valid, x

kernelVars == <<data, axis_sink, data_source, sums, result_values, samples,
                in, corr, coeff, out>>

Lane == 0 .. N - 1
P    == (N * (N - 1)) \div 2
Place == 0 .. 2 * N + P - 1

(* The accumulator of the product of lanes i and j.                        *)
PairIndex(i, j) == i * N - (i * (i + 1)) \div 2 + j - i - 1
PairAt(k) == CHOOSE pair \in Lane \X Lane :
                pair[1] < pair[2] /\ PairIndex(pair[1], pair[2]) = k
SumAt(p) == IF p < N THEN <<p>> ELSE IF p < 2 * N THEN <<p - N, p - N>>
            ELSE PairAt(p - 2 * N)

NoItems == [b \in 1 .. MaxBatches |-> 0]
NoSum   == [of |-> << >>, items |-> NoItems]

(* The denominator is 0 when a lane is flat, and the value is then 0.0.    *)
ZeroValue == << >>
Value(n, e1, e2, sq1, sq2, p) ==
    IF \E i \in data.flat : <<i>> \in {e1.of, e2.of} THEN ZeroValue
    ELSE <<n, e1, e2, sq1, sq2, p>>
-----------------------------------------------------------------------------
KernelInit ==
    /\ data_source = << >> /\ sums = << >> /\ result_values = << >> /\ samples = 0
    /\ in = [valid |-> FALSE, y |-> [batch |-> 0, last |-> FALSE], counter |-> 0]
    /\ corr = [state |-> "COMPUTE", accu |-> [p \in Place |-> NoItems], at |-> 0,
               counter |-> 0, last |-> FALSE, write |-> FALSE, result |-> NoSum]
    /\ coeff = [state |-> "FEED", mem |-> [p \in Place |-> NoSum],
                coeff |-> [k \in 0 .. P - 1 |-> ZeroValue], value |-> ZeroValue,
                last |-> FALSE, write |-> FALSE,
                counter |-> 0, counter_rd |-> 0, row |-> 0, col |-> 1, index |-> 0]
    /\ out = [valid |-> FALSE, x |-> [val |-> ZeroValue, last |-> FALSE]]

Room(stream) == Len(stream) < StreamDepth

(* (Operators named "Bug..." are deliberate slips that model checking has  *)
(* to catch when they stand in for the operator after them.)               *)
BugLastOneLate == in.counter = numberItems
IsLast == in.counter + 1 = numberItems

(* An invocation passes on what the one before it read.  The item there is *)
(* may be found or, with some delay, not yet.                              *)
ConvertDataIn ==
    /\ in.valid => Room(data_source)
    /\ data_source' = IF in.valid THEN Append(data_source, in.y) ELSE data_source
    /\ \/ /\ axis_sink # << >>
          /\ axis_sink' = Tail(axis_sink)
          /\ in' = [valid |-> TRUE, y |-> [batch |-> Head(axis_sink), last |-> IsLast],
                    counter |-> IF IsLast THEN 0 ELSE in.counter + 1]
       \/ in.valid /\ in' = [in EXCEPT !.valid = FALSE] /\ UNCHANGED axis_sink
    /\ UNCHANGED <<data, sums, result_values, samples, corr, coeff, out>>

(* An accumulator takes an item of batch b in.                             *)
TakenIn(held, b) == [held EXCEPT ![b] = @ + 1]

(* samples_counter goes on counting over the batches.                      *)
ComputeItem ==
    LET x == Head(data_source) IN
    /\ corr.state = "COMPUTE" /\ data_source # << >>
    /\ data_source' = Tail(data_source)
    /\ corr' = [corr EXCEPT !.accu = [p \in Place |-> TakenIn(@[p], x.batch)],
                            !.counter = @ + 1, !.write = FALSE,
                            !.state = IF x.last THEN "READOUT" ELSE @]
    /\ samples' = IF x.last THEN corr.counter + 1 ELSE samples

(* READOUT_S, READOUT_SQ and READOUT_P, each to the end of its sums.  last *)
(* is only set in READOUT_P: it stays up until then in the next batch.     *)
Readout ==
    LET p == corr.at  isLast == p = 2 * N + P - 1 IN
    /\ corr.state = "READOUT"
    /\ corr' = [corr EXCEPT !.result = [of |-> SumAt(p), items |-> corr.accu[p]],
                            !.accu = [@ EXCEPT ![p] = NoItems], !.write = TRUE,
                            !.at = IF isLast THEN 0 ELSE p + 1,
                            !.last = IF p < 2 * N THEN @ ELSE isLast,
                            !.state = IF isLast THEN "COMPUTE" ELSE @]
    /\ UNCHANGED <<data_source, samples>>

ComputeIdle ==
    /\ corr.state = "COMPUTE" /\ corr.write
    /\ corr' = [corr EXCEPT !.write = FALSE]
    /\ UNCHANGED <<data_source, samples>>

Accumulate ==
    /\ corr.write => Room(sums)
    /\ sums' = IF corr.write
               THEN Append(sums, [val |-> corr.result, last |-> corr.last]) ELSE sums
    /\ ComputeItem \/ ComputeIdle \/ Readout
    /\ UNCHANGED <<data, axis_sink, result_values, in, coeff, out>>
-----------------------------------------------------------------------------
Feed ==
    /\ coeff.state = "FEED" /\ sums # << >>
    /\ sums' = Tail(sums)
    /\ LET x == Head(sums) IN
       coeff' = [coeff EXCEPT !.mem[coeff.counter] = x.val, !.write = FALSE,
                              !.counter = IF x.last THEN 0 ELSE @ + 1,
                              !.state = IF x.last THEN "SETTLE1" ELSE @]

FeedIdle ==
    /\ coeff.state = "FEED" /\ coeff.write
    /\ coeff' = [coeff EXCEPT !.write = FALSE] /\ UNCHANGED sums

Settle ==
    /\ coeff.state \in {"SETTLE1", "SETTLE2"}
    /\ coeff' = [coeff EXCEPT !.state = IF @ = "SETTLE1" THEN "SETTLE2" ELSE "COMPUTE",
                              !.write = FALSE]
    /\ UNCHANGED sums

BugRowTwice(mem, row, col, k) ==
    Value(samples, mem[row], mem[col], mem[N + row], mem[N + row], mem[2 * N + k])
PairValue(mem, row, col, k) ==
    Value(samples, mem[row], mem[col], mem[N + row], mem[N + col], mem[2 * N + k])

(* row, col and index are never taken back: after its first batch COEFF    *)
(* finds nothing to compute and reads the old coefficients out.            *)
Compute ==
    LET c == coeff  wrap == c.col = N - 1  isNew == c.index < P
        row == IF isNew /\ wrap THEN c.row + 1 ELSE c.row
    IN  /\ c.state = "COMPUTE"
        /\ coeff' = [c EXCEPT
              !.coeff = IF isNew THEN [@ EXCEPT ![c.index] =
                                         PairValue(c.mem, c.row, c.col, c.index)] ELSE @,
              !.index = IF isNew THEN @ + 1 ELSE @,
              !.row = row,
              !.col = IF ~isNew THEN @ ELSE IF wrap THEN row + 1 ELSE @ + 1,
              !.state = IF row = N - 1 THEN "READOUT" ELSE @]
        /\ UNCHANGED sums

ReadCoeff ==
    LET isLast == coeff.counter_rd + 1 = P IN
    /\ coeff.state = "READOUT"
    /\ coeff' = [coeff EXCEPT !.value = coeff.coeff[coeff.counter_rd],
                              !.last = isLast, !.write = TRUE,
                              !.counter_rd = IF isLast THEN 0 ELSE @ + 1,
                              !.state = IF isLast THEN "FEED" ELSE @]
    /\ UNCHANGED sums

AccCoeff ==
    /\ coeff.write => Room(result_values)
    /\ result_values' = IF coeff.write
                        THEN Append(result_values, [val |-> coeff.value, last |-> coeff.last])
                        ELSE result_values
    /\ Feed \/ FeedIdle \/ Settle \/ Compute \/ ReadCoeff
    /\ UNCHANGED <<data, axis_sink, data_source, samples, in, corr, out>>

(* A line is an integer, and the coefficient is assigned to it as a number *)
(* and not as its bits: what there is after the point is lost, and only a  *)
(* coefficient of at least one in magnitude leaves anything but 0.         *)
LineOf(val) ==
    IF val # ZeroValue /\ val[6].of \in data.whole THEN val ELSE ZeroValue

(* The word out.x of an invocation before, when valid, is given away.      *)
ConvertDataOut ==
    /\ \/ /\ result_values # << >>
          /\ result_values' = Tail(result_values)
          /\ out' = [valid |-> TRUE, x |-> Head(result_values)]
       \/ out.valid /\ out' = [out EXCEPT !.valid = FALSE] /\ UNCHANGED result_values
    /\ UNCHANGED <<data, axis_sink, data_source, sums, samples, in, corr, coeff>>
=============================================================================
