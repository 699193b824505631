----------------------------- MODULE CorrCorrect -----------------------------
(***************************************************************************)
(* What must hold of CORR: its invariants, and how it implements           *)
(* BatchSums.                                                              *)
(***************************************************************************)
EXTENDS Corr

(* How many sums of the closed batch have been read out of their           *)
(* accumulators.                                                           *)
ReadPos == IF state = "READOUT_S" THEN idx_s
           ELSE IF state = "READOUT_SQ" THEN N + idx_sq
           ELSE IF state = "READOUT_P" THEN 2 * N + output_index
           ELSE 0

(* Sum i of the batch, in read-out order. *)
SumAt(i) == IF i < N THEN sums_elements[i]
            ELSE IF i < 2 * N THEN sums_squares[i - N]
            ELSE sums_products[i - 2 * N]

(* Only the index of the array being read is ever away from zero, so that  *)
(* the next read-out of every array starts at its first entry.             *)
IndicesAtRest ==
    /\ state # "READOUT_S"  => idx_s = 0
    /\ state # "READOUT_SQ" => idx_sq = 0
    /\ state # "READOUT_P"  => output_index = 0

(* During a read-out every sum already read is zero again: nothing of the  *)
(* batch is left behind in a part of the accumulators the read-out passed. *)
ReadSumsAreZero ==
    state # "COMPUTE" => \A i \in 0 .. F - 1 : i < ReadPos => SumAt(i) = 0

(* The last flag is raised exactly on the sum that ends a read-out: it is  *)
(* up only while that sum waits to be written, and that sum never waits    *)
(* without it.                                                             *)
LastMarksTheFinalSum ==
    /\ last => state = "COMPUTE" /\ write
    /\ write /\ state = "COMPUTE" => last

(* The read-out of a batch: what is already read is zero, the indices are  *)
(* where the next read-out needs them, and the flag is where it belongs.   *)
ReadoutInv == IndicesAtRest /\ ReadSumsAreZero /\ LastMarksTheFinalSum

(* When a batch ends, every accumulator is zero: no batch sees a           *)
(* contribution of an earlier one, however its read-out was stalled.       *)
EndOfBatchLeavesZeroes ==
    [][state = "READOUT_P" /\ state' = "COMPUTE"
         => \A i \in 0 .. F - 1 : SumAt(i)' = 0]_vars

(* A full input stream is drained again: the read-out of a batch, during   *)
(* which CORR takes no input, always comes to its end.                     *)
InputIsNeverStuck == Len(src) = Depth ~> Len(src) < Depth
-----------------------------------------------------------------------------
(* The refinement mapping: a closed batch counts as output from the moment *)
(* it is closed, whether its sums are in the stream, waiting in top_result *)
(* or still in the accumulators.                                           *)
Pending == IF write THEN << [last |-> last, val |-> top_result] >> ELSE << >>
Unread  == IF state = "COMPUTE" THEN << >>
           ELSE [j \in 1 .. F - ReadPos |->
                   [last |-> ReadPos + j = F, val |-> SumAt(ReadPos + j - 1)]]

Uncollected == dst \o Pending \o Unread
OpenSums    == [i \in 0 .. F - 1 |-> IF state = "COMPUTE" THEN SumAt(i) ELSE 0]

Sums == INSTANCE BatchSums WITH in <- src, open <- OpenSums, out <- Uncollected

(* CORR implements BatchSums: each batch comes out once, whole, in order,  *)
(* and with the sums of exactly its own items.                             *)
ImplementsBatchSums == Sums!BSpec
=============================================================================
