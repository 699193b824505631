------------------------------- MODULE MCCoeff -------------------------------
(* COEFF with four lanes and two-bit words.  The three batches differ from *)
(* each other at every place, so memories that mix two of them equal none. *)
EXTENDS CoeffCorrect

MCBatches == { [i \in 0 .. F - 1 |-> (i + i \div 4 + k) % 4] : k \in 0 .. 2 }
=============================================================================
