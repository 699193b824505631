------------------------------- MODULE MCKernel -------------------------------
(* The kernel with four lanes, two-bit words and two items.                *)
EXTENDS KernelCorrect

MCItems == { [i \in Lanes |-> IF i = 0 THEN 1 ELSE IF i = 3 THEN 2 ELSE 0],
             [i \in Lanes |-> IF i = 1 THEN 3 ELSE 1] }
=============================================================================
