------------------------------- MODULE MCCorr -------------------------------
(* CORR with four lanes (six pairs), two-bit words and two items.  One     *)
(* item tells the lanes apart, and its square 2*2 wraps in a two-bit word. *)
EXTENDS CorrCorrect

MCItems == { [i \in Lanes |-> IF i = 0 THEN 1 ELSE IF i = 3 THEN 2 ELSE 0],
             [i \in Lanes |-> IF i = 1 THEN 3 ELSE 1] }
=============================================================================
