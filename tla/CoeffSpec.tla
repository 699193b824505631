------------------------------ MODULE CoeffSpec ------------------------------
(***************************************************************************)
(* COEFF between its neighbours in correlation_top: CORR, which sends the  *)
(* sums of one batch after the other, F flits each with last on the final  *)
(* one (CorrCorrect shows that it does), and writes the sample count at    *)
(* moments of its own; and convert_data_out, which reads the coefficients. *)
(***************************************************************************)
EXTENDS Coeff

CONSTANT
    Batches     \* the vectors of sums CORR may send: functions on 0..F-1
(* A stream has the default depth of two, far less than a batch of sums. *)
ASSUME BatchesAssumption == Batches \subseteq [0 .. F - 1 -> Words] /\ Depth < F

VARIABLES
    batch,      \* the sums of the batch CORR is sending
    sent        \* how many of them it has sent

vars == <<src, dst, samples_number, coeffState, batch, sent>>

Init == /\ src = << >> /\ dst = << >> /\ samples_number = 0
        /\ CoeffInit
        /\ batch \in Batches /\ sent = 0

(* CORR writes the next sum; after the final one another batch begins. *)
Feed ==
    /\ Len(src) < Depth
    /\ src' = Append(src, [last |-> sent + 1 = F, val |-> batch[sent]])
    /\ IF sent + 1 = F THEN sent' = 0 /\ batch' \in Batches
                       ELSE sent' = sent + 1 /\ batch' = batch
    /\ UNCHANGED <<dst, samples_number, coeffState>>

(* CORR changes the sample count. *)
SetSamples ==
    /\ samples_number' \in Counts
    /\ UNCHANGED <<src, dst, coeffState, batch, sent>>

Drain ==
    /\ dst # << >>
    /\ dst' = Tail(dst)
    /\ UNCHANGED <<src, samples_number, coeffState, batch, sent>>

Next == \/ AccCoeff /\ UNCHANGED <<batch, sent>>
        \/ Feed \/ SetSamples \/ Drain

Spec == Init /\ [][Next]_vars

FairSpec == Spec /\ WF_vars(AccCoeff /\ UNCHANGED <<batch, sent>>)
                 /\ WF_vars(Drain) /\ WF_vars(Feed)
=============================================================================
