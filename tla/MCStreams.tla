------------------------------ MODULE MCStreams ------------------------------
(* A chain of shifters, a splitter with a merger, or the function-style    *)
(* kernel: the others have nothing to do while one is tried.  Functions    *)
(* that find nothing to do are invoked all the same.                       *)
EXTENDS Shifters, Mergers, FunctionMethod

CONSTANTS Lengths, PackageLengths

MCJobs == {<< >>} \cup (Lengths \X Lengths)
MCPackageJobs ==
    LET packages == [dest : {0, 1}, length : PackageLengths]
    IN  {<< >>} \cup (packages \X packages \X packages)

VARIABLE active
vars == <<shiftVars, mergeVars, functionVars, active>>

Init == /\ ShiftInit /\ MergeInit /\ FunctionInit
        /\ active \in {"shifters", "mergers", "kernel"}
        /\ active # "shifters" => job = << >> /\ offset = 1
        /\ active # "mergers" => plan = << >> /\ merging = "stream_merger"

Shifting  == active = "shifters" /\ UNCHANGED <<mergeVars, functionVars, active>>
Merging   == active = "mergers" /\ UNCHANGED <<shiftVars, functionVars, active>>
Computing == active = "kernel" /\ UNCHANGED <<shiftVars, mergeVars, active>>
Idle      == UNCHANGED vars

Next == \/ ShiftNext /\ Shifting
        \/ MergeNext /\ Merging
        \/ FunctionNext /\ Computing
        \/ Idle

Spec == /\ Init /\ [][Next]_vars
        /\ WF_vars(LShift /\ Shifting) /\ WF_vars(RShift /\ Shifting)
        /\ WF_vars(ToHalfWidth /\ Shifting) /\ WF_vars(ToDoubleWidth /\ Shifting)
        /\ WF_vars(Split /\ Merging) /\ WF_vars(Merge /\ Merging)
        /\ WF_vars(CmSum /\ Computing) /\ WF_vars(CmSumSquares /\ Computing)
        /\ WF_vars(CmSumProducts /\ Computing) /\ WF_vars(CmWriteSums /\ Computing)

(* Everything comes out in the end: the octets of the shifters, the words  *)
(* of the mergers, however full a stream is in between.                    *)
EverythingArrives ==
    /\ active = "shifters" => BytesArrive
    /\ active = "mergers" => WordsArrive

(* The function-style kernel writes its batch to the end, if it is sent to *)
(* the end: no stream that fills up ahead of a later process stops an      *)
(* earlier one.                                                            *)
BatchIsWritten ==
    active = "kernel" /\ Items >= regSampleSize ~> m_axis_write_data = Lines
=============================================================================
