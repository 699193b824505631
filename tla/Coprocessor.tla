----------------------------- MODULE Coprocessor -----------------------------
(***************************************************************************)
(* The co-processor host program, coyote_integration/host/main.cpp, with   *)
(* the first-generation kernel behind a DMA engine: in each repetition the *)
(* host clears the results, invokes a transfer in both directions, which   *)
(* goes on in the background, and polls the final coefficient.             *)
(***************************************************************************)
EXTENDS FirstKernel

VARIABLES
    reps, pc,       \* the loop of main
    resultMem,      \* one line a coefficient
    toWrite         \* lines the DMA engine may still write to it

copVars == <<kernelVars, reps, pc, resultMem, toWrite>>

(* Lanes that are multiples of each other are whole; none, the first two,  *)
(* the last two or all of them are.                                        *)
Pairs == {pair \in Lane \X Lane : pair[1] < pair[2]}
Whole == {{}, {<<0, 1>>}, {<<N - 2, N - 1>>}, Pairs}

CopInit ==
    /\ KernelInit /\ axis_sink = << >>
    /\ data \in [flat : {{}, {0}, {N - 1}}, whole : Whole]
    /\ reps = 0 /\ pc = "begin" /\ toWrite = 0
    /\ resultMem = [k \in 0 .. P - 1 |-> ZeroValue]

(* (Operators named "Bug..." are deliberate slips that model checking has  *)
(* to catch when they stand in for the operator after them.)               *)
BugKeepsResults == resultMem
Cleared == [k \in 0 .. P - 1 |-> ZeroValue]

Begin ==
    /\ pc = "begin" /\ reps < MaxBatches
    /\ resultMem' = Cleared
    /\ pc' = "invoke"
    /\ UNCHANGED <<kernelVars, reps, toWrite>>

Invoke ==
    /\ pc = "invoke"
    /\ axis_sink' = axis_sink \o [i \in 1 .. numberItems |-> reps + 1]
    /\ toWrite' = toWrite + P
    /\ pc' = "poll"
    /\ UNCHANGED <<data, data_source, sums, result_values, samples, in, corr, coeff, out,
                   reps, resultMem>>

BugFirstLine == resultMem[0] # ZeroValue
Finished == resultMem[P - 1] # ZeroValue

PollCoefficient ==
    /\ pc = "poll" /\ Finished
    /\ reps' = reps + 1 /\ pc' = IF reps' = MaxBatches THEN "end" ELSE "begin"
    /\ UNCHANGED <<kernelVars, resultMem, toWrite>>

Host == Begin \/ Invoke \/ PollCoefficient

(* The DMA engine writes the lines of a transfer one after the other.      *)
WriteLine(x) ==
    /\ toWrite > 0
    /\ resultMem' = [resultMem EXCEPT ![(P - toWrite) % P] = LineOf(x.val)]
    /\ toWrite' = toWrite - 1
LineOut ==
    /\ ConvertDataOut
    /\ IF out.valid THEN WriteLine(out.x) ELSE UNCHANGED <<resultMem, toWrite>>
    /\ UNCHANGED <<reps, pc>>

Kernel == /\ ConvertDataIn \/ Accumulate \/ AccCoeff
          /\ UNCHANGED <<reps, pc, resultMem, toWrite>>
CopNext == Host \/ LineOut \/ Kernel

(* The loop runs, the processes are clocked, and what there is is found.   *)
CopSpec == /\ CopInit /\ [][CopNext]_copVars /\ WF_copVars(Host) /\ WF_copVars(LineOut)
        /\ WF_copVars(ConvertDataIn /\ UNCHANGED <<reps, pc, resultMem, toWrite>>)
        /\ WF_copVars(Accumulate /\ UNCHANGED <<reps, pc, resultMem, toWrite>>)
        /\ WF_copVars(AccCoeff /\ UNCHANGED <<reps, pc, resultMem, toWrite>>)
-----------------------------------------------------------------------------
(* What the kernel owes batch b at index k.                                *)
SumOf(place, b) ==
    [of |-> SumAt(place), items |-> [NoItems EXCEPT ![b] = numberItems]]
CoefficientOf(b, k) ==
    LET i == PairAt(k)[1]  j == PairAt(k)[2] IN
    Value(numberItems, SumOf(i, b), SumOf(j, b), SumOf(N + i, b), SumOf(N + j, b),
          SumOf(2 * N + k, b))

(* When the host is content with its first repetition, every line holds    *)
(* what its coefficient of that batch leaves of it: none is still on its   *)
(* way, and none has been computed with the sample count of a batch behind *)
(* it.  (A coefficient between -1 and 1 leaves 0, LineOf.)  So it stays    *)
(* in every later repetition, whose batch goes unanswered: the kernel      *)
(* keeps neither its walk (hdl/coefficients.hpp:156), nor its flag         *)
(* (hdl/correlation.hpp:194) nor its sample count apart from batch to      *)
(* batch, and what the host finds are the coefficients of the first.       *)
ContentWithTheFirstBatch ==
    (pc \in {"begin", "end"} /\ reps > 0) =>
        \A k \in 0 .. P - 1 : resultMem[k] = LineOf(CoefficientOf(1, k))

(* The host is not content before the transfer of its own repetition is    *)
(* over, although it never asks whether it is (host/main.cpp:239).         *)
NoLineIsUnderWay == pc \in {"begin", "end"} => toWrite = 0

(* The repetitions end when the final coefficient is 1 or -1.  Otherwise   *)
(* its line is 0 (hdl/correlation_top.hpp:95), as it was when the          *)
(* repetition began, and the host polls it for ever (host/main.cpp:241).   *)
CoprocessorEnds == LineOf(CoefficientOf(1, P - 1)) # ZeroValue ~> pc = "end"
=============================================================================
