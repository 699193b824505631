# amnes in TLA+

amnes computes the Pearson correlation of every pair of N data streams. An FPGA
kernel adds up, over a batch of items, the sums of elements, of squares and of
pairwise products, and turns them into P = N(N-1)/2 coefficients; hosts feed it
over PCIe or RDMA; CPU, GPU and OpenCL programs compute the same for comparison.

This directory holds TLA+ models of that code, the TLC configurations that check
them on small instances, and theorems about them that TLAPS checks. All line
numbers refer to the files under `src/`.

## 1. Inventory

| Part | State | Operations | Talks to |
|---|---|---|---|
| **CORR**, `hls/class_method/correlation.hpp` | state machine of 4 states, 2N+P accumulators, three read-out indices, sample counter, one pending sum with its `last` flag | `accumulate()`: write the pending sum, then accept an item, or read out one accumulator | reads the item stream, writes the stream of sums, writes the shared `samples` |
| **COEFF**, `hls/class_method/coefficients.hpp` | state machine of 5 states, memories of 2N+P sums, P coefficients, the walk (row, col, index), one pending coefficient | `acc_coeff()`: write the pending coefficient, then store a sum, settle, compute one, or read one out | reads sums and `samples`, writes coefficients |
| **Top level**, `hls/class_method/correlation.cpp` | one pending flit in each adapter, the count of items in the batch | `convert_data_in`, `correlation_top`, `convert_data_out` | host streams and the register `numberItems` |
| **Memory wrapper**, same file, 153-215 | result counter | write command, then the results | memory |
| **First-generation kernel**, `coyote_integration/hdl` | as above, signed words | as above; fewer resets | Coyote shell |
| **RDMA user logic**, `coyote_integration/hdl_rdma` | tuple counter, cache-line counter, `s_data_to_coeff`, `s_req_sent`, a registered request | pass data through to the host and to the kernel, then send the results with a request of its own | RDMA stack, DMA engine, kernel |
| **RDMA host**, `coyote_integration/host_rdma` | shared memory polled by both, completion counts | repetitions of master and server, `ibvSync` barriers; worker threads of the software variant | RDMA user logic |
| **Co-processor host**, `coyote_integration/host` | result buffer | repetitions: clear, transfer, poll the final coefficient | kernel through DMA |
| **Function-style kernel**, `hls/function_method` | sums, counters and a state machine in static variables | `cm_sum`, `cm_sum_squares`, `cm_sum_products`, `cm_write_sums` | chained by three streams |
| **Stream utilities**, `hls/axi_utils.hpp`, `hls/stream.hpp` | a state machine and the word before in each function | mergers, splitters, shifters, width converters | any stream |
| **CPU baseline**, `baselines/cpp` | a collector per thread | split, collect, join, merge, coefficients, clean | threads |
| **Eigen, threaded**, `baselines/outer_lib` | a matrix per thread | the same, with a matrix product for the share of a thread | threads |
| **OpenCL host**, `openCL/host` | a queue, buffers and events per device | enqueue writes, kernel and reads; wait; verify | devices |
| **Python, GPU** | arrays | library calls around timing | libraries |

What is hard here is what a test bench with one batch and a willing consumer
cannot reach:

* *Stalls.* `dst.write` blocks an invocation in the middle of a read-out, while
  the value to be written sits in members that the next invocation overwrites.
* *Free-running processes.* CORR, COEFF and the adapters run at their own pace.
  A C simulation runs one special interleaving of them, one call each in turn.
* *Batches that follow each other.* Framing is done by counting: `numberItems`
  against a register, the place of a sum among 2N+P, the place of a coefficient
  among P. A count that is off by one, or an accumulator not zeroed, shows in
  the second batch only.
* *A shared variable.* `samples` is written by CORR and read by COEFF with
  nothing that ties it to the batch being computed.
* *Polled memory, request multiplexers and edge-triggered counters* in the RDMA
  logic and the hosts. What is polled may be there before the rest of what it
  stands for, or be left from the time before.
* *Packages in two places.* A stream function that keeps part of a word, or
  remembers which input it forwards, is right or wrong depending on where the
  package ends and on which stream is empty just then.
* *Joins and events.* Threads and devices work on shares; the host waits for
  some of their events and uses the results of all.

What makes each part correct:

* CORR: each closed batch comes out once, whole, in order, with the sums of its
  own items, the final one flagged; the accumulators are zero afterwards.
* COEFF: it never mixes two batches; coefficient i is that of pair i in the
  closed form by which readers look it up; it always comes to an end.
* Kernel: every batch of `numberItems` items is answered by its own P
  coefficients, in order, and always is.
* RDMA logic: every beat reaches the kernel and the host once; every request is
  served; results are sent once per batch.
* Hosts: a repetition uses its own results and always ends.
* Stream utilities: what goes in comes out, once and in order, by the octet
  through shifters and converters, by the word through mergers; packages stay
  whole; no input waits for ever.
* Function-style kernel: the lines of its batch come out whole and in order, and
  no stream that fills up stops it.
* Threads and devices: every block is counted once, whatever the number of
  threads; no result is used before it is there.

`PROJECT.json` lists the parts with what is modelled of each, and, under
`hazards`, where in the code each difficulty bites and which property covers it.

## 2. Modules

```
CorrParameters      constants, words, order of the pairs, one coefficient
  Corr              CORR            BatchSums     what CORR promises
    CorrCorrect     its properties and its refinement of BatchSums
      MCCorr
    CorrProofs
  Coeff             COEFF
    CoeffSpec       COEFF between a producer of batches and a consumer
      CoeffCorrect  its properties
        MCCoeff
        CoeffProofs
  Kernel            the four processes   Correlation   what the kernel promises
    KernelCorrect   its properties and its refinement of Correlation
      MCKernel
  PairProofs        the order of the pairs
RdmaLogic           the user logic of hdl_rdma and what surrounds it
  RdmaCorrect       its properties, and a record of what disturbs it
    MCRdma
HostRdma            the repetitions of the RDMA hosts, with their properties
  MCHostRdma
FirstKernel         the four processes of the first-generation kernel
  Coprocessor       the co-processor host around it, with the properties of both
    MCCoprocessor
Shifters            the stream functions that change words: a chain of four
Mergers             the stream functions that split and merge streams
FunctionMethod      the function-style kernel
  MCStreams         one of the three at a time
Workers             the threaded programs: amnes_bench, ss_eigenlib_th, server
OpenCL              the OpenCL host and its devices
Collectors          the arithmetic of the CPU collector
  MCBaselines       one of the three at a time
KernelProofs        extends KernelCorrect and PairProofs
RdmaProofs          extends RdmaCorrect
HostProofs          extends HostRdma and Coprocessor
StreamsProofs       extends FunctionMethod, Mergers and Shifters
BaselinesProofs     extends Workers, OpenCL and Collectors
```

**Data.** A word `ap_uint<R>` is a number modulo `W`, the 32-bit sample counter a
number modulo `U`; both wrap as in the code. A coefficient is kept as the three
words it is a function of (numerator and two denominators) and the special value
0 that replaces it when a denominator is zero: the floating-point product of
powers made of them is not modelled. `accu1`/`accu2`, `mem_p1`/`mem_p2` and
`coeff1`/`coeff2` are the halves of one array each, cut at P/2, a whole number
for the even P that the code's own N give; they are one function here. Arrays of
global objects start zeroed, as in C++.

**Steps.** One action is one invocation of a process. `#pragma HLS PIPELINE
II=1` overlaps invocations, but they start and write in order and carry their
state through static members, so an invocation is atomic except for its blocking
write. That write comes first in the code; `Flush` is both the write and the
guard that makes the whole invocation wait for room. A `read_nb` that finds the
stream empty is an action too (`ComputeIdle`, `FeedIdle`): it flushes, and it
lowers `write`.

**Correspondence.**

| Code | Model |
|---|---|
| `CORR::accumulate`, case COMPUTE with and without an item | `ComputeItem`, `ComputeIdle` |
| cases READOUT_S, READOUT_SQ, READOUT_P | `ReadoutS`, `ReadoutSQ`, `ReadoutP` |
| `CORR_SUM_P::process(values, val, true)`, unrolled walk over pairs | `sums_products'` in `ComputeItem`, with `Pair` |
| `process(values, val, false)` | `sums_products'`, `output_index'` in `ReadoutP` |
| `COEFF::acc_coeff`, cases FEED, SETTLE1/2, COMPUTE, READOUT | `FeedSum`/`FeedIdle`, `Settle`, `Compute`, `Readout` |
| `convert_data_in`, `convert_data_out` | `ConvertDataIn`, `ConvertDataOut` in `Kernel` |
| `design_user_hls_c0_0` (dataflow of the above) | `Kernel`, with `CORR == INSTANCE Corr`, `COEFF == INSTANCE Coeff` |
| DMA of the host | `Send`, `Receive` (external) |
| one clock edge of `design_user_logic_c0_0_rdma.sv` | `Cycle(kr, hr)` of `RdmaLogic`: kernel ready, host ready |
| its `assign`s at 232-269 | `HostValid`, `HostLine`, `SinkAccepted`, `KernelTakes`, `ResultAccepted`, `EngineRequest`, `RequestAccepted` |
| its `always` blocks at 85, 271, 294 | `CountTuples`, `RequestResults`, `SwitchToResults` |
| RDMA stack; kernel with `axis_coeff_host`; DMA engine | `StackStep`, `KernelStep`, `EngineStep` (external) |
| `host_rdma/main.cpp`, master, 264-309 | `Post`, `PostedAll`, then `Sync` |
| server, 314-395 | `PollData`, `WaitDone`, `PollResult`, `Clear`, `Sync`, `Erase`; a polling loop going round is `Poll` |
| `gotInt` | `Interrupt` |
| `ibvSync`; transfers; the FPGA's answer | `BothAtSync`, `Land`, `WriteResult` (external) |
| `coyote_integration/hdl`, `convert_data_in`, CORR, COEFF, `convert_data_out` | `ConvertDataIn`; `ComputeItem`, `Readout`, `ComputeIdle`; `Feed`, `FeedIdle`, `Settle`, `Compute`, `ReadCoeff`; `ConvertDataOut` of `FirstKernel` |
| `host/main.cpp`, 225-257: clear, invoke, poll | `Begin`, `Invoke`, `PollCoefficient`; the transfer itself is `LineOut` |
| `lshiftWordByOctet`, `convertStreamToHalfWidth`, `convertStreamToDoubleWidth`, `rshiftWordByOctet` | `LShift`, `ToHalfWidth`, `ToDoubleWidth`, `RShift` |
| `stream_pkg_splitter`, `stream_split` | `SplitPackages`, `SplitToAll` |
| `stream_merger` (both), `stream_pkg_merger`, `fair_merger`, `fair_pkg_merger`, `StreamConcatenator`, `StreamInterleaver`, `stream_fold`, `stream_merge` | `StreamMerger`, `StreamMergerOrigin`, `StreamPkgMerger`, `FairMerger`, `FairPkgMerger`, `Concatenator`, `Interleaver`, `StreamFold` |
| `cm_sum`, `cm_sum_squares`: `dataIn.read`, `dataOut.write`, `sumOut.write`; `cm_sum_products`, `cm_write_sums` | `CmSum`, `CmSumSquares`: `ReadLine`, `PassOn`, `WriteSum`; `CmSumProducts`, `CmWriteSums` |
| `amnes_bench`, `ss_eigenlib_th`, server threads: start, work, join and merge, next repetition | `Spawn`, `Work` (`CollectBlock`; `MatrixProduct`; `PollChunk`, then `CopyPart` by part), `Started`, `JoinAndMerge`, `Finish`, `Sync`, `Erase` of `Workers`; chunks arrive by `LandPart` |
| `run()` of the OpenCL host; a command of a device; the wait | `Launch`, `Execute`, `WaitForEvents` |
| `AmnesCollector::collect`, `merge`, `get_pcc_coefficients` | `Collect`, `Merge`, `Numerator` and `Denominator` |

`Corr` by itself is closed by `Offer` and `Collect`, which do to its streams
anything its neighbours could do. `CoeffSpec` closes `Coeff` with a producer that
frames batches as CORR does (`ImplementsBatchSums` says CORR does) and with
`SetSamples`, which changes the shared sample count to anything at any time.
In `Kernel` nothing is assumed any more: the two instances are wired together.

`samples` is modelled as the plain variable the C++ declares. A synthesis tool
may turn it into a channel between the two processes; the code asks for none.
`numberItems` is a register: it is chosen at the start and then fixed, as the
hosts set it once.

`RdmaLogic` counts addresses and lengths in tuples from the start of the buffer.
Its registers follow the non-blocking assignments, the later of two winning.
What it assumes of its surroundings: valid is held until ready; after a request
is accepted its fields stay on the wires, which is what
`corr_wr_req.data.vaddr` relies on; the stack offers one packet at a time,
request and beat together; the kernel needs at least two cycles from the final
line of a batch to its first result, and completes no second batch before the
results of the first are taken; the DMA engine is ready when it likes, queues the
requests it takes, and takes lines only for those. The request for the results has the length of a register of its own,
`lenReg`, of which `s_len[11:0]` keeps 12 bits (`:263`); how many lines are sent
is counted against another register (`Cachelines`).

In `FirstKernel` a sum is written as what it is a sum of: the lanes multiplied
and how many items of each batch it holds. A coefficient is the words it is
computed from, or `ZeroValue` when one of its lanes holds a constant (`flat`),
so that equal coefficients are of the same pair, sums and sample count. The
signed arithmetic itself does not show. `convert_data_out` assigns the `float` to
an integer `tdata` (`hdl/correlation_top.hpp:95`), which converts the value instead
of keeping its bits, as the union of the second generation does: a coefficient
between -1 and 1 leaves a line of 0. `LineOf` is that conversion, for which
`data.whole` says whose coefficients come out as 1 or -1.

`Shifters` is a chain in which each function is undone by a later one, so that
what comes out is to be what went in. An octet is <<package, place>>; a keep bit
of 0 is `NoByte`. `Mergers` is a splitter, one of eight mergers, and bounded
streams in between; a word knows its package and the input it belongs to. Each
function is one action that waits for room: a function that has read its word
before it stops in the write would hold that word meanwhile, which changes who
can go on by one word of buffer, as another depth of the stream does.

`FunctionMethod` writes a sum as the lanes it multiplies and the items it has
taken, in order. The sums that `cm_sum` and `cm_sum_squares` keep for all lanes
alike are kept once. An invocation of these two is up to three steps, since it
reads before it may have to wait in `dataOut.write`, and passes the item on before
it may have to wait in `sumOut.write`: `lineData` is the item in between. The
index of a product has the 16 of `cm_sum_products.hpp:65` written as N, so that for
other widths the model is of a kernel with its own number there.

`Workers` is the three programs that share out blocks among threads; a partial
result is the sequence of blocks added up, each with the repetitions whose data its
parts were. The server's threads poll the last word of a chunk in one step and copy
the chunk, part by part, in others; chunks land part by part as well, so that one
may land while it is copied. `OpenCL` has the commands of each device in its queue, with what each waits
for, and records of each sum whether it is made of the device's elements, of
buffers read beyond their end, or of inputs not yet written. `Collectors` is
arithmetic in words that wrap, made small: products, sums and their products may
each be too long for their words.

`MCStreams` and `MCBaselines` put three unrelated models in one run each: which
one is active is chosen at the start, and the others keep still.

In `HostRdma` a word of memory stands for the repetition whose data or results
it holds, 0 for a zero word. Transfers land in the order they are posted. The
results of a batch may end in a coefficient of 0.0.

Operators whose names begin with `Bug` are deliberate slips (a dropped guard, an
index that does not wrap, a state left too late). No model uses them. Each is
there to take the place of the operator that follows it, and model checking then
has to refute a property; `PROJECT.json` lists which one under `mutants`.

## 3. What TLC checks

| Run | Instance | States | What it shows |
|---|---|---|---|
| `corr` | N=4, P=6, words mod 4, counter mod 4, streams of 2, two item values | 24 444 | `CorrTypeOK`, `ReadoutInv`, `EndOfBatchLeavesZeroes`; liveness `InputIsNeverStuck`; refinement `ImplementsBatchSums` |
| `coeff` | N=4, P=6, words mod 4, two batches of sums, counts mod 2, streams of 2 | 594 828 | `CoeffTypeOK`, `MemoriesHoldOneBatch`, `WalkAgreesWithIndex`, `CoefficientsAtTheirIndex`; liveness `KeepsAnswering` |
| `kernel` | as above, batches of 1 and of 2 items, up to 2 batches | 95 288 | `SumsAreAligned`; refinement `ImplementsCorrelation`; liveness `EveryBatchIsAnswered` |
| `kernel_sample_count` | one batch | - | violates `CoefficientsUseTheirSampleCount` |
| `rdma` | lines of 2 tuples, batches of 2 lines, beats of 1 or 2 tuples, results of 2 lines, a length register of which a part is cut off, 2 batches, up to 3 answers | 46 966 | `RestBetweenBatches`, `WritesLandInPlace`, `NoResultLineIsLost`; liveness `EveryAnswerIsWritten` |
| `rdma_beats` | the same | - | violates `BeatsReachBothOrNeither` |
| `rdma_requests` | the same | - | violates `RequestsReachTheEngine` |
| `host_rdma` | 3 repetitions of 2 transfers | 505 | `HostTypeOK`, `WholeBatchHasLanded`, `DataWaitsForTheServer`; liveness `RepetitionsEnd` |
| `host_rdma_stale` | 2 repetitions of 2 transfers | - | violates `ServerTakesItsOwnResults` |
| `coprocessor` | N=4, batches of 2 items, 4 repetitions, streams of 2, no lane, the first or the last constant, a final coefficient of 1 or not | 14 636 | `ContentWithTheFirstBatch`, `NoLineIsUnderWay`; liveness `CoprocessorEnds` |
| `streams` | words of 4 octets, offsets 0 to 3, two packages of 1 to 8 octets; three packages of 1 or 3 words to either input, each merger; 6 words a line, batches of 4 items and 13 sent; streams of 1 to 3 | 18 874 | `WordsAreWellFormed`, `BytesComeThrough`, `EachInputInOrder`, `OrderIsRestored`, `PackagesStayWhole`, `OneBatchInOrder`, `TakesOneBatch`, `NobodyIsPassedByTwice`; liveness `EverythingArrives`, `BatchIsWritten` |
| `baselines` | 1, 3 or 4 blocks of 2 parts, 0 to 3 threads, 3 repetitions; 1 or 2 devices, 3 elements; up to 3 items of 2 streams | 71 071 | `EveryBlockOnce`, `AtMostOneRepetitionOld`, `VerifiesFinishedSums`, `CovarianceUpToItsSign`; liveness `ProgramsEnd` |

**Why the bounds are enough.** N=4 is the smallest N for which P is even and the
walk over pairs has rows of different length, so that a row change is not the
end of the walk. Streams of 2 are full, empty and in between; every stall of
every process happens. Items are chosen so that lanes differ, sums wrap and
denominators are zero and non-zero. `Corr` and `CoeffSpec` run for ever (their
counters wrap or are reset), so any number of batches follow each other; only
`Kernel` has a bound on the number of batches, `MaxBatches`, in its action
`Send`, because it keeps the history of what was sent and received. Two batches
are what it takes for one to leak into, overtake or tear another: while the
second is being accumulated the first is being computed. `Kernel` stutters for
good when all is answered; the processes are still invoked, so no run needs
deadlock checking turned off.

`rdma` needs two batches for registers that are not re-armed, two lines for a
batch or an answer to have an inside, two tuples for a beat to be partial, and a
third answer because the kernel counts a beat twice when it is taken apart.
`host_rdma` needs two repetitions for one to meet what another left, and has a
third so that the second is neither the first nor the last.

`coprocessor` needs a second repetition for what the kernel leaves behind, and
has four because its sample count goes on growing. `streams` has packages that
end one octet short of a word, on a word, one beyond it, and that are two words
long; streams of one word, so that every function is stopped in every state; and
enough items behind a batch to fill what the function-style kernel can hold
(4 + 3 + 2 in the streams and 2 in its processes, of 13). `baselines` has fewer threads than blocks, as many, and numbers of
blocks that the threads do not divide; no thread at all (an input without
blocks); chunks of two parts, so that one can be half old; and two devices, which
do not divide the elements. Words of 4, 6 and 8 bits stand for those of 32, 32 or
64, and 64: items of 0, 1 and 3 make products and sums that fit and ones that do
not. `MaxReps`, `MaxBatches` and the lists of
packages and items are the only bounds on how long these models run; the loops
they bound are loops over a fixed number in the code, too.

`coprocessor` and `baselines` turn deadlock checking off, because programs end
there; that they do is what `CoprocessorEnds` and `ProgramsEnd` say.

**Undisturbed.** Five things the RDMA logic does not defend itself against make
most of what one would state of it false: kernel and host take a beat in
different cycles (`apart`), the next batch begins before the results of this one
are out (`overlap`), a beat is not a full line although the kernel counts it as
one (`partial`), the engine is not ready any more when the request for the results
comes, a cycle after it was (`unheard`, `:284`: the request is valid for that cycle
only), the results are requested with another length than that of their
lines (`length`). The variable `disturbed` of `RdmaCorrect` records which of them
happened, and properties that need it hold as long as none has. That is no
restriction of the model: the first four happen in the run, and what holds in
spite of them (the first part of `RestBetweenBatches`) is checked there. The
fifth is up to two constants, the registers, and the theorems take any of their
values; the run has registers that agree, as those that the hosts set do, 8 lines
and 512 bytes (`host_rdma/main.cpp:239`). `LengthAgrees` says when they do: from 64
lines of 64 bytes on, never, and every answer is a disturbance.
With overlap, `s_req_sent` can even stay up for good: the results are out while
the engine is not ready, so that the request goes out with nothing left to clear
its mark. Whether batches overlap is up to the hosts, see `host_rdma_stale`.

**Fairness.** Weak fairness for each process: a free-running HLS process
(`ap_ctrl_none`) is invoked again and again, and an invocation that waits in a
blocking write goes on when there is room. Weak fairness for the consumer of the
results (`Collect`, `Drain`, `Receive`): the DMA engine takes what is offered.
Nothing is assumed of the producer of items in `Corr` and `Kernel`; `CoeffSpec`
assumes that sums keep coming, which only `KeepsAnswering` needs. In
`RdmaCorrect`, weak fairness of `Prompt`: now and then comes a cycle in which
kernel, host and engine are ready and a result that can be there is there. In
`HostRdma`, weak fairness of both programs, of `ibvSync`, of the network and of
the FPGA, none of a polling loop that merely goes round, none of `Interrupt`.
In `Coprocessor`, weak fairness of the host's loop and of the four processes. In
`MCStreams`, weak fairness of each function by itself; in `MCBaselines`, of the
main thread, of each worker thread, of the network, and of the OpenCL run as a
whole (its host and its devices are one action for that). No fairness is
strong, and none is needed of the choice of what is sent.

**What does not hold, and how it is stated.** Some properties say what holds
*because of* a weakness, so that a reader sees its exact extent:

* `ContentWithTheFirstBatch`. The first-generation kernel never rewinds its walk
  over the pairs (`hdl/coefficients.hpp:156`): each later batch is answered with
  the coefficients of the first. The host, which sends the same data in every
  repetition, cannot tell, and if it sent others it would be content all the
  same. Nor are they coefficients that arrive: between -1 and 1 the lines are 0
  (`hdl/correlation_top.hpp:95`). `CoprocessorEnds` therefore only promises an end when
  the final coefficient is 1 or -1; otherwise the host polls for ever a line that
  stays 0 (`host/main.cpp:241`).
* `TakesOneBatch`. The function-style kernel never leaves REINIT
  (`cm_sum_products.hpp:132`): behind its batch it takes what its two data
  streams hold, and an item more in each process that has read one and cannot pass
  it on, and then stands still.
* `BytesComeThrough` leaves out `rshiftWordByOctet` with offset 0, which drops the
  first word of a package of several (`axi_utils.hpp:384`) and shifts by the whole
  width of a word (`:420`).
* `PackagesStayWhole` leaves out `fair_pkg_merger` behind a word of input 0: it
  goes on with input 1 (`axi_utils.hpp:648`).
* `AtMostOneRepetitionOld`. The threads of the RDMA server poll words that nobody
  clears (`host_rdma/correlation.hpp:52`), and copy the chunk afterwards (`:58`): they
  may add up the chunk of the repetition before, one that is half of this and half
  of that, or the first chunk without the word that the main thread erases.
* `EveryBlockOnce` says which chunks the server's threads leave out: those beyond
  the last whole round (`host_rdma/correlation.hpp:39`).
* `CovarianceUpToItsSign`. The collector subtracts unsigned words: a negative
  covariance comes out as a huge positive number (`amnes.hpp:169`). What is
  subtracted is the product of two sums in the word of a sum: of 8 and 16 bit values,
  32 bits, so that it wraps, and nothing is promised, once two sums reach 2^16. (A
  product of two 16-bit values is computed in a signed `int`, undefined from 2^31
  on; there `Fits` ends as well.)
* `VerifiesFinishedSums`. Waiting for one of five reads is enough, because the
  queues are in order; but with more than one device each kernel is told the
  number of all elements and reads beyond its buffers (`main.cpp:289`).

**Findings.** *The sample count.* `READOUT_P` zeroes the shared sample count
(`correlation.hpp:307`) in the invocation that reads the final product. COEFF gets that sum one
invocation later at the earliest and computes after it, so it computes with 0,
or with the count of the following batch if CORR has closed that one meanwhile.
The test bench feeds all lanes the same values, for which the coefficient comes
out as about 1 with any count. `Correlation`, the abstract service, therefore
promises coefficients for *some* count; everything else about them is exact.

*Beats.* `axis_rdma_1_sink` is ready when kernel and host both are (`:237` of the
RDMA logic), but each of the two sees valid whatever the other does: the one that
is ready alone takes the beat, and takes it again later.

*Requests.* `rdma_1_wr_req.ready` follows the engine also while the engine is
shown `corr_wr_req` (`:249-253`): a request of the stack is then accepted and
dropped. This needs an overlap of batches.

*Stale results* bring such an overlap about: the server clears the final result
word once, before all repetitions, so that from the second on it is content with
old results and lets the master post the next batch early.

Besides, the server erases the announcement of data after `ibvSync` has let the
master go on (`host_rdma/main.cpp:395`), and may erase that of the next
repetition; and it waits for a coefficient that is not 0.0. Then it polls for
ever. `RepetitionsEnd` says that nothing else keeps it from ending. After an
interrupt the server throws, and the master stays in `ibvSync`.

## 4. What TLAPS proves

The theorems hold for every value of the constants that the assumption of their
module allows: every N with even P, every word width and counter width, every
stream depth and every set of items (`ParameterAssumption`, for CORR, COEFF and
the kernel); for COEFF also `BatchesAssumption` (batches are functions from sums
to words, and the streams are shorter than a batch, so that a stream holds parts
of at most two); every width of a line, size of a batch, of its results and of
beats, and every value of the two registers for the results (`RdmaAssumption`, which
also keeps `NoBeat` apart from the beats); every
number of repetitions, transfers, threads, blocks, devices, elements, packages
(`HostAssumption`, `FirstKernelAssumption`, `FunctionAssumption`,
`MergerAssumption`, `ShifterAssumption`, `WorkersAssumption`, `OpenCLAssumption`); every list of items of
natural numbers and every width of the collectors' words (`CollectorsAssumption`,
which takes a word by the number of values it has: the prover knows no powers).
Bounds on how long
a model runs are constants like the others: the theorems hold for each of them.

| Theorem | Says |
|---|---|
| `PairHasItsIndex` | the unrolled walk visits, at index i, the pair whose closed-form index is i |
| `CorrTypeCorrect`, `ReadoutCorrect`, `BatchesStartFromZeroes` | CORR: no index leaves its array; what was read out is zero and `last` is on the final sum; a batch starts from zeroes |
| `CoeffTypeCorrect`, `MemoriesCorrect`, `WalkCorrect`, `CoefficientsCorrect` | COEFF: no index leaves its array; the memories hold one batch; the walk agrees with the index; each coefficient read out is that of the pair its index stands for |
| `HostTypeCorrect`, `BatchCorrect`, `DataCorrect` | RDMA hosts, for any number of repetitions and transfers: completions are those of the present repetition; the whole batch is there before results are looked for; data waits for the server |
| `CorrImplementsBatchSums` | CORR implements `BatchSums`: each batch comes out once, whole, in order, with the sums of its own items |
| `KernelImplementsCorrelation` | the kernel implements `Correlation`: each batch is answered by its own P coefficients, in order, the final one flagged, none before the batch is whole |
| `SumsStayAligned` | kernel: CORR and COEFF agree where a batch begins, however the processes interleave, whatever the depth of the streams |
| `RegistersRest`, `NoLineLost`, `TuplesInPlace` | RDMA logic: registers are at rest between batches; undisturbed, results are requested once and before they go, no result line is lost, and every tuple lands where it is meant to, which is a promise only as long as the results are requested with the length of their lines |
| `TransfersAreOver`, `FirstBatchAnswered` | co-processor host: when it is content, its transfer is over, and it has found what the conversion to integers leaves of the coefficients of the first batch, each in its place, whichever repetition it is in |
| `OneBatchTaken`, `FirstBatchWritten`, `FairMergerIsFair` | the function-style kernel takes one batch, what its streams hold and one item in each of two processes, and writes that batch's lines, whole and in order, and no other; `fair_merger` passes nobody by twice |
| `EachInputKeepsItsOrder`, `MergersRestoreOrder`, `PackagesAreNotTorn` | the mergers, whatever is sent: the words of an input keep their order and none is lost or doubled; mergers that can tell undo the splitter; packages stay whole, but for the exception of `fair_pkg_merger` |
| `ShiftedWordsAreWellFormed` | the chain of shifters and width converters, whatever is sent: no word on any stream is empty or has a gap, and all but the last of a package are whole |
| `WhatGoesInComesOut` | the same chain: what comes out is a beginning of what went in, octet by octet and package by package; with offset 0, of packages of less than a word |
| `BlocksAreAddedUpOnce` | whatever the number of blocks and threads and whoever works when: a repetition adds up every block once, none left over, none before it was ever received |
| `CollectorsAreExact` | as long as nothing, the product of two sums included, is too long for its word, the numerator and the denominators are the covariance and the variances of all items, however they were split, but for a negative covariance, which is off by the number of values of a word |
| `ChunksAreRecent`, `SumsAreFinished` | server threads add up chunks every part of which is of this repetition or the one before, but for the erased word; the OpenCL host verifies sums that have arrived and were computed from inputs that had |

*CORR.* The inductive invariant is `CorrTypeOK /\ ReadoutInv`. `ReadSumsAreZero`
is not inductive alone: that the sums *before* the index being read are zero
carries over to the next array only because the indices at rest are zero
(`IndicesAtRest`), and `LastMarksTheFinalSum` is what tells that the step to
COMPUTE is the one that reads the final product. The action property follows
from the invariant in the state before that step.

*CORR implements `BatchSums`.* The refinement mapping (`CorrCorrect`) gives `open`
what has been added up for the batch that is open (`OpenSums`: nothing while a
read-out goes on) and `out` what is owed (`Uncollected`: the stream, the pending
sum and the accumulators not read out yet). A read-out invocation leaves both as
they are: `ReadStep` shows that what it reads is the head of the unread list, by
reading positions 0 to F-1 across the three arrays (`SumAt`, `ReadPos`). The step
that accepts the final item of a batch turns F open sums into F owed ones.

*COEFF.* That its memories hold one batch cannot be shown from the memories
alone: FEED overwrites them one at a time. `StreamIsFramed` says that the sum
COEFF's counter expects is the one the stream brings; `FillsWithOneBatch` says
that what is stored, together with what is still in the stream, is one batch;
when the flagged sum is stored, it becomes `MemoriesHoldOneBatch`, and no state
but FEED writes the memories. The coefficients need `WalkAgreesWithIndex` and
the fact that a pair has only one index (`IndexInjective`), so that the
coefficient just written does not stand for another pair.

*RDMA hosts.* The inductive invariant `IInv` adds what the properties leave out:
`InStep` (master and server are in the same repetition, but for a server that is
about to erase; who has come to the end), `NothingIsLost` (posted = landed + on
the wire) and `CompletionsAreExact` (completions = landed since they were last
cleared). That completions stay below one repetition needs all three: the master
cannot have posted more than the server has cleared, plus one repetition.

*The order of the pairs.* `Pair` is a recursive function. Its defining equation
is proved by `PairRecursion` and the rest by induction over sets of indices
(`SetInduction`, from the well-foundedness of < on the naturals), because the
induction theorems of the library take an operator as a parameter.

*The kernel.* `SumsAreAligned` relates three counts of two processes modulo F, and
a step may take any of them back to 0. It is inductive only with
`LastEndsTheCount`: a sum in the stream carries the last flag exactly if the count
COEFF will have reached when it gets there is F. That is so because CORR raises
the flag exactly at its position 0 (`CorrAtRest`), and because of `SumsAreAligned`
in the state in which the sum joins the stream; in turn COEFF only takes its count
back where CORR took back its position. `Multiple`, `MultipleSum` and `WrapAround`
are the arithmetic.

*The kernel implements `Correlation`.* `Correlation` keeps only what was sent and
received; its sums are folds over the items sent. The inductive invariant
`KernelInv` says how far things have got, and all between is determined by it:
CORR has summed up `a` batches and `m` items of the next; COEFF is at batch `e`.
`ItemsInOrder`: the streams and the adapter hold exactly the items not yet summed,
each flagged as its place in the batch demands. `SumsInOrder`: what CORR has added
up are the partial sums of those `m` items, and what it owes, stream included,
are the sums COEFF has not taken, in order and with their place. `BatchAtHand`:
what COEFF has stored are the sums of batch `e`, and what it has computed are
coefficients of that batch. `AnswersInOrder`: what was received and what is on its
way (`Results`) are the coefficients of the batches 0 to `e`, in order. None of
the four is inductive alone, as each takes its input from the one before; what
CORR does to its streams is taken from the lemmas of `CorrProofs`, through
`K == INSTANCE CorrProofs`. `PartialNext` links the modular sums in the
accumulators to the total of `Correlation`, which is taken modulo W only at the end
(`TotalNext`, `TotalIs`: what a recursive function on 0 .. m is). That a batch is
answered only when it is whole is `BatchesAreSent`: what COEFF computes from, CORR
has summed, and what CORR has summed was sent.

*RDMA logic.* Three invariants, each on top of the one before. `RInv`: the slots
the DMA engine has are those of the beat on offer less those of its request, or,
while results go, of the lines not yet sent (`SlotsAreExact`): data and results
are taken only for slots, so that the request for the results is made before any
line goes. `KInv`: as long as kernel and host take beats together, the tuples
counted are the lines the kernel has taken, and its answer, two cycles away when
the batch is whole, finds the switch to results made (`KernelInStep`). `PInv`:
the beat and the request on offer begin where the counted tuples end, and the
final request ends where the results begin (`PlacesInStep`), so that the slots
follow one another from where the next line belongs (`SlotsInPlace`), and what
the line carries is what belongs there (`LineIsInPlace`). All but the types holds
only undisturbed (that the results get as many slots as they have tuples is what
`length` is excluded for), and every step of the proof uses which disturbance it excludes.

*Co-processor host.* `PollsWhatItCleared`: while lines of the transfer are to
come, those places, the final one among them, are as the host cleared them.
`CopInv` adds what the kernel does. All repetitions read the same coefficients
round and round, and transfers take them up where they stopped: `Aligned` says
that there is one g such that what is read out, pending, in the stream, at the
output and about to be written are the answers number g, g + 1, ... modulo P,
and that g is, modulo P, the line to write next. It holds in every state, but only
because the array of coefficients is right whenever it is read out, so the rest
has two phases. Up to the end of the first walk (`FirstAnswer`) nothing goes out,
and therefore nothing comes in but the first batch: the host is still in its first
repetition, because the line it polls is clear (`NothingToWrite`). Items, partial
sums, sums in the stream and memories are then all parts of that batch
(`ItemsOnTheWay`, `BatchSummed`, `SumsOnTheWay`, `MemoriesFill`); that COEFF uses
the right sample count follows, since it sets out only when CORR has read out all
sums. Afterwards (`Answered`) the walk is at its end for good and the array stays
as it is, whatever batches follow. `Walk` and `WalkIndex` show that the k-th step
of the walk is at the pair whose index is k, with 2 * k = i (2 N - i - 1) + 2 (j - i - 1)
in place of the division.

*Streams.* `ItemsFlow` counts the items in the source, in both data streams, in the
two processes that hold one, and in `cm_sum_products`. `FairInv`: who has been passed by is the input that is
preferred, and has a word. That what is in a stream is a sequence is
`IsAStream`, since no type of the words is needed. `LinesInv`, for the lines that
are written: the items keep their numbers through the streams, so that what each
stage adds up is the first n items; the first line in the streams of sums and of
squares is that of the first batch until it is written (`StageInv`), whatever
the stages add up behind it; of the lines of products w have been sent, and
those not taken are in the stream (`ProductsInv`); and what is written is a
prefix of the list of lines. `LineSizes` is why the lines of products are full, and
their number is N / 2 with the last half full: N is even.

*Mergers.* The inductive invariant `MergersInv` has four parts. `SplitInv`: the
state of the splitter tells which package the next word in the source is of
(`Tracks`), so each word goes to its own input. `ConservedInv`: for each input,
what was merged of it with what waits there is what was sent to it. It is kept
by whatever takes a word from an input, so one lemma per direction
(`SendConserves`, `TakeConserves`) does for all mergers. `RestoredInv`: a merger
that restores the order has merged the first words, and its state tells the input
of the next one; that this one waits at the head there is `NextInOrder`, from
what is conserved. `WholeInv`: while a package is not complete, the
merger stays with its input, where the next word is of the same package
(`NextOfPackage`, since the words of an input are those of whole packages:
`FromLinked`). `PlanIsPacked` is what all of them rest on: the words that are sent
are package after package. `From` and `FlattenSeq` are recursive functions;
`FromAppend` and `PlanIsPacked` say what the proofs need of them, by induction
over sets.

*Shifters.* What each function of the chain needs of the words it reads is in
`GoodWord`, and `ShiftersInv` says it of every stream and of what each function
keeps. That is not inductive: `rshiftWordByOctet` drops the first octets of a
package, and would send an empty word after a first word that has no more than
these. That the first words reach beyond the offset (`Reaches`) is true because
`lshiftWordByOctet` put that many octets before them, three functions earlier. So
`RolesFollow` says of every word in the chain whether it begins a package, and
whether it is an upper half: the words of a stream take up their roles where those
of the stream behind it end (`Runs`).

That the chain gives back what went in (`WhatGoesInComesOut`) takes a second
invariant, `ChainInv`, which says which octets a word has. A *spot* is a number of
octets into a package; `WordAt` is the word of a given width that begins there, in
packages with `offset` octets before them or with none. The words of a stream are
all that lie between two spots (`Leads`): the one up to which the function that
writes the stream has written and the one up to which the next has read. What a
function keeps in its registers is what lies between its own two spots
(`LShiftIsAt`, `HalfWidthIsAt`, `DoubleWidthIsAt`, `RShiftIsAt`), so each action
moves one or two spots on, and has to send or take just the words between.
`LShiftJoins`, `HalvesAt` and `RShiftJoins` are the arithmetic of it; the two
shifts are where a package may end in the word, in its remainder or in neither
(`NothingIsLeft`). With offset 0 the invariant claims nothing about
`rshiftWordByOctet` unless `Transparent` holds, because there it loses words.
`WordsMakePackages` says that words that lead from the first spot to another make
up the packages up to it, whatever `Packages` does with the words in between.

*Threads.* `ServerInv`: what has landed, up to the part that lands next, is of the
repetition the master is in, the rest of the one before (`MemoryIsSent`), threads
work only within their repetition, and so does what they have copied of a chunk. `WorkersInv`: the result of a thread is how its share
begins (`PartialResults`), and whole once the thread is through; a matrix of
`ss_eigenlib_th` that is not cleared is one that will be assigned to. That the
shares are disjoint and leave nothing out is arithmetic: the offsets of the
threads only grow, from 0 to the number of blocks (`Offsets`, `ShareFollows`), and
on the server every chunk below the last whole round is one of a round and a
thread (`SharesCover`, by division with remainder). `AllMerged` then adds the
threads up one after another, by induction over a set.

*Devices.* `CLInv`: each device has executed a number k of its
commands, and its inputs, its sums and those of the host are what the first k
commands leave.

*Collectors.* `CollectorsInv`: each collector `Holds` the exact sums of the items
it was given, which is so only because those sums never exceed the sums of all
items (`Summed`: sums of naturals grow) and these fit (`Fits`); a collector that
has wrapped tells nothing. That what is computed in the end is right takes more than
that the products fit: a variance must not be negative, or the unsigned
difference would be huge. `VarianceIsNatural` proves `s * s <= n * s2` from
the squares of the differences (`SquaresOfDifferences`, by induction over a set),
and from it follows that a covariance is small either way (`ExactIsSmall`), so that
adding the number of values of a word once makes a negative one what the code has.

**Only model-checked**: liveness (`InputIsNeverStuck`, `KeepsAnswering`,
`EveryBatchIsAnswered`, `EveryAnswerIsWritten`, `RepetitionsEnd`,
`CoprocessorEnds`, `EverythingArrives`, `BatchIsWritten`, `ProgramsEnd`), which
the prover cannot reach. What a recursive definition computes for every input is
only provable by the set induction above.

## 5. Not modelled

Floating point, timing and throughput; the interface pragmas; initialisation,
command lines, files and wiring; logging. Part by part:

* the memory wrapper of `hls/class_method/correlation.cpp` (153-215): its input
  adapter is commented out, nothing feeds it;
* in `axi_utils.hpp`, printing, opcode checks and bit helpers, which keep no state;
* reading (`oper` = 0) in the RDMA host, and the buffers it maps;
* `user_logic_c0_0.sv`, `user_wrapper_c0_0.sv`: wires;
* the test benches, which are the reference for what is expected: the models take
  their pair index and their numerator from there;
* `pcc_sums.cpp`, `pcc_dev.cpp`, `ss_eigenlib.cpp`, Python and GPU: one loop over an
  array, or one library call, in one thread and in floating point;
* the vendored OpenCL helpers and the scripts.

Some weaknesses lie outside what is modelled and are only listed: `amnes_bench`
reads on in an uninitialised buffer when its file is short; `ss_eigenlib_th` adds
up 8-bit products in 8-bit words; the OpenCL host compares with reference sums that
start uninitialised (`openCL/host/src/main.cpp:232`) and releases the wrong buffer (`:412`).

## 6. What is left

1. The transfer in the other direction (`oper` = 0) of the RDMA host.
