------------------------------ MODULE RdmaLogic ------------------------------
(***************************************************************************)
(* The user logic of coyote_integration/hdl_rdma: it passes what the RDMA  *)
(* stack writes to the host on to the kernel as well, and when a whole     *)
(* batch has passed, lets the kernel's results take the way to the host,   *)
(* with a write request of its own.  One step is one clock cycle.  The     *)
(* RDMA stack, the kernel and the DMA engine around it are external: they  *)
(* offer and stall as their interfaces allow.                              *)
(*                                                                         *)
(* Addresses and lengths are counted in tuples, from the start of the      *)
(* buffer a batch is written to.                                           *)
(***************************************************************************)
EXTENDS Integers, Sequences, SequencesExt

CONSTANTS
    T,          \* tuples of a cache line, 16
    Items,      \* register itemsReg: lines of a batch
    Cachelines, \* register pidReg: lines of the results
    lenReg,     \* register lenReg: how long the request for them says they are
    LenValues,  \* the values of its 12 bits that the request carries
    BeatSizes,  \* tuples a beat may carry, as its tkeep says
    Batches,    \* bound: batches the RDMA stack delivers
    MaxAnswers, \* bound: batches the kernel answers
    NoBeat

Full == Items * T

ASSUME RdmaAssumption ==
    /\ T \in Nat \ {0} /\ Items \in Nat \ {0} /\ Cachelines \in Nat \ {0}
    /\ lenReg \in Nat /\ LenValues \in Nat \ {0}
    /\ BeatSizes \subseteq 1 .. T /\ Batches \in Nat /\ MaxAnswers \in Nat
    /\ NoBeat \notin [batch : Nat, address : Nat, tuples : Nat]

VARIABLES
    s_count_tuples,     \* tuples of the batch that passed
    s_count_elem,       \* result lines sent
    s_data_to_coeff,    \* results, not data, go to the host
    s_req_sent,         \* the results have been requested
    corr_valid,         \* corr_wr_req.valid, a register
    \* The RDMA stack.
    sink,               \* the beat offered on axis_rdma_1_sink
    req, req_valid,     \* the request on rdma_1_wr_req
    batch, position,    \* where the next packet is written
    \* The kernel, with the converter axis_coeff_host.
    lines,              \* lines taken of the current batch
    answers,            \* batches it has answered
    settling,           \* cycles until an answer can be there
    given,              \* result lines taken from it
    rslt_valid,         \* a result line is offered on axis_rslt_host
    \* The DMA engine and host memory.
    engine_ready,       \* bpss_wr_req.ready
    slots,              \* addresses requested and not yet written
    memory              \* what was written where

logic  == <<s_count_tuples, s_count_elem, s_data_to_coeff, s_req_sent, corr_valid>>
stack  == <<sink, req, req_valid, batch, position>>
kernel == <<lines, answers, settling, given, rslt_valid>>
engine == <<engine_ready, slots, memory>>
vars   == <<logic, stack, kernel, engine>>

Addresses == 0 .. Full + Cachelines * T - 1

(* A tuple, by the batch and the address it is meant for. *)
Tuple(b, a) == [batch |-> b, address |-> a]
Nothing     == Tuple(0, 0)

Init ==
    /\ s_count_tuples = 0 /\ s_count_elem = 0
    /\ s_data_to_coeff = FALSE /\ s_req_sent = FALSE /\ corr_valid = FALSE
    /\ sink = NoBeat /\ req = [address |-> 0, len |-> 0] /\ req_valid = FALSE
    /\ batch = 1 /\ position = 0
    /\ lines = 0 /\ answers = 0 /\ settling = 0 /\ given = 0 /\ rslt_valid = FALSE
    /\ engine_ready = TRUE /\ slots = << >>
    /\ memory = [a \in Addresses |-> Nothing]
-----------------------------------------------------------------------------
(* The wires, for a cycle in which the kernel and the host are ready or    *)
(* not (kr, hr).  Each consumer sees valid without regard to the other.    *)

(* The line on axis_host_src: the tuples it carries. *)
ResultLine ==
    [k \in 1 .. T |-> Tuple(given \div Cachelines + 1,
                            Full + (given % Cachelines) * T + k - 1)]
SinkLine == [k \in 1 .. sink.tuples |-> Tuple(sink.batch, sink.address + k - 1)]

HostValid == IF s_data_to_coeff THEN rslt_valid ELSE sink # NoBeat
HostLine  == IF s_data_to_coeff THEN ResultLine ELSE SinkLine

SinkAccepted(kr, hr) == sink # NoBeat /\ kr /\ hr
KernelTakes(kr)      == sink # NoBeat /\ kr
HostTakes(hr)        == HostValid /\ hr
ResultAccepted(hr)   == rslt_valid /\ hr

(* The request on bpss_wr_req.  The one for the results starts where the   *)
(* last request of the RDMA stack ends; its length is a register of its    *)
(* own, s_len[11:0], not that of the lines that are counted.               *)
EngineRequest ==
    IF s_data_to_coeff
    THEN [valid |-> corr_valid, address |-> req.address + req.len,
          len |-> lenReg % LenValues]
    ELSE [valid |-> req_valid, address |-> req.address, len |-> req.len]

RequestAccepted == req_valid /\ engine_ready
-----------------------------------------------------------------------------
(* The registers at the next clock edge.  (Operators named "Bug..." are    *)
(* deliberate slips that model checking has to catch when they stand in    *)
(* for the operator after them.)                                           *)

BugOneLineShort  == s_count_elem + 1 = Cachelines
ResultsDone      == s_count_elem = Cachelines

CountTuples(kr, hr) ==
    s_count_tuples' = IF ResultsDone THEN 0
                      ELSE s_count_tuples +
                           IF SinkAccepted(kr, hr) THEN sink.tuples ELSE 0

BugNeverRearmed ==
    /\ corr_valid' = (s_data_to_coeff /\ engine_ready /\ ~s_req_sent)
    /\ s_req_sent' = (s_req_sent \/ corr_valid')
RequestResults ==
    /\ corr_valid' = (s_data_to_coeff /\ engine_ready /\ ~s_req_sent)
    /\ s_req_sent' = IF s_req_sent /\ ResultsDone THEN FALSE
                     ELSE s_req_sent \/ corr_valid'

(* The code also wants itemsReg not to be 0: RdmaAssumption.               *)
SwitchToResults(hr) ==
    /\ s_data_to_coeff' = IF ResultsDone THEN FALSE
                          ELSE s_data_to_coeff \/ s_count_tuples = Full
    /\ s_count_elem' = IF ResultsDone THEN 0
                       ELSE s_count_elem +
                            IF s_data_to_coeff /\ ResultAccepted(hr) THEN 1 ELSE 0
-----------------------------------------------------------------------------
(* External: the RDMA stack.  It offers a packet's request and its beat,   *)
(* holds each until it is accepted, and then may offer the next packet.    *)
(* After a request is accepted its fields stay on the wires.               *)
StackStep(kr, hr) ==
    LET idle == (sink = NoBeat \/ SinkAccepted(kr, hr))
                    /\ (~req_valid \/ RequestAccepted)
        rest == /\ sink' = IF SinkAccepted(kr, hr) THEN NoBeat ELSE sink
                /\ req_valid' = (req_valid /\ ~RequestAccepted)
                /\ UNCHANGED <<req, batch, position>>
        offer == /\ idle /\ batch <= Batches
                 /\ \E n \in BeatSizes :
                       /\ position + n <= Full
                       /\ sink' = [batch |-> batch, address |-> position, tuples |-> n]
                       /\ req' = [address |-> position, len |-> n]
                       /\ req_valid' = TRUE
                       /\ IF position + n = Full
                          THEN batch' = batch + 1 /\ position' = 0
                          ELSE batch' = batch /\ position' = position + n
    IN  rest \/ offer

(* External: the kernel.  It counts lines, whatever their tkeep, answers a *)
(* batch of Items lines no sooner than two cycles after its final line,    *)
(* and does not complete another batch before its answer is taken.         *)
Unread == answers * Cachelines - given
KernelCanTake == lines + 1 < Items \/ (Unread = 0 /\ answers < MaxAnswers)
KernelStep(kr, hr) ==
    LET left == Unread - IF ResultAccepted(hr) THEN 1 ELSE 0 IN
    /\ IF KernelTakes(kr)
       THEN IF lines + 1 = Items
            THEN lines' = 0 /\ answers' = answers + 1 /\ settling' = 2
            ELSE lines' = lines + 1 /\ UNCHANGED <<answers, settling>>
       ELSE /\ settling' = IF settling > 0 THEN settling - 1 ELSE 0
            /\ UNCHANGED <<lines, answers>>
    /\ given' = given + IF ResultAccepted(hr) THEN 1 ELSE 0
    /\ \/ rslt_valid' = (rslt_valid /\ ~ResultAccepted(hr))
       \/ left > 0 /\ settling = 0 /\ rslt_valid' = TRUE

(* External: the DMA engine.  It is ready for a request in some cycles and *)
(* not in others, queues those it takes, and takes lines only for these.   *)
HostCanTake == Len(slots) >= IF HostValid THEN Len(HostLine) ELSE 1
EngineStep(hr) ==
    LET r       == EngineRequest
        pushed  == IF r.valid /\ engine_ready
                   THEN [k \in 1 .. r.len |-> r.address + k - 1] ELSE << >>
        n       == IF HostTakes(hr) THEN Len(HostLine) ELSE 0
    IN  /\ engine_ready' \in BOOLEAN
        /\ slots' = SubSeq(slots, n + 1, Len(slots)) \o pushed
        /\ memory' = [a \in Addresses |->
               LET k == {i \in 1 .. n : slots[i] = a} IN
               IF k = {} THEN memory[a] ELSE HostLine[CHOOSE i \in k : \A j \in k : j <= i]]
-----------------------------------------------------------------------------
Cycle(kr, hr) ==
    /\ kr => KernelCanTake
    /\ hr => HostCanTake
    /\ CountTuples(kr, hr) /\ RequestResults /\ SwitchToResults(hr)
    /\ StackStep(kr, hr) /\ KernelStep(kr, hr) /\ EngineStep(hr)

Next == \E kr, hr \in BOOLEAN : Cycle(kr, hr)

Spec == Init /\ [][Next]_vars
=============================================================================
