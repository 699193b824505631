-------------------------------- MODULE OpenCL --------------------------------
(***************************************************************************)
(* openCL/host/src/main.cpp with the kernel of openCL/device: the host     *)
(* enqueues for each device two writes, the kernel and five reads, none of *)
(* which blocks, waits for one event of each device and verifies the sums. *)
(***************************************************************************)
EXTENDS Integers, SequencesExt

CONSTANTS N, DeviceCounts

ASSUME OpenCLAssumption == N \in Nat /\ DeviceCounts \subseteq Nat \ {0}

VARIABLES
    num_devices,
    step, launched,     \* the host: where run() is, devices it has launched
    queue,              \* commands a device has yet to execute
    input,              \* input buffers that have been written
    device,             \* the sums a kernel has left in its buffers
    sums                \* what has been read back

clVars == <<num_devices, step, launched, queue, input, device, sums>>

Inputs  == {"x", "y"}
Results == {"sum_x", "sum_y", "sum_sx", "sum_sy", "sum_p"}
Devices == 0 .. num_devices - 1

(* The elements are spread over the devices; each kernel is told N.        *)
n_per_device(i) == N \div num_devices + IF i < N % num_devices THEN 1 ELSE 0

(* The commands of a device, each with the commands it waits for.          *)
Commands ==
    <<[do |-> "write", what |-> "x"], [do |-> "write", what |-> "y"],
      [do |-> "kernel", what |-> "correlation"],
      [do |-> "read", what |-> "sum_x"], [do |-> "read", what |-> "sum_y"],
      [do |-> "read", what |-> "sum_sx"], [do |-> "read", what |-> "sum_sy"],
      [do |-> "read", what |-> "sum_p"]>>
WaitsFor(c) == IF c.do = "write" THEN {} ELSE IF c.do = "kernel" THEN {"write"} ELSE {"kernel"}

CLInit ==
    /\ num_devices \in DeviceCounts /\ step = "launch" /\ launched = 0
    /\ queue = [i \in Devices |-> << >>] /\ input = [i \in Devices |-> {}]
    /\ device = [i \in Devices |-> [s \in Results |-> "unset"]]
    /\ sums = [i \in Devices |-> [s \in Results |-> "unset"]]
-----------------------------------------------------------------------------
Launch ==
    /\ step = "launch"
    /\ queue' = [queue EXCEPT ![launched] = Commands]
    /\ launched' = launched + 1
    /\ step' = IF launched' = num_devices THEN "wait" ELSE "launch"
    /\ UNCHANGED <<num_devices, input, device, sums>>

(* A kernel adds up N elements, be there as many in its buffers or fewer.  *)
KernelResult(i) ==
    IF input[i] # Inputs THEN "unwritten" ELSE IF n_per_device(i) = N THEN "own" ELSE "beyond"

(* The queues are made without CL_QUEUE_OUT_OF_ORDER_EXEC_MODE_ENABLE.     *)
(* (Operators named "Bug..." are deliberate slips that model checking has  *)
(* to catch when they stand in for the operator after them.)               *)
BugOutOfOrder(i, k) == k \in DOMAIN queue[i]
NextInQueue(i, k) == queue[i] # << >> /\ k = 1
WaitListDone(c, i) == \A k \in DOMAIN queue[i] : queue[i][k].do \notin WaitsFor(c)
Execute(i, k) ==
    /\ NextInQueue(i, k)
    /\ LET c == queue[i][k] IN
       /\ WaitListDone(c, i)
       /\ input' = IF c.do = "write" THEN [input EXCEPT ![i] = @ \cup {c.what}] ELSE input
       /\ device' = IF c.do = "kernel"
                    THEN [device EXCEPT ![i] = [s \in Results |-> KernelResult(i)]] ELSE device
       /\ sums' = IF c.do = "read" THEN [sums EXCEPT ![i][c.what] = device[i][c.what]] ELSE sums
    /\ queue' = [queue EXCEPT ![i] = RemoveAt(@, k)]
    /\ UNCHANGED <<num_devices, step, launched>>

(* finish_event keeps the event of the read that was enqueued last.        *)
Finished(i) == \A k \in DOMAIN queue[i] : queue[i][k] # Commands[Len(Commands)]
WaitForEvents ==
    /\ step = "wait" /\ \A i \in Devices : Finished(i)
    /\ step' = "verify"
    /\ UNCHANGED <<num_devices, launched, queue, input, device, sums>>

Host == Launch \/ WaitForEvents
CLNext == Host \/ \E i \in Devices, k \in 1 .. Len(Commands) : Execute(i, k)
CLSpec == CLInit /\ [][CLNext]_clVars
-----------------------------------------------------------------------------
(* The host verifies sums that have all been read back, although it waits  *)
(* for one of five reads only (main.cpp:316), and that were computed from  *)
(* inputs that had arrived.  They are the sums of the device's elements    *)
(* when there is one device; with more, kernels read beyond their buffers  *)
(* (main.cpp:289), unless one device has all there is.                     *)
HasAllElements(i) == num_devices = 1 \/ N = 0 \/ (N = 1 /\ i = 0)
VerifiesFinishedSums ==
    step = "verify" => \A i \in Devices, s \in Results :
        sums[i][s] = IF HasAllElements(i) THEN "own" ELSE "beyond"
=============================================================================
