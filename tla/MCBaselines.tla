----------------------------- MODULE MCBaselines -----------------------------
(* One of the programs runs, chosen at the start; the others keep still.   *)
EXTENDS Workers, OpenCL, Collectors

CONSTANTS Values, ItemCounts

MCItemLists ==
    UNION {[1 .. n -> [0 .. Streams - 1 -> Values]] : n \in ItemCounts}

VARIABLE active
vars == <<workerVars, clVars, collectorVars, active>>

Init == /\ WorkersInit /\ CLInit /\ CollectorsInit
        /\ active \in {"workers", "opencl", "collectors"}
        /\ active # "workers" => program = "amnes_bench" /\ num_blocks = 1 /\ num_threads = 1
        /\ active # "opencl" => num_devices = 1
        /\ active # "collectors" => items = << >>

WorkersStep == active = "workers" /\ UNCHANGED <<clVars, collectorVars, active>>
CLStep      == active = "opencl" /\ UNCHANGED <<workerVars, collectorVars, active>>

Next == \/ WorkersNext /\ WorkersStep
        \/ CLNext /\ CLStep
        \/ active = "collectors" /\ CollectorsNext /\ UNCHANGED <<workerVars, clVars, active>>

(* Threads are scheduled, devices execute, and what is sent arrives.       *)
Spec == /\ Init /\ [][Next]_vars
        /\ WF_vars(Main /\ WorkersStep) /\ WF_vars(LandPart /\ WorkersStep)
        /\ \A t \in 0 .. 2 : WF_vars(t \in Threads /\ Work(t) /\ WorkersStep)
        /\ WF_vars(CLNext /\ CLStep)

(* Every repetition of the threaded programs ends (on the server, unless   *)
(* the announcement has been erased), and so does the OpenCL run.          *)
ProgramsEnd == /\ active = "workers" ~> WorkersEnded
               /\ active = "opencl" ~> step = "verify"
=============================================================================
