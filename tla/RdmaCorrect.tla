----------------------------- MODULE RdmaCorrect -----------------------------
(***************************************************************************)
(* What must hold of the RDMA user logic.  Some of it holds whatever the   *)
(* components around it do; the rest holds until one of five things        *)
(* happens, which the variable disturbed keeps a record of.                *)
(***************************************************************************)
EXTENDS RdmaLogic

VARIABLE disturbed
wvars == <<vars, disturbed>>

(* Of kernel and host, only one takes the beat that both are shown. *)
Apart(kr, hr) == sink # NoBeat /\ kr # hr
(* The next batch begins before the results of this one are out. *)
Overlap == (sink # NoBeat \/ req_valid) /\ (s_data_to_coeff \/ s_count_tuples = Full)
(* A beat is not a full line, but the kernel counts it as one. *)
Partial == sink # NoBeat /\ sink.tuples < T
(* The request for the results finds an engine that was ready in the cycle *)
(* before and is not any more: it is lost, since it is valid for one cycle.*)
Unheard == s_data_to_coeff /\ corr_valid /\ ~engine_ready
(* The results are requested with another length than that of their lines: *)
(* the two registers disagree, or the lines are more than 12 bits can say, *)
(* as from 64 lines of 64 bytes on.                                        *)
OtherLength == s_data_to_coeff /\ corr_valid /\ EngineRequest.len # Cachelines * T

Disturbances(kr, hr) == (IF Apart(kr, hr) THEN {"apart"} ELSE {})
                        \cup (IF Overlap THEN {"overlap"} ELSE {})
                        \cup (IF Partial THEN {"partial"} ELSE {})
                        \cup (IF Unheard THEN {"unheard"} ELSE {})
                        \cup (IF OtherLength THEN {"length"} ELSE {})

WatchedCycle(kr, hr) == Cycle(kr, hr)
                        /\ disturbed' = disturbed \cup Disturbances(kr, hr)
WNext == \E kr, hr \in BOOLEAN : WatchedCycle(kr, hr)

WInit == Init /\ disturbed = {}
WSpec == WInit /\ [][WNext]_wvars

(* A cycle in which nobody who has something to do holds back. *)
Prompt == /\ WatchedCycle(KernelCanTake, HostCanTake)
          /\ engine_ready'
          /\ Unread' > 0 /\ settling = 0 => rslt_valid'
FairWSpec == WSpec /\ WF_wvars(Prompt)

(* Between the results of one batch and those of the next the registers    *)
(* are at rest: no result line is left counted, whatever happens; and, if  *)
(* undisturbed, the request for the results is made while they are sent,   *)
(* before any of them, and is not left marked as made afterwards, which    *)
(* would keep the next batch from being answered.                          *)
RestBetweenBatches ==
    /\ ~s_data_to_coeff => s_count_elem = 0
    /\ disturbed = {} => /\ corr_valid => s_req_sent
                         /\ s_req_sent => s_data_to_coeff
                         /\ s_count_elem > 0 => s_req_sent

(* Data and results share one path of lines and one path of requests, that *)
(* only match by their order.  Undisturbed, they match: every tuple is     *)
(* written where it is meant to go, the results right behind the data.     *)
WritesLandInPlace ==
    disturbed = {} =>
        \A a \in Addresses : memory[a] # Nothing => memory[a].address = a

(* axis_rslt_host is given ready even while data goes to the host, and a   *)
(* result line taken then is gone.  Undisturbed, none is.                  *)
NoResultLineIsLost ==
    [][disturbed' = {} /\ given' # given => s_data_to_coeff]_wvars

(* Every answer of the kernel comes to be in host memory, behind the data. *)
EveryAnswerIsWritten ==
    \A b \in 1 .. Batches :
        answers >= b ~> \/ disturbed # {}
                        \/ \A a \in Addresses : a >= Full => memory[a].batch >= b

(* design_user_logic_c0_0_rdma.sv:229-231 draws axis_rdma_1_sink as the    *)
(* source of both axis_corr_data and axis_host_src: the kernel takes a     *)
(* beat only when the beat is handed over.                                 *)
BeatsReachBothOrNeither ==
    [][lines' # lines \/ answers' # answers => sink' # sink]_wvars

(* design_user_logic_c0_0_rdma.sv:246-248 draws rdma_1_wr_req as a source  *)
(* of bpss_wr_req: a request that is accepted is passed on.                *)
RequestsReachTheEngine ==
    [][RequestAccepted =>
         IsSuffix([k \in 1 .. req.len |-> req.address + k - 1], slots')]_wvars
=============================================================================
