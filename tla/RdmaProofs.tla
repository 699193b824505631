----------------------------- MODULE RdmaProofs -----------------------------
(***************************************************************************)
(* The registers of the RDMA user logic and the places of the tuples that  *)
(* it writes, for any width of a line, length of a batch and of its        *)
(* results, and behaviour of what surrounds it.                            *)
(***************************************************************************)
EXTENDS RdmaCorrect, SequenceTheorems, TLAPS

(* No result line is left counted, disturbed or not.                       *)
CountIsTidy == ~s_data_to_coeff => s_count_elem = 0

RTypes ==
    /\ s_data_to_coeff \in BOOLEAN /\ s_req_sent \in BOOLEAN /\ corr_valid \in BOOLEAN
    /\ req_valid \in BOOLEAN /\ engine_ready \in BOOLEAN /\ rslt_valid \in BOOLEAN
    /\ s_count_elem \in 0 .. Cachelines
    /\ req.len \in Nat /\ req.address \in Nat /\ position \in Nat /\ batch \in Nat
    /\ sink = NoBeat \/ sink \in [batch : Nat, address : Nat, tuples : 1 .. T]
    /\ slots \in Seq(Nat)

(* Tuples of the beat on offer, and of the request on offer.               *)
Beat    == IF sink = NoBeat THEN 0 ELSE sink.tuples
Request == IF req_valid THEN req.len ELSE 0

(* While data goes to the host, the slots that have been requested and not *)
(* written are those of the beat on offer, less those of its request if it *)
(* is still on offer as well.  While results go, they are the lines that   *)
(* have not been sent, once requested; and until then there is none, so    *)
(* that no line can go before its request.                                 *)
SlotsAreExact ==
    Len(slots) = IF ~s_data_to_coeff THEN Beat - Request
                 ELSE IF s_req_sent /\ ~corr_valid THEN (Cachelines - s_count_elem) * T
                 ELSE 0

(* The request for the results goes out once, before any of their lines.   *)
RequestIsMadeOnce ==
    /\ corr_valid => s_req_sent /\ s_count_elem = 0
    /\ s_req_sent => s_data_to_coeff
    /\ s_count_elem > 0 => s_req_sent

RInv ==
    /\ RTypes /\ CountIsTidy
    /\ disturbed = {} => SlotsAreExact /\ RequestIsMadeOnce

LEMMA InitRInv == WInit => RInv
<1> USE RdmaAssumption
<1> SUFFICES ASSUME WInit PROVE RInv
    OBVIOUS
<1>1. RTypes /\ CountIsTidy
  <2>1. << >> \in Seq(Nat) /\ 0 \in 0 .. Cachelines
      OBVIOUS
  <2>2. req.len = 0 /\ req.address = 0 /\ slots \in Seq(Nat)
      BY <2>1 DEF WInit, Init
  <2> QED BY <2>1, <2>2 DEF WInit, Init, RTypes, CountIsTidy
<1>2. SlotsAreExact /\ RequestIsMadeOnce
    BY DEF WInit, Init, SlotsAreExact, RequestIsMadeOnce, Beat, Request
<1> QED BY <1>1, <1>2 DEF RInv

(* What is left of a sequence when its first elements are taken.           *)
LEMMA Dropped ==
    ASSUME NEW s \in Seq(Nat), NEW n \in Nat
    PROVE  /\ SubSeq(s, n + 1, Len(s)) \in Seq(Nat)
           /\ n <= Len(s) => Len(SubSeq(s, n + 1, Len(s))) = Len(s) - n
           /\ \A i \in 1 .. Len(s) - n : SubSeq(s, n + 1, Len(s))[i] = s[n + i]
<1>1. Len(s) \in Nat /\ \A i \in n + 1 .. Len(s) : s[i] \in Nat
    OBVIOUS
<1> DEFINE m == Len(s)
           rest == SubSeq(s, n + 1, m)
<1>2. /\ rest \in Seq(Nat)
      /\ Len(rest) = IF n + 1 <= m THEN m - (n + 1) + 1 ELSE 0
      /\ \A i \in 1 .. m - (n + 1) + 1 : rest[i] = s[(n + 1) + i - 1]
  <2>1. n + 1 \in Int /\ m \in Int /\ \A i \in n + 1 .. m : s[i] \in Nat
      BY <1>1
  <2> HIDE DEF m
  <2>2. SubSeq(s, n + 1, m) \in Seq(Nat)
      BY <2>1, SubSeqProperties
  <2>3. Len(SubSeq(s, n + 1, m)) = IF n + 1 <= m THEN m - (n + 1) + 1 ELSE 0
      BY <2>1, SubSeqProperties
  <2>4. \A i \in 1 .. m - (n + 1) + 1 : SubSeq(s, n + 1, m)[i] = s[(n + 1) + i - 1]
      BY <2>1, SubSeqProperties
  <2> QED BY <2>2, <2>3, <2>4
<1>3. m \in Nat
    BY <1>1
<1> HIDE DEF m, rest
<1>4. n <= m => Len(rest) = m - n
    BY <1>2, <1>3
<1>5. \A i \in 1 .. m - n : rest[i] = s[n + i]
  <2>1. \A i \in 1 .. m - n : (n + 1) + i - 1 = n + i /\ i \in 1 .. m - (n + 1) + 1
      BY <1>3
  <2> QED BY <1>2, <2>1
<1> QED BY <1>2, <1>4, <1>5 DEF m, rest

LEMMA LineLengths ==
    ASSUME RTypes
    PROVE  /\ HostValid => Len(HostLine) = IF s_data_to_coeff THEN T ELSE Beat
           /\ HostValid => Len(HostLine) \in Nat \ {0}
           /\ Beat \in Nat
<1> USE RdmaAssumption
<1>1. Len(ResultLine) = T
    BY DEF ResultLine
<1>2. sink # NoBeat => Len(SinkLine) = sink.tuples /\ sink.tuples \in Nat \ {0}
    BY DEF SinkLine, RTypes
<1> QED BY <1>1, <1>2 DEF HostValid, HostLine, Beat, RTypes

(* The types of the surroundings need nothing of the registers.            *)
LEMMA StepTypes ==
    ASSUME RInv, NEW kr \in BOOLEAN, NEW hr \in BOOLEAN, Cycle(kr, hr)
    PROVE  RTypes' /\ CountIsTidy'
<1> USE RdmaAssumption DEF RInv
<1>1. /\ s_data_to_coeff' \in BOOLEAN /\ s_req_sent' \in BOOLEAN /\ corr_valid' \in BOOLEAN
      /\ req_valid' \in BOOLEAN /\ engine_ready' \in BOOLEAN /\ rslt_valid' \in BOOLEAN
    BY DEF Cycle, SwitchToResults, RequestResults, StackStep, EngineStep, KernelStep, RTypes
<1>2. s_count_elem' \in 0 .. Cachelines /\ CountIsTidy'
    BY DEF Cycle, SwitchToResults, ResultsDone, RTypes, CountIsTidy
<1>3. /\ req'.len \in Nat /\ req'.address \in Nat /\ position' \in Nat /\ batch' \in Nat
      /\ sink' = NoBeat \/ sink' \in [batch : Nat, address : Nat, tuples : 1 .. T]
  <2>1. CASE sink' \in {sink, NoBeat} /\ UNCHANGED <<req, batch, position>>
      BY <2>1 DEF RTypes
  <2>2. CASE \E n \in BeatSizes :
               /\ sink' = [batch |-> batch, address |-> position, tuples |-> n]
               /\ req' = [address |-> position, len |-> n]
               /\ batch' \in {batch, batch + 1} /\ position' \in {0, position + n}
    <3>1. PICK n \in BeatSizes :
               /\ sink' = [batch |-> batch, address |-> position, tuples |-> n]
               /\ req' = [address |-> position, len |-> n]
               /\ batch' \in {batch, batch + 1} /\ position' \in {0, position + n}
        BY <2>2
    <3>2. n \in 1 .. T
        OBVIOUS
    <3> QED BY <3>1, <3>2 DEF RTypes
  <2> QED BY <2>1, <2>2 DEF Cycle, StackStep
<1>4. slots' \in Seq(Nat)
  <2> DEFINE n == IF HostTakes(hr) THEN Len(HostLine) ELSE 0
             pushed == IF EngineRequest.valid /\ engine_ready
                       THEN [k \in 1 .. EngineRequest.len |-> EngineRequest.address + k - 1]
                       ELSE << >>
  <2>1. slots' = SubSeq(slots, n + 1, Len(slots)) \o pushed
      BY DEF Cycle, EngineStep
  <2>2. pushed \in Seq(Nat)
    <3>1. EngineRequest.len \in Nat /\ EngineRequest.address \in Nat
        BY DEF EngineRequest, RTypes
    <3> QED BY <3>1
  <2>3. n \in Nat
      BY LineLengths DEF HostTakes
  <2> HIDE DEF n, pushed
  <2>4. SubSeq(slots, n + 1, Len(slots)) \in Seq(Nat)
      BY <2>3, Dropped DEF RTypes
  <2> QED BY <2>1, <2>2, <2>4, ConcatProperties
<1> QED BY <1>1, <1>2, <1>3, <1>4 DEF RTypes

(* A cycle takes the slots of the line the host takes and adds those of    *)
(* the request the engine takes.                                           *)
Taken(hr) == IF HostTakes(hr) THEN Len(HostLine) ELSE 0
Pushed == IF EngineRequest.valid /\ engine_ready THEN EngineRequest.len ELSE 0

LEMMA SlotsMove ==
    ASSUME RTypes, NEW kr \in BOOLEAN, NEW hr \in BOOLEAN, Cycle(kr, hr)
    PROVE  /\ Len(slots') = Len(slots) - Taken(hr) + Pushed
           /\ Len(slots) = 0 => ~HostTakes(hr)
           /\ Len(slots) \in Nat /\ Taken(hr) \in Nat /\ Pushed \in Nat
<1> DEFINE pushed == IF EngineRequest.valid /\ engine_ready
                     THEN [k \in 1 .. EngineRequest.len |-> EngineRequest.address + k - 1]
                     ELSE << >>
<1>1. slots' = SubSeq(slots, Taken(hr) + 1, Len(slots)) \o pushed
    BY DEF Cycle, EngineStep, Taken
<1>2. pushed \in Seq(Nat) /\ Len(pushed) = Pushed /\ Pushed \in Nat
  <2>1. EngineRequest.len \in Nat /\ EngineRequest.address \in Nat
      BY RdmaAssumption DEF EngineRequest, RTypes
  <2> QED BY <2>1 DEF Pushed
<1>3. /\ Taken(hr) \in Nat /\ Taken(hr) <= Len(slots) /\ Len(slots) \in Nat
      /\ Len(slots) = 0 => ~HostTakes(hr)
    BY LineLengths DEF Taken, HostTakes, Cycle, HostCanTake, RTypes
<1> HIDE DEF pushed
<1>4. /\ SubSeq(slots, Taken(hr) + 1, Len(slots)) \in Seq(Nat)
      /\ Len(SubSeq(slots, Taken(hr) + 1, Len(slots))) = Len(slots) - Taken(hr)
    BY <1>3, Dropped DEF RTypes
<1>5. Len(slots') = Len(SubSeq(slots, Taken(hr) + 1, Len(slots))) + Len(pushed)
    BY <1>1, <1>2, <1>4, ConcatProperties
<1> QED BY <1>2, <1>3, <1>4, <1>5

(* What becomes of the beat and of the request on offer.                   *)
LEMMA OffersMove ==
    ASSUME RTypes, RTypes', NEW kr \in BOOLEAN, NEW hr \in BOOLEAN, StackStep(kr, hr)
    PROVE  Beat' - Request' = (Beat - IF SinkAccepted(kr, hr) THEN Beat ELSE 0)
                              - (Request - IF RequestAccepted THEN Request ELSE 0)
<1> USE RdmaAssumption
<1>1. CASE /\ sink' = IF SinkAccepted(kr, hr) THEN NoBeat ELSE sink
           /\ (req_valid' <=> (req_valid /\ ~RequestAccepted))
           /\ UNCHANGED <<req, batch, position>>
    BY <1>1 DEF RTypes, Beat, Request, SinkAccepted, RequestAccepted
<1>2. CASE /\ sink = NoBeat \/ SinkAccepted(kr, hr)
           /\ ~req_valid \/ RequestAccepted
           /\ req_valid'
           /\ \E n \in BeatSizes :
                 /\ sink' = [batch |-> batch, address |-> position, tuples |-> n]
                 /\ req' = [address |-> position, len |-> n]
  <2>1. PICK n \in BeatSizes :
            /\ sink' = [batch |-> batch, address |-> position, tuples |-> n]
            /\ req' = [address |-> position, len |-> n]
      BY <1>2
  <2>2. n \in Nat /\ sink' \in [batch : Nat, address : Nat, tuples : Nat]
      BY <2>1 DEF RTypes
  <2>3. Beat' = n /\ Request' = n
      BY <1>2, <2>1, <2>2 DEF Beat, Request
  <2>4. (Beat - IF SinkAccepted(kr, hr) THEN Beat ELSE 0) = 0
      BY <1>2 DEF Beat, RTypes
  <2>5. (Request - IF RequestAccepted THEN Request ELSE 0) = 0
      BY <1>2 DEF Request, RTypes
  <2> QED BY <2>2, <2>3, <2>4, <2>5
<1>3. (req_valid' = (req_valid /\ ~RequestAccepted)) => (req_valid' <=> (req_valid /\ ~RequestAccepted))
    BY Zenon
<1>4. (req_valid' = TRUE) => req_valid'
    BY Zenon
<1> QED BY <1>1, <1>2, <1>3, <1>4 DEF StackStep

LEMMA StepUndisturbed ==
    ASSUME RInv, NEW kr \in BOOLEAN, NEW hr \in BOOLEAN, WatchedCycle(kr, hr),
           disturbed' = {}
    PROVE  SlotsAreExact' /\ RequestIsMadeOnce'
<1> USE RdmaAssumption
<1>1. /\ ~Apart(kr, hr) /\ ~Overlap /\ ~OtherLength /\ ~Unheard
      /\ SlotsAreExact /\ RequestIsMadeOnce /\ RTypes /\ CountIsTidy /\ Cycle(kr, hr)
    BY DEF WatchedCycle, Disturbances, RInv
<1>2. RTypes' /\ CountIsTidy'
    BY <1>1, StepTypes
<1>3. /\ Len(slots') = Len(slots) - Taken(hr) + Pushed
      /\ Len(slots) = 0 => ~HostTakes(hr)
      /\ Len(slots) \in Nat /\ Taken(hr) \in Nat /\ Pushed \in Nat
    BY <1>1, SlotsMove
<1>4. Beat' - Request' = (Beat - IF SinkAccepted(kr, hr) THEN Beat ELSE 0)
                         - (Request - IF RequestAccepted THEN Request ELSE 0)
    BY <1>1, <1>2, OffersMove DEF Cycle
<1>5. corr_valid' <=> (s_data_to_coeff /\ engine_ready /\ ~s_req_sent)
    BY <1>1, Zenon DEF Cycle, RequestResults
<1>6. s_req_sent' <=> IF s_req_sent /\ ResultsDone THEN FALSE ELSE s_req_sent \/ corr_valid'
    BY <1>1, <1>2 DEF Cycle, RequestResults, RTypes
<1>7. s_data_to_coeff' <=> IF ResultsDone THEN FALSE
                           ELSE s_data_to_coeff \/ s_count_tuples = Full
    BY <1>1, <1>2 DEF Cycle, SwitchToResults, RTypes
<1>8. s_count_elem' = IF ResultsDone THEN 0
                      ELSE s_count_elem + IF s_data_to_coeff /\ ResultAccepted(hr) THEN 1 ELSE 0
    BY <1>1 DEF Cycle, SwitchToResults
<1>9. Beat \in Nat /\ Request \in Nat /\ (sink = NoBeat => Beat = 0)
    BY <1>1 DEF RTypes, Beat, Request
<1>10. CASE ~s_data_to_coeff
  <2>1. ~ResultsDone /\ ~s_req_sent /\ ~corr_valid /\ s_count_elem = 0
      BY <1>1, <1>10 DEF CountIsTidy, RequestIsMadeOnce, ResultsDone
  <2>2. RequestIsMadeOnce' /\ ~s_req_sent' /\ ~corr_valid'
      BY <1>5, <1>6, <1>8, <1>10, <2>1 DEF RequestIsMadeOnce
  <2>3. Len(slots) = Beat - Request
      BY <1>1, <1>10 DEF SlotsAreExact
  <2>4. Taken(hr) = IF SinkAccepted(kr, hr) THEN Beat ELSE 0
      BY <1>1, <1>10, LineLengths
         DEF Taken, HostTakes, HostValid, SinkAccepted, Apart
  <2>5. Pushed = IF RequestAccepted THEN Request ELSE 0
      BY <1>10 DEF Pushed, EngineRequest, RequestAccepted, Request
  <2>6. CASE s_count_tuples # Full
    <3>1. Len(slots') = Beat' - Request' /\ ~s_data_to_coeff'
        BY <1>3, <1>4, <1>7, <1>9, <1>10, <2>3, <2>4, <2>5, <2>6
    <3> QED BY <2>2, <3>1 DEF SlotsAreExact
  <2>7. CASE s_count_tuples = Full
    <3>1. sink = NoBeat /\ ~req_valid
        BY <1>1, <2>7 DEF Overlap
    <3>2. Len(slots') = 0
        BY <1>3, <1>9, <2>3, <2>4, <2>5, <3>1 DEF Request
    <3>3. s_data_to_coeff'
        BY <1>7, <2>1, <2>7
    <3> QED BY <2>2, <3>2, <3>3 DEF SlotsAreExact
  <2> QED BY <2>6, <2>7
<1>11. CASE s_data_to_coeff
  <2>1. sink = NoBeat /\ ~req_valid /\ Beat = 0 /\ Request = 0
      BY <1>1, <1>9, <1>11 DEF Overlap, Request
  <2>2. Taken(hr) = IF ResultAccepted(hr) THEN T ELSE 0
      BY <1>1, <1>11, LineLengths DEF Taken, HostTakes, HostValid, ResultAccepted
  <2>3. Len(slots) = 0 => ~ResultAccepted(hr)
      BY <1>3, <1>11 DEF HostTakes, HostValid, ResultAccepted
  <2>4. Pushed = IF corr_valid /\ engine_ready THEN Cachelines * T ELSE 0
      BY <1>1, <1>11 DEF Pushed, EngineRequest, OtherLength
  <2>5. CASE ResultsDone
    <3>1. s_req_sent /\ ~corr_valid /\ Len(slots) = 0
      <4>1. s_req_sent /\ ~corr_valid /\ s_count_elem = Cachelines
          BY <1>1, <2>5 DEF ResultsDone, RequestIsMadeOnce
      <4>2. Cachelines - s_count_elem = 0
          BY <4>1
      <4> QED BY <1>1, <1>11, <4>1, <4>2 DEF SlotsAreExact
    <3>2. Len(slots') = 0
        BY <1>3, <2>2, <2>3, <2>4, <3>1
    <3>3. ~s_data_to_coeff' /\ ~s_req_sent' /\ ~corr_valid' /\ s_count_elem' = 0
        BY <1>5, <1>6, <1>7, <1>8, <2>5, <3>1
    <3>4. Beat' - Request' = 0
        BY <1>4, <2>1
    <3> QED BY <3>2, <3>3, <3>4 DEF SlotsAreExact, RequestIsMadeOnce
  <2>6. CASE ~ResultsDone /\ corr_valid
    <3>1. s_req_sent /\ engine_ready /\ s_count_elem = 0 /\ Len(slots) = 0
        BY <1>1, <1>11, <2>6 DEF RequestIsMadeOnce, SlotsAreExact, Unheard
    <3>2. Len(slots') = Cachelines * T
        BY <1>3, <2>2, <2>3, <2>4, <2>6, <3>1
    <3>3. s_data_to_coeff' /\ s_req_sent' /\ ~corr_valid' /\ s_count_elem' = 0
        BY <1>5, <1>6, <1>7, <1>8, <1>11, <2>3, <2>6, <3>1
    <3> QED BY <3>2, <3>3 DEF SlotsAreExact, RequestIsMadeOnce
  <2>7. CASE ~ResultsDone /\ ~corr_valid /\ s_req_sent
    <3>1. s_data_to_coeff' /\ s_req_sent' /\ ~corr_valid'
        BY <1>5, <1>6, <1>7, <1>11, <2>7
    <3>2. Len(slots) = (Cachelines - s_count_elem) * T /\ s_count_elem \in Nat
        BY <1>1, <1>11, <2>7 DEF SlotsAreExact, RTypes
    <3>3. Len(slots') = (Cachelines - s_count_elem') * T
      <4>1. CASE ResultAccepted(hr)
        <5>1. s_count_elem' = s_count_elem + 1 /\ Len(slots') = Len(slots) - T
            BY <1>3, <1>8, <1>11, <2>2, <2>4, <2>7, <4>1
        <5>2. (Cachelines - (s_count_elem + 1)) * T = (Cachelines - s_count_elem) * T - T
            BY <3>2
        <5> QED BY <3>2, <5>1, <5>2
      <4>2. CASE ~ResultAccepted(hr)
          BY <1>3, <1>8, <2>2, <2>4, <2>7, <3>2, <4>2
      <4> QED BY <4>1, <4>2
    <3> QED BY <3>1, <3>3 DEF SlotsAreExact, RequestIsMadeOnce
  <2>8. CASE ~ResultsDone /\ ~corr_valid /\ ~s_req_sent
    <3>1. Len(slots) = 0 /\ s_count_elem = 0
        BY <1>1, <1>11, <2>8 DEF SlotsAreExact, RequestIsMadeOnce, RTypes
    <3>2. Len(slots') = 0 /\ s_count_elem' = 0
        BY <1>3, <1>8, <2>2, <2>3, <2>4, <2>8, <3>1
    <3>3. s_data_to_coeff' /\ (s_req_sent' <=> corr_valid')
        BY <1>6, <1>7, <1>11, <2>8
    <3> QED BY <3>2, <3>3 DEF SlotsAreExact, RequestIsMadeOnce
  <2> QED BY <2>5, <2>6, <2>7, <2>8
<1> QED BY <1>1, <1>10, <1>11 DEF RTypes

LEMMA StepRInv == RInv /\ [WNext]_wvars => RInv'
<1> SUFFICES ASSUME RInv, [WNext]_wvars PROVE RInv'
    OBVIOUS
<1>1. ASSUME NEW kr \in BOOLEAN, NEW hr \in BOOLEAN, WatchedCycle(kr, hr) PROVE RInv'
  <2>1. RTypes' /\ CountIsTidy'
      BY <1>1, StepTypes DEF WatchedCycle
  <2>2. disturbed' = {} => SlotsAreExact' /\ RequestIsMadeOnce'
      BY <1>1, StepUndisturbed
  <2> QED BY <2>1, <2>2 DEF RInv
<1>2. CASE UNCHANGED wvars
    BY <1>2 DEF wvars, vars, logic, stack, kernel, engine, RInv, RTypes, CountIsTidy,
                SlotsAreExact, RequestIsMadeOnce, Beat, Request
<1> QED BY <1>1, <1>2 DEF WNext

(* Between two batches the registers are at rest, and, undisturbed, the    *)
(* results are requested once, before the first of their lines.            *)
THEOREM RegistersRest == WSpec => []RestBetweenBatches
<1>1. RInv => RestBetweenBatches
    BY DEF RInv, CountIsTidy, RequestIsMadeOnce, RestBetweenBatches
<1> QED BY <1>1, InitRInv, StepRInv, PTL DEF WSpec

(* With 8 lines and 512 bytes, as the hosts set the two registers, the     *)
(* request for the results is always of their length; 64 lines and 4096    *)
(* bytes already are not.                                                  *)
LEMMA LengthAgrees ==
    ASSUME lenReg = Cachelines * T, lenReg < LenValues
    PROVE  ~OtherLength
<1>1. lenReg % LenValues = lenReg
    BY RdmaAssumption
<1> QED BY <1>1 DEF OtherLength, EngineRequest
-----------------------------------------------------------------------------
(* The whole way of data and results.  While a batch passes, what has      *)
(* passed is what the kernel has taken, and no result is left or offered;  *)
(* when it has passed, the kernel's answer takes two cycles, which is what *)
(* the switch to results takes; from then on the kernel's lines are        *)
(* counted as they go.                                                     *)
DataPhase == ~s_data_to_coeff /\ s_count_tuples # Full
Answered  == ~s_data_to_coeff /\ s_count_tuples = Full

KTypes ==
    /\ s_count_tuples \in Nat /\ lines \in Nat /\ answers \in Nat
    /\ given \in Nat /\ settling \in Nat

KernelInStep ==
    /\ rslt_valid => s_data_to_coeff /\ Unread > 0
    /\ DataPhase => lines < Items /\ s_count_tuples = lines * T /\ Unread = 0
    /\ ~DataPhase => lines = 0 /\ s_count_tuples = Full
    /\ Answered => Unread = Cachelines /\ settling = 2
    /\ s_data_to_coeff => Unread = Cachelines - s_count_elem

KInv == RInv /\ KTypes /\ (disturbed = {} => KernelInStep)

LEMMA InitKInv == WInit => KInv
<1> USE RdmaAssumption
<1> SUFFICES ASSUME WInit PROVE KInv
    OBVIOUS
<1>1. KTypes
    BY DEF WInit, Init, KTypes
<1>2. Full \in Nat \ {0}
    BY DEF Full
<1>3. KernelInStep
    BY <1>2 DEF WInit, Init, KernelInStep, DataPhase, Answered, Unread
<1> QED BY <1>1, <1>3, InitRInv DEF KInv

(* A line more is the whole batch to the counter of tuples when it is to   *)
(* the kernel.                                                             *)
LEMMA LinesAndTuples ==
    ASSUME NEW n \in Nat, n < Items
    PROVE  /\ (n + 1) * T = n * T + T /\ (n + 1 = Items <=> (n + 1) * T = Full)
           /\ Full \in Nat \ {0}
<1> USE RdmaAssumption
<1>1. (n + 1) * T = n * T + T /\ Full \in Nat \ {0}
    BY DEF Full
<1>2. n + 1 = Items => (n + 1) * T = Full
    BY DEF Full
<1>3. n + 1 < Items => (n + 1) * T < Full
  <2> SUFFICES ASSUME n + 1 < Items PROVE (n + 1) * T < Full
      OBVIOUS
  <2>1. Items >= n + 2
      OBVIOUS
  <2>2. Items * T >= (n + 2) * T
      BY <2>1
  <2>3. (n + 2) * T = (n + 1) * T + T
      OBVIOUS
  <2> QED BY <2>2, <2>3 DEF Full
<1> QED BY <1>1, <1>2, <1>3

LEMMA StepKTypes ==
    ASSUME RInv, KTypes, NEW kr \in BOOLEAN, NEW hr \in BOOLEAN, Cycle(kr, hr)
    PROVE  KTypes'
<1> USE RdmaAssumption
<1>1. s_count_tuples' \in Nat
    BY DEF Cycle, CountTuples, SinkAccepted, KTypes, RInv, RTypes
<1>2. lines' \in Nat /\ answers' \in Nat /\ settling' \in Nat /\ given' \in Nat
    BY DEF Cycle, KernelStep, KTypes
<1> QED BY <1>1, <1>2 DEF KTypes

LEMMA StepKernelInStep ==
    ASSUME KInv, NEW kr \in BOOLEAN, NEW hr \in BOOLEAN, WatchedCycle(kr, hr),
           disturbed' = {}
    PROVE  KernelInStep'
<1> USE RdmaAssumption
<1>1. /\ ~Apart(kr, hr) /\ ~Overlap /\ ~Partial /\ SlotsAreExact /\ RequestIsMadeOnce
      /\ RTypes /\ CountIsTidy /\ KTypes /\ KernelInStep /\ Cycle(kr, hr)
    BY DEF WatchedCycle, Disturbances, KInv, RInv
<1>2. RTypes' /\ CountIsTidy' /\ KTypes'
    BY <1>1, StepTypes, StepKTypes DEF KInv
<1>3. s_data_to_coeff' <=> IF ResultsDone THEN FALSE
                           ELSE s_data_to_coeff \/ s_count_tuples = Full
    BY <1>1, <1>2 DEF Cycle, SwitchToResults, RTypes
<1>4. s_count_elem' = IF ResultsDone THEN 0
                      ELSE s_count_elem + IF s_data_to_coeff /\ ResultAccepted(hr) THEN 1 ELSE 0
    BY <1>1 DEF Cycle, SwitchToResults
<1>5. s_count_tuples' = IF ResultsDone THEN 0
                        ELSE s_count_tuples + IF SinkAccepted(kr, hr) THEN T ELSE 0
    BY <1>1 DEF Cycle, CountTuples, SinkAccepted, Partial, RTypes
<1>6. KernelTakes(kr) <=> SinkAccepted(kr, hr)
    BY <1>1 DEF KernelTakes, SinkAccepted, Apart
<1>7. /\ given' = given + IF ResultAccepted(hr) THEN 1 ELSE 0
      /\ \/ rslt_valid' <=> (rslt_valid /\ ~ResultAccepted(hr))
         \/ Unread - (IF ResultAccepted(hr) THEN 1 ELSE 0) > 0 /\ settling = 0 /\ rslt_valid'
    BY <1>1, <1>2 DEF Cycle, KernelStep, RTypes
<1>8. IF KernelTakes(kr)
      THEN IF lines + 1 = Items
           THEN lines' = 0 /\ answers' = answers + 1 /\ settling' = 2
           ELSE lines' = lines + 1 /\ UNCHANGED <<answers, settling>>
      ELSE UNCHANGED <<lines, answers>>
    BY <1>1 DEF Cycle, KernelStep
<1>9. /\ Unread \in Int /\ Unread = answers * Cachelines - given
      /\ Unread' = answers' * Cachelines - given' /\ Full \in Nat \ {0}
    BY <1>1 DEF KTypes, Unread, Full
<1>10. CASE DataPhase
  <2>1. /\ ~ResultsDone /\ ~s_data_to_coeff /\ s_count_elem = 0 /\ ~s_data_to_coeff'
        /\ ~rslt_valid /\ ~ResultAccepted(hr)
        /\ lines \in Nat /\ lines < Items /\ s_count_tuples = lines * T /\ Unread = 0
      BY <1>1, <1>3, <1>10
         DEF DataPhase, CountIsTidy, ResultsDone, KernelInStep, KTypes, ResultAccepted
  <2>2. ~rslt_valid' /\ given' = given
    <3>1. (IF ResultAccepted(hr) THEN 1 ELSE 0) = 0
        BY <2>1
    <3>2. given' = given
        BY <1>1, <1>7, <3>1 DEF KTypes
    <3>3. ~(Unread - (IF ResultAccepted(hr) THEN 1 ELSE 0) > 0)
        BY <2>1, <3>1
    <3>4. ~rslt_valid'
        BY <1>7, <2>1, <3>3
    <3> QED BY <3>2, <3>4
  <2>3. CASE ~SinkAccepted(kr, hr)
    <3>1. lines' = lines /\ answers' = answers /\ s_count_tuples' = s_count_tuples
        BY <1>1, <1>5, <1>6, <1>8, <2>1, <2>3 DEF KTypes
    <3>2. Unread' = 0 /\ DataPhase'
        BY <1>9, <1>10, <2>1, <2>2, <3>1 DEF DataPhase
    <3> QED BY <2>1, <2>2, <3>1, <3>2 DEF KernelInStep, DataPhase, Answered
  <2>4. CASE SinkAccepted(kr, hr) /\ lines + 1 < Items
    <3>1. /\ lines' = lines + 1 /\ answers' = answers /\ s_count_tuples' = lines * T + T
        BY <1>1, <1>5, <1>6, <1>8, <2>1, <2>4
    <3>2. s_count_tuples' = lines' * T /\ s_count_tuples' # Full
        BY <2>1, <2>4, <3>1, LinesAndTuples
    <3>3. Unread' = 0 /\ DataPhase'
        BY <1>9, <2>1, <2>2, <3>1, <3>2 DEF DataPhase
    <3> QED BY <2>1, <2>2, <2>4, <3>1, <3>2, <3>3 DEF KernelInStep, DataPhase, Answered
  <2>5. CASE SinkAccepted(kr, hr) /\ lines + 1 = Items
    <3>1. /\ lines' = 0 /\ answers' = answers + 1 /\ settling' = 2
          /\ s_count_tuples' = lines * T + T
        BY <1>1, <1>5, <1>6, <1>8, <2>1, <2>5
    <3>2. s_count_tuples' = Full
        BY <2>1, <2>5, <3>1, LinesAndTuples
    <3>3. Unread' = Cachelines
      <4>1. (answers + 1) * Cachelines = answers * Cachelines + Cachelines
          BY <1>1 DEF KTypes
      <4>2. answers * Cachelines \in Int /\ given \in Int
          BY <1>1 DEF KTypes
      <4> QED BY <1>9, <2>1, <2>2, <3>1, <4>1, <4>2
    <3> QED BY <2>1, <2>2, <3>1, <3>2, <3>3 DEF KernelInStep, DataPhase, Answered
  <2> QED BY <2>1, <2>3, <2>4, <2>5
<1>11. CASE ~DataPhase
  <2>1. sink = NoBeat /\ lines = 0 /\ s_count_tuples = Full
      BY <1>1, <1>11 DEF Overlap, KernelInStep, DataPhase
  <2>2. lines' = 0 /\ answers' = answers
      BY <1>6, <1>8, <2>1 DEF SinkAccepted
  <2>3. Unread' = Unread - IF ResultAccepted(hr) THEN 1 ELSE 0
    <3>1. answers * Cachelines \in Int /\ given \in Int
        BY <1>1 DEF KTypes
    <3> QED BY <1>7, <1>9, <2>2, <3>1
  <2>3a. ~ResultAccepted(hr) => Unread' = Unread
      BY <1>9, <2>3
  <2>4. CASE ~s_data_to_coeff
    <3>1. /\ ~ResultsDone /\ s_count_elem = 0 /\ s_data_to_coeff' /\ ~rslt_valid
          /\ Unread = Cachelines /\ settling = 2 /\ ~ResultAccepted(hr)
        BY <1>1, <1>3, <1>11, <2>1, <2>4
           DEF CountIsTidy, ResultsDone, KernelInStep, Answered, ResultAccepted
    <3>2. ~rslt_valid' /\ s_count_elem' = 0 /\ s_count_tuples' = Full /\ Unread' = Cachelines
        BY <1>4, <1>5, <1>7, <1>9, <2>1, <2>3, <2>4, <3>1 DEF SinkAccepted
    <3> QED BY <2>2, <3>1, <3>2 DEF KernelInStep, DataPhase, Answered
  <2>5. CASE s_data_to_coeff /\ ResultsDone
    <3>1. Unread = 0 /\ ~rslt_valid /\ ~ResultAccepted(hr)
        BY <1>1, <2>5 DEF KernelInStep, ResultsDone, ResultAccepted
    <3>2. ~s_data_to_coeff' /\ ~rslt_valid' /\ s_count_tuples' = 0 /\ Unread' = 0
      <4>1. (IF ResultAccepted(hr) THEN 1 ELSE 0) = 0
          BY <3>1
      <4>2. ~(Unread - (IF ResultAccepted(hr) THEN 1 ELSE 0) > 0)
          BY <3>1, <4>1
      <4>3. Unread' = 0
          BY <2>3a, <3>1
      <4>4. ~rslt_valid'
          BY <1>7, <3>1, <4>2
      <4> QED BY <1>3, <1>5, <2>5, <4>3, <4>4
    <3>3. DataPhase' /\ 0 * T = 0
        BY <1>9, <3>2 DEF DataPhase
    <3> QED BY <2>2, <3>2, <3>3 DEF KernelInStep, Answered, DataPhase
  <2>6. CASE s_data_to_coeff /\ ~ResultsDone
    <3>1. /\ s_data_to_coeff' /\ s_count_tuples' = Full
          /\ s_count_elem' = s_count_elem + IF ResultAccepted(hr) THEN 1 ELSE 0
        BY <1>3, <1>4, <1>5, <1>9, <2>1, <2>6 DEF SinkAccepted
    <3>2. Unread = Cachelines - s_count_elem /\ s_count_elem \in Nat /\ (rslt_valid => Unread > 0)
        BY <1>1, <2>6 DEF KernelInStep, RTypes
    <3>3. Unread' = Cachelines - s_count_elem'
        BY <2>3, <3>1, <3>2
    <3>4. rslt_valid' => Unread' > 0
        BY <1>7, <2>3, <3>2
    <3> QED BY <2>2, <3>1, <3>3, <3>4 DEF KernelInStep, DataPhase, Answered
  <2> QED BY <2>4, <2>5, <2>6
<1> QED BY <1>10, <1>11

LEMMA StepKInv == KInv /\ [WNext]_wvars => KInv'
<1> SUFFICES ASSUME KInv, [WNext]_wvars PROVE KInv'
    OBVIOUS
<1>1. RInv'
    BY StepRInv DEF KInv
<1>2. ASSUME NEW kr \in BOOLEAN, NEW hr \in BOOLEAN, WatchedCycle(kr, hr) PROVE KInv'
    BY <1>1, <1>2, StepKTypes, StepKernelInStep DEF KInv, WatchedCycle
<1>3. CASE UNCHANGED wvars
    BY <1>1, <1>3 DEF wvars, vars, logic, stack, kernel, engine, KInv, KTypes, KernelInStep,
                DataPhase, Answered, Unread
<1> QED BY <1>2, <1>3 DEF WNext

(* Undisturbed, the switch to results is never late: no line of results    *)
(* is taken before it, whatever the kernel and the host are ready for.     *)
THEOREM NoLineLost == WSpec => NoResultLineIsLost
<1>1. KInv /\ [WNext]_wvars => [disturbed' = {} /\ given' # given => s_data_to_coeff]_wvars
  <2> SUFFICES ASSUME KInv, NEW kr \in BOOLEAN, NEW hr \in BOOLEAN, WatchedCycle(kr, hr),
                      disturbed' = {}, given' # given
               PROVE  s_data_to_coeff
      BY DEF WNext
  <2>1. disturbed = {} /\ given' = given + IF ResultAccepted(hr) THEN 1 ELSE 0
      BY DEF WatchedCycle, Cycle, KernelStep
  <2>2. rslt_valid
      BY <2>1 DEF ResultAccepted, KInv, KTypes
  <2> QED BY <2>1, <2>2 DEF KInv, KernelInStep
<1> QED BY <1>1, InitKInv, StepKInv, PTL DEF WSpec, NoResultLineIsLost
-----------------------------------------------------------------------------
(* Where the beat and the request on offer come to lie: behind what has    *)
(* passed.  The final request ends where the data does.                    *)
Offered == s_count_tuples + Beat
PlacesInStep ==
    /\ DataPhase => /\ Offered <= Full
                    /\ position = IF Offered = Full THEN 0 ELSE Offered
                    /\ sink # NoBeat => sink.address = s_count_tuples
                    /\ req_valid => sink # NoBeat /\ req.address = sink.address
                                    /\ req.len = sink.tuples
                    /\ Offered > 0 => req.address + req.len = Offered
    /\ ~DataPhase /\ sink = NoBeat /\ ~req_valid =>
           position = 0 /\ req.address + req.len = Full

(* The slots that are left follow what has been written.                   *)
Written == IF s_data_to_coeff THEN Full + s_count_elem * T ELSE s_count_tuples
SlotsInPlace == \A i \in 1 .. Len(slots) : slots[i] = Written + i - 1

PInv ==
    /\ KInv /\ DOMAIN memory = Addresses
    /\ disturbed = {} => PlacesInStep /\ SlotsInPlace /\ WritesLandInPlace

LEMMA InitPInv == WInit => PInv
<1> SUFFICES ASSUME WInit PROVE PInv
    OBVIOUS
<1>1. Full \in Nat \ {0}
    BY RdmaAssumption DEF Full
<1>2. PlacesInStep
    BY <1>1 DEF WInit, Init, PlacesInStep, DataPhase, Offered, Beat
<1>3. SlotsInPlace /\ DOMAIN memory = Addresses /\ WritesLandInPlace
    BY DEF WInit, Init, SlotsInPlace, WritesLandInPlace
<1> QED BY <1>2, <1>3, InitKInv DEF PInv

(* The slots after a cycle, one by one.                                    *)
LEMMA SlotsShift ==
    ASSUME RTypes, NEW kr \in BOOLEAN, NEW hr \in BOOLEAN, Cycle(kr, hr)
    PROVE  \A i \in 1 .. Len(slots') :
              slots'[i] = IF i <= Len(slots) - Taken(hr) THEN slots[Taken(hr) + i]
                          ELSE EngineRequest.address + (i - (Len(slots) - Taken(hr))) - 1
<1> DEFINE pushed == IF EngineRequest.valid /\ engine_ready
                     THEN [k \in 1 .. EngineRequest.len |-> EngineRequest.address + k - 1]
                     ELSE << >>
           kept == SubSeq(slots, Taken(hr) + 1, Len(slots))
<1>1. slots' = kept \o pushed
    BY DEF Cycle, EngineStep, Taken
<1>2. /\ pushed \in Seq(Nat) /\ Len(pushed) \in Nat
      /\ \A k \in 1 .. Len(pushed) : pushed[k] = EngineRequest.address + k - 1
  <2>1. EngineRequest.len \in Nat /\ EngineRequest.address \in Nat
      BY RdmaAssumption DEF EngineRequest, RTypes
  <2> QED BY <2>1
<1>3. Taken(hr) \in Nat /\ Taken(hr) <= Len(slots) /\ Len(slots) \in Nat
    BY LineLengths DEF Taken, HostTakes, Cycle, HostCanTake, RTypes
<1> HIDE DEF pushed
<1>4. /\ kept \in Seq(Nat) /\ Len(kept) = Len(slots) - Taken(hr)
      /\ \A i \in 1 .. Len(slots) - Taken(hr) : kept[i] = slots[Taken(hr) + i]
    BY <1>3, Dropped DEF RTypes
<1> HIDE DEF kept
<1>5. /\ Len(slots') = Len(kept) + Len(pushed)
      /\ \A i \in 1 .. Len(kept) + Len(pushed) :
            slots'[i] = IF i <= Len(kept) THEN kept[i] ELSE pushed[i - Len(kept)]
    BY <1>1, <1>2, <1>4, ConcatProperties
<1>6. ASSUME NEW i \in 1 .. Len(slots')
      PROVE  slots'[i] = IF i <= Len(slots) - Taken(hr) THEN slots[Taken(hr) + i]
                         ELSE EngineRequest.address + (i - (Len(slots) - Taken(hr))) - 1
  <2>1. CASE i <= Len(slots) - Taken(hr)
      BY <1>3, <1>4, <1>5, <2>1
  <2>2. CASE ~(i <= Len(slots) - Taken(hr))
    <3>1. i - Len(kept) \in 1 .. Len(pushed)
        BY <1>2, <1>3, <1>4, <1>5, <2>2
    <3> QED BY <1>2, <1>3, <1>4, <1>5, <2>2, <3>1
  <2> QED BY <2>1, <2>2
<1> QED BY <1>6

(* A place counted over all answers is a place in the present one.         *)
LEMMA PlaceInAnswer ==
    ASSUME NEW a \in Int, NEW e \in 0 .. Cachelines - 1, a * Cachelines + e \in Nat
    PROVE  (a * Cachelines + e) % Cachelines = e
<1> USE RdmaAssumption
<1> DEFINE x == a * Cachelines + e
           q == x \div Cachelines
           m == x % Cachelines
<1>1. x = Cachelines * q + m /\ m \in 0 .. Cachelines - 1 /\ q \in Int /\ x \in Int
    BY Z3
<1>2. Cachelines * (a - q) = m - e
  <2>1. Cachelines * (a - q) = Cachelines * a - Cachelines * q
      BY <1>1
  <2>2. x = Cachelines * a + e /\ Cachelines * a \in Int /\ Cachelines * q \in Int
      BY <1>1
  <2> HIDE DEF x, q, m
  <2> DEFINE ca == Cachelines * a
             cq == Cachelines * q
  <2>3. ca \in Int /\ cq \in Int /\ x = cq + m /\ x = ca + e /\ m \in Int
      BY <1>1, <2>2
  <2> HIDE DEF ca, cq
  <2>4. ca - cq = m - e
      BY <2>3
  <2> QED BY <2>1, <2>4 DEF ca, cq
<1>3. a - q <= 0
  <2> SUFFICES ASSUME a - q >= 1 PROVE FALSE
      BY <1>1
  <2>1. Cachelines * (a - q) >= Cachelines
      BY <1>1
  <2> QED BY <1>1, <1>2, <2>1
<1>4. a - q >= 0
  <2> SUFFICES ASSUME a - q <= -1 PROVE FALSE
      BY <1>1
  <2>1. Cachelines * (a - q) <= -Cachelines
      BY <1>1
  <2> QED BY <1>1, <1>2, <2>1
<1>5. a - q = 0
    BY <1>1, <1>3, <1>4
<1> QED BY <1>1, <1>2, <1>5

(* What an undisturbed cycle can rely on.                                  *)
LEMMA UndisturbedCycle ==
    ASSUME PInv, NEW kr \in BOOLEAN, NEW hr \in BOOLEAN, WatchedCycle(kr, hr),
           disturbed' = {}
    PROVE  /\ ~Apart(kr, hr) /\ ~Overlap /\ ~Partial /\ ~OtherLength /\ ~Unheard
           /\ SlotsAreExact /\ RequestIsMadeOnce /\ CountIsTidy /\ KernelInStep
           /\ PlacesInStep /\ SlotsInPlace /\ WritesLandInPlace
           /\ RTypes /\ KTypes /\ RTypes' /\ KTypes' /\ Cycle(kr, hr)
           /\ Full \in Nat \ {0} /\ Beat \in Nat /\ Request \in Nat
           /\ s_data_to_coeff' <=> IF ResultsDone THEN FALSE
                                   ELSE s_data_to_coeff \/ s_count_tuples = Full
<1>1. /\ ~Apart(kr, hr) /\ ~Overlap /\ ~Partial /\ ~OtherLength /\ ~Unheard
      /\ SlotsAreExact /\ RequestIsMadeOnce /\ RTypes /\ CountIsTidy /\ KTypes /\ KernelInStep /\ Cycle(kr, hr)
      /\ PlacesInStep /\ SlotsInPlace /\ WritesLandInPlace
    BY DEF WatchedCycle, Disturbances, PInv, KInv, RInv
<1>2. RTypes' /\ KTypes'
    BY <1>1, StepTypes, StepKTypes DEF PInv, KInv
<1>3. Full \in Nat \ {0} /\ Beat \in Nat /\ Request \in Nat
    BY <1>1, RdmaAssumption DEF Full, RTypes, Beat, Request
<1>4. s_data_to_coeff' <=> IF ResultsDone THEN FALSE
                           ELSE s_data_to_coeff \/ s_count_tuples = Full
    BY <1>1, <1>2 DEF Cycle, SwitchToResults, RTypes
<1> QED BY <1>1, <1>2, <1>3, <1>4

(* While data passes: a beat is only handed over when its request has been *)
(* accepted, for there are no slots for it before.                         *)
LEMMA DataCycle ==
    ASSUME PInv, NEW kr \in BOOLEAN, NEW hr \in BOOLEAN, WatchedCycle(kr, hr),
           disturbed' = {}, DataPhase
    PROVE  /\ ~ResultsDone /\ ~s_data_to_coeff'
           /\ Len(slots) = Beat - Request
           /\ Taken(hr) = IF SinkAccepted(kr, hr) THEN Beat ELSE 0
           /\ Pushed = IF RequestAccepted THEN Request ELSE 0
           /\ SinkAccepted(kr, hr) => ~req_valid
           /\ s_count_tuples' = s_count_tuples + IF SinkAccepted(kr, hr) THEN Beat ELSE 0
           /\ s_count_tuples \in Nat
<1> USE RdmaAssumption, UndisturbedCycle
<1>1. ~s_data_to_coeff /\ s_count_tuples # Full /\ s_count_elem = 0 /\ ~ResultsDone
    BY DEF DataPhase, CountIsTidy, ResultsDone
<1>2. ~s_data_to_coeff'
    BY <1>1
<1>3. Len(slots) = Beat - Request
    BY <1>1 DEF SlotsAreExact
<1>4. Taken(hr) = IF SinkAccepted(kr, hr) THEN Beat ELSE 0
    BY <1>1, LineLengths DEF Taken, HostTakes, HostValid, SinkAccepted, Apart
<1>5. Pushed = IF RequestAccepted THEN Request ELSE 0
    BY <1>1 DEF Pushed, EngineRequest, RequestAccepted, Request
<1>6. SinkAccepted(kr, hr) => ~req_valid
  <2> SUFFICES ASSUME SinkAccepted(kr, hr), req_valid PROVE FALSE
      OBVIOUS
  <2>1. Request = Beat
      BY DEF PlacesInStep, Request, Beat
  <2>2. Len(slots) = 0
      BY <1>3, <2>1
  <2>3. HostTakes(hr)
      BY <1>1 DEF HostTakes, HostValid, SinkAccepted
  <2> QED BY <2>2, <2>3, SlotsMove
<1>7. s_count_tuples' = s_count_tuples + IF SinkAccepted(kr, hr) THEN Beat ELSE 0
    BY <1>1 DEF Cycle, CountTuples, SinkAccepted, Beat
<1> QED BY <1>1, <1>2, <1>3, <1>4, <1>5, <1>6, <1>7 DEF KTypes

(* While it does not: nothing is offered, and slots are only there when    *)
(* the results have been requested.                                        *)
LEMMA ResultCycle ==
    ASSUME PInv, NEW kr \in BOOLEAN, NEW hr \in BOOLEAN, WatchedCycle(kr, hr),
           disturbed' = {}, ~DataPhase
    PROVE  /\ sink = NoBeat /\ ~req_valid /\ position = 0 /\ req.address + req.len = Full
           /\ ~SinkAccepted(kr, hr) /\ s_count_tuples = Full
           /\ s_count_tuples' = IF ResultsDone THEN 0 ELSE Full
           /\ s_data_to_coeff' <=> ~ResultsDone
           /\ ~s_data_to_coeff \/ ResultsDone \/ corr_valid => Len(slots) = 0 /\ Taken(hr) = 0
           /\ Pushed = IF corr_valid /\ engine_ready THEN Cachelines * T ELSE 0
           /\ corr_valid => s_data_to_coeff /\ ~ResultsDone /\ s_count_elem = 0
           /\ s_data_to_coeff => Taken(hr) = IF ResultAccepted(hr) THEN T ELSE 0
<1> USE RdmaAssumption, UndisturbedCycle
<1>1. /\ sink = NoBeat /\ ~req_valid /\ position = 0 /\ req.address + req.len = Full
      /\ ~SinkAccepted(kr, hr) /\ s_count_tuples = Full
    BY DEF Overlap, KernelInStep, DataPhase, PlacesInStep, SinkAccepted
<1>2. s_count_tuples' = IF ResultsDone THEN 0 ELSE Full
    BY <1>1 DEF Cycle, CountTuples
<1>3. s_data_to_coeff' <=> ~ResultsDone
    BY <1>1 DEF DataPhase
<1>4. corr_valid => s_data_to_coeff /\ ~ResultsDone /\ s_count_elem = 0 /\ s_req_sent
    BY DEF RequestIsMadeOnce, ResultsDone
<1>5. Pushed = IF corr_valid /\ engine_ready THEN Cachelines * T ELSE 0
    BY <1>1, <1>4 DEF Pushed, EngineRequest, OtherLength
<1>6. s_data_to_coeff => Taken(hr) = IF ResultAccepted(hr) THEN T ELSE 0
    BY LineLengths DEF Taken, HostTakes, HostValid, ResultAccepted
<1>7. ~s_data_to_coeff \/ ResultsDone \/ corr_valid => Len(slots) = 0
  <2>1. CASE ~s_data_to_coeff
      BY <1>1, <2>1 DEF SlotsAreExact, Beat, Request
  <2>2. CASE corr_valid
      BY <1>4, <2>2 DEF SlotsAreExact
  <2>3. CASE s_data_to_coeff /\ ResultsDone
    <3>1. Cachelines - s_count_elem = 0
        BY <2>3 DEF ResultsDone
    <3> QED BY <2>3, <3>1 DEF SlotsAreExact
  <2> QED BY <2>1, <2>2, <2>3
<1>8. Len(slots) = 0 => Taken(hr) = 0
    BY SlotsMove DEF Taken
<1> QED BY <1>1, <1>2, <1>3, <1>4, <1>5, <1>6, <1>7, <1>8

(* The stack goes on, or offers a packet when it has nothing else to offer.*)
LEMMA StackMoves ==
    ASSUME RTypes, RTypes', NEW kr \in BOOLEAN, NEW hr \in BOOLEAN, Cycle(kr, hr)
    PROVE  \/ /\ sink' = IF SinkAccepted(kr, hr) THEN NoBeat ELSE sink
              /\ req_valid' => req_valid
              /\ UNCHANGED <<req, batch, position>>
           \/ /\ sink = NoBeat \/ SinkAccepted(kr, hr)
              /\ \E n \in BeatSizes :
                    /\ n \in Nat \ {0} /\ position + n <= Full
                    /\ sink' # NoBeat /\ sink'.address = position /\ sink'.tuples = n
                    /\ req'.address = position /\ req'.len = n
                    /\ position' = IF position + n = Full THEN 0 ELSE position + n
<1> USE RdmaAssumption
<1>1. (req_valid' = (req_valid /\ ~RequestAccepted)) => (req_valid' => req_valid)
    BY Zenon
<1>2. ASSUME NEW n \in BeatSizes,
             sink' = [batch |-> batch, address |-> position, tuples |-> n]
      PROVE  n \in Nat \ {0} /\ sink' # NoBeat
  <2>1. n \in Nat \ {0}
      OBVIOUS
  <2>2. sink' \in [batch : Nat, address : Nat, tuples : Nat]
      BY <1>2, <2>1 DEF RTypes
  <2> QED BY <2>1, <2>2
<1> QED BY <1>1, <1>2 DEF Cycle, StackStep

LEMMA StepPlaces ==
    ASSUME PInv, NEW kr \in BOOLEAN, NEW hr \in BOOLEAN, WatchedCycle(kr, hr),
           disturbed' = {}
    PROVE  PlacesInStep'
<1> USE RdmaAssumption
<1>1. /\ PlacesInStep /\ RTypes /\ RTypes' /\ KTypes /\ KTypes' /\ Cycle(kr, hr)
      /\ Full \in Nat \ {0} /\ Beat \in Nat /\ Request \in Nat
    BY UndisturbedCycle
<1>2. CASE DataPhase
  <2>1. /\ ~s_data_to_coeff' /\ s_count_tuples \in Nat
        /\ s_count_tuples' = s_count_tuples + IF SinkAccepted(kr, hr) THEN Beat ELSE 0
        /\ SinkAccepted(kr, hr) => ~req_valid
      BY <1>2, DataCycle
  <2>2. CASE ~SinkAccepted(kr, hr) /\ sink' = sink /\ (req_valid' => req_valid)
             /\ UNCHANGED <<req, batch, position>>
      BY <1>1, <1>2, <2>1, <2>2 DEF PlacesInStep, DataPhase, Offered, Beat
  <2>3. CASE SinkAccepted(kr, hr) /\ sink' = NoBeat /\ ~req_valid'
             /\ UNCHANGED <<req, batch, position>>
    <3>1. Beat' = 0 /\ s_count_tuples' = Offered /\ Offered' = Offered /\ Offered > 0
        BY <1>1, <2>1, <2>3 DEF Beat, Offered, SinkAccepted, RTypes
    <3> QED BY <1>1, <1>2, <2>1, <2>3, <3>1 DEF PlacesInStep, DataPhase
  <2>4. CASE /\ sink = NoBeat \/ SinkAccepted(kr, hr)
             /\ \E n \in BeatSizes :
                    /\ n \in Nat \ {0} /\ position + n <= Full
                    /\ sink' # NoBeat /\ sink'.address = position /\ sink'.tuples = n
                    /\ req'.address = position /\ req'.len = n
                    /\ position' = IF position + n = Full THEN 0 ELSE position + n
    <3>1. PICK n \in BeatSizes :
                    /\ n \in Nat \ {0} /\ position + n <= Full
                    /\ sink' # NoBeat /\ sink'.address = position /\ sink'.tuples = n
                    /\ req'.address = position /\ req'.len = n
                    /\ position' = IF position + n = Full THEN 0 ELSE position + n
        BY <2>4
    <3>2. s_count_tuples' = Offered /\ Offered' = Offered + n /\ Offered \in Nat
        BY <1>1, <2>1, <2>4, <3>1 DEF Beat, Offered, SinkAccepted
    <3>3. CASE Offered # Full
        BY <1>1, <1>2, <2>1, <3>1, <3>2, <3>3 DEF PlacesInStep, DataPhase
    <3>4. CASE Offered = Full
        BY <1>1, <2>1, <3>1, <3>2, <3>4 DEF PlacesInStep, DataPhase
    <3> QED BY <3>3, <3>4
  <2> QED BY <1>1, <2>1, <2>2, <2>3, <2>4, StackMoves
<1>3. CASE ~DataPhase
  <2>1. /\ sink = NoBeat /\ ~req_valid /\ position = 0 /\ req.address + req.len = Full
        /\ ~SinkAccepted(kr, hr)
        /\ s_count_tuples' = IF ResultsDone THEN 0 ELSE Full
        /\ s_data_to_coeff' <=> ~ResultsDone
      BY <1>3, ResultCycle
  <2>2. DataPhase' => s_count_tuples' = 0
      BY <2>1 DEF DataPhase
  <2>3. CASE sink' = NoBeat /\ ~req_valid' /\ UNCHANGED <<req, batch, position>>
      BY <1>1, <2>1, <2>2, <2>3 DEF PlacesInStep, Offered, Beat
  <2>4. CASE \E n \in BeatSizes :
                    /\ n \in Nat \ {0} /\ position + n <= Full
                    /\ sink' # NoBeat /\ sink'.address = position /\ sink'.tuples = n
                    /\ req'.address = position /\ req'.len = n
                    /\ position' = IF position + n = Full THEN 0 ELSE position + n
      BY <1>1, <2>1, <2>2, <2>4 DEF PlacesInStep, Offered, Beat
  <2> QED BY <1>1, <2>1, <2>3, <2>4, StackMoves
<1> QED BY <1>2, <1>3

LEMMA StepSlots ==
    ASSUME PInv, NEW kr \in BOOLEAN, NEW hr \in BOOLEAN, WatchedCycle(kr, hr),
           disturbed' = {}
    PROVE  SlotsInPlace'
<1> USE RdmaAssumption
<1>1. /\ RTypes /\ RTypes' /\ KTypes /\ Cycle(kr, hr) /\ SlotsInPlace /\ PlacesInStep
      /\ SlotsAreExact
      /\ Full \in Nat \ {0} /\ Beat \in Nat /\ Request \in Nat
    BY UndisturbedCycle
<1>2. /\ Len(slots') = Len(slots) - Taken(hr) + Pushed
      /\ Len(slots) \in Nat /\ Taken(hr) \in Nat /\ Pushed \in Nat
    BY <1>1, SlotsMove
<1>3. \A i \in 1 .. Len(slots') :
          slots'[i] = IF i <= Len(slots) - Taken(hr) THEN slots[Taken(hr) + i]
                      ELSE EngineRequest.address + (i - (Len(slots) - Taken(hr))) - 1
    BY <1>1, SlotsShift
<1>4. SUFFICES ASSUME NEW i \in 1 .. Len(slots') PROVE slots'[i] = Written' + i - 1
    BY DEF SlotsInPlace
<1>5. CASE DataPhase
  <2>1. /\ ~s_data_to_coeff /\ ~s_data_to_coeff' /\ s_count_tuples \in Nat
        /\ Len(slots) = Beat - Request
        /\ Taken(hr) = IF SinkAccepted(kr, hr) THEN Beat ELSE 0
        /\ Pushed = IF RequestAccepted THEN Request ELSE 0
        /\ SinkAccepted(kr, hr) => ~req_valid
        /\ s_count_tuples' = s_count_tuples + IF SinkAccepted(kr, hr) THEN Beat ELSE 0
      BY <1>5, DataCycle DEF DataPhase
  <2>2. ~SinkAccepted(kr, hr)
    <3> SUFFICES ASSUME SinkAccepted(kr, hr) PROVE FALSE
        OBVIOUS
    <3>1. Request = 0 /\ Pushed = 0
        BY <2>1 DEF Request, RequestAccepted
    <3>2. Len(slots') = 0
        BY <1>1, <1>2, <2>1, <3>1
    <3> QED BY <3>2
  <2>3. Taken(hr) = 0 /\ Written' = s_count_tuples /\ Written = s_count_tuples
      BY <2>1, <2>2 DEF Written, KTypes
  <2>4. CASE i <= Len(slots)
      BY <1>1, <1>2, <1>3, <2>3, <2>4 DEF SlotsInPlace
  <2>5. CASE ~(i <= Len(slots))
    <3>1. RequestAccepted
        BY <1>2, <2>1, <2>3, <2>5
    <3>2. req_valid /\ sink # NoBeat /\ req.address = s_count_tuples /\ req.len = sink.tuples
        BY <1>1, <1>5, <3>1 DEF RequestAccepted, PlacesInStep
    <3>3. Len(slots) = 0
        BY <1>1, <2>1, <3>2 DEF Beat, Request
    <3>4. EngineRequest.address = s_count_tuples
        BY <2>1, <3>2 DEF EngineRequest
    <3>5. slots'[i] = EngineRequest.address + (i - (Len(slots) - Taken(hr))) - 1
        BY <1>2, <1>3, <2>3, <2>5
    <3>6. i \in Int /\ s_count_tuples \in Int
        BY <1>2, <2>1
    <3> QED BY ONLY <2>3, <3>3, <3>4, <3>5, <3>6
  <2> QED BY <2>4, <2>5
<1>6. CASE ~DataPhase
  <2>1. /\ req.address + req.len = Full
        /\ s_data_to_coeff' <=> ~ResultsDone
        /\ ~s_data_to_coeff \/ ResultsDone \/ corr_valid => Len(slots) = 0 /\ Taken(hr) = 0
        /\ Pushed = IF corr_valid /\ engine_ready THEN Cachelines * T ELSE 0
        /\ corr_valid => s_data_to_coeff /\ ~ResultsDone /\ s_count_elem = 0
        /\ s_data_to_coeff => Taken(hr) = IF ResultAccepted(hr) THEN T ELSE 0
      BY <1>6, ResultCycle
  <2>2. s_data_to_coeff /\ ~ResultsDone
    <3> SUFFICES ASSUME ~s_data_to_coeff \/ ResultsDone PROVE FALSE
        OBVIOUS
    <3>1. Pushed = 0 /\ Len(slots) = 0 /\ Taken(hr) = 0
        BY <2>1
    <3>2. Len(slots') = 0
        BY <1>2, <3>1
    <3> QED BY <3>2
  <2>3. /\ Written = Full + s_count_elem * T /\ Written' = Full + s_count_elem' * T
        /\ s_count_elem' = s_count_elem + IF ResultAccepted(hr) THEN 1 ELSE 0
        /\ s_count_elem \in Nat
    <3>1. Written = Full + s_count_elem * T
        BY <2>2 DEF Written
    <3>2. Written' = Full + s_count_elem' * T
        BY <2>1, <2>2 DEF Written, Full
    <3>3. s_count_elem' = s_count_elem + IF ResultAccepted(hr) THEN 1 ELSE 0
        BY <1>1, <2>2 DEF Cycle, SwitchToResults
    <3>4. s_count_elem \in Nat
        BY <1>1 DEF RTypes
    <3> QED BY <3>1, <3>2, <3>3, <3>4
  <2>4. CASE corr_valid
    <3>1. Taken(hr) = 0 /\ Len(slots) = 0 /\ ~ResultAccepted(hr) /\ s_count_elem = 0
        BY <2>1, <2>2, <2>4
    <3>2. Written' = Full /\ EngineRequest.address = Full
        BY <1>1, <2>2, <2>3, <3>1, <2>1 DEF EngineRequest
    <3> QED BY <1>1, <1>2, <1>3, <3>1, <3>2
  <2>5. CASE ~corr_valid
    <3>1. Pushed = 0 /\ Taken(hr) = IF ResultAccepted(hr) THEN T ELSE 0
        BY <2>1, <2>2, <2>5
    <3>2. Taken(hr) + i \in 1 .. Len(slots) /\ i <= Len(slots) - Taken(hr) /\ i \in Int
        BY <1>2, <3>1
    <3>3. slots'[i] = Written + (Taken(hr) + i) - 1
        BY <1>1, <1>3, <3>2 DEF SlotsInPlace
    <3>4. Written' = Written + Taken(hr) /\ Written \in Int
      <4>1. (s_count_elem + 1) * T = s_count_elem * T + T /\ s_count_elem * T \in Int
          BY <2>3
      <4>2. CASE ResultAccepted(hr)
          BY <1>1, <2>3, <3>1, <4>1, <4>2
      <4>3. CASE ~ResultAccepted(hr)
          BY <1>1, <2>3, <3>1, <4>1, <4>3
      <4> QED BY <4>2, <4>3
    <3>5. Taken(hr) \in Int /\ i \in Int
        BY <1>2, <3>2
    <3> QED BY ONLY <3>3, <3>4, <3>5
  <2> QED BY <2>4, <2>5
<1> QED BY <1>5, <1>6

(* A line of results goes where the first slot left is.                    *)
LEMMA LineIsInPlace ==
    ASSUME PInv, NEW kr \in BOOLEAN, NEW hr \in BOOLEAN, WatchedCycle(kr, hr),
           disturbed' = {}, HostTakes(hr)
    PROVE  \A i \in 1 .. Len(HostLine) : HostLine[i].address = Written + i - 1
<1> USE RdmaAssumption, UndisturbedCycle
<1>1. CASE s_data_to_coeff
  <2>1. rslt_valid /\ Unread = Cachelines - s_count_elem /\ Unread > 0
      BY <1>1 DEF HostTakes, HostValid, KernelInStep
  <2>2. s_count_elem \in 0 .. Cachelines - 1
    <3>1. s_count_elem \in 0 .. Cachelines
        BY DEF RTypes
    <3> QED BY ONLY <2>1, <3>1, RdmaAssumption
  <2>3. given = (answers - 1) * Cachelines + s_count_elem
    <3>1. (answers - 1) * Cachelines = answers * Cachelines - Cachelines
        BY DEF KTypes
    <3>2. answers * Cachelines \in Int /\ given \in Int
          /\ answers * Cachelines - given = Cachelines - s_count_elem
        BY <2>1 DEF KTypes, Unread
    <3> QED BY <2>2, <3>1, <3>2
  <2>4. given % Cachelines = s_count_elem
    <3>1. answers - 1 \in Int /\ Cachelines \in Nat \ {0} /\ given \in Nat
        BY DEF KTypes
    <3>2. (answers - 1) * Cachelines + s_count_elem \in Nat
        BY <2>3, <3>1
    <3> HIDE RdmaAssumption, UndisturbedCycle
    <3>3. ((answers - 1) * Cachelines + s_count_elem) % Cachelines = s_count_elem
        BY <2>2, <3>1, <3>2, PlaceInAnswer
    <3> QED BY <2>3, <3>3
  <2>5. HostLine = ResultLine /\ Len(ResultLine) = T
      BY <1>1 DEF HostLine, ResultLine
  <2> QED BY <1>1, <2>4, <2>5 DEF ResultLine, Tuple, Written
<1>2. CASE ~s_data_to_coeff
  <2>1. DataPhase /\ sink # NoBeat
      BY <1>2 DEF HostTakes, HostValid, DataPhase, Overlap
  <2>2. sink.address = s_count_tuples /\ Written = s_count_tuples
      BY <1>2, <2>1 DEF PlacesInStep, Written
  <2>3. HostLine = SinkLine /\ Len(SinkLine) = sink.tuples
    <3>1. sink.tuples \in Nat
      <4>1. sink \in [batch : Nat, address : Nat, tuples : 1 .. T]
          BY <2>1 DEF RTypes
      <4> QED BY ONLY <4>1, RdmaAssumption
    <3>2. ASSUME NEW n \in Nat
          PROVE  Len([k \in 1 .. n |-> Tuple(sink.batch, sink.address + k - 1)]) = n
        BY ONLY <3>2
    <3> QED BY <1>2, <3>1, <3>2 DEF HostLine, SinkLine
  <2> QED BY <2>2, <2>3 DEF SinkLine, Tuple
<1> QED BY <1>1, <1>2

LEMMA StepWrites ==
    ASSUME PInv, NEW kr \in BOOLEAN, NEW hr \in BOOLEAN, WatchedCycle(kr, hr),
           disturbed' = {}
    PROVE  WritesLandInPlace'
<1>0. /\ disturbed = {} /\ Cycle(kr, hr) /\ WritesLandInPlace /\ SlotsInPlace
      /\ RTypes /\ KTypes
    BY UndisturbedCycle DEF WatchedCycle
<1>1. SUFFICES ASSUME NEW a \in Addresses, memory'[a] # Nothing
               PROVE  memory'[a].address = a
    BY DEF WritesLandInPlace, Addresses
<1> DEFINE K == {i \in 1 .. Taken(hr) : slots[i] = a}
<1>2. memory'[a] = IF K = {} THEN memory[a]
                   ELSE HostLine[CHOOSE i \in K : \A j \in K : j <= i]
  <2>1. EngineStep(hr)
      BY <1>0 DEF Cycle
  <2> QED BY <2>1, <1>1 DEF EngineStep, Taken
<1>3. CASE K = {}
  <2>1. memory'[a] = memory[a]
      BY <1>2, <1>3
  <2> QED BY <1>0, <1>1, <2>1 DEF WritesLandInPlace
<1>4. CASE K # {}
  <2>1. HostTakes(hr) /\ Taken(hr) = Len(HostLine) /\ Taken(hr) \in Nat /\ Taken(hr) <= Len(slots)
    <3>1. HostTakes(hr)
        BY <1>4, SMT DEF Taken
    <3>2. HostValid /\ hr /\ HostCanTake
        BY <1>0, <3>1 DEF HostTakes, Cycle
    <3> QED BY <1>0, <3>1, <3>2, LineLengths DEF Taken, HostCanTake
  <2>2. \A i \in 1 .. Taken(hr) : slots[i] = Written + i - 1 /\ HostLine[i].address = Written + i - 1
    <3>1. \A i \in 1 .. Taken(hr) : HostLine[i].address = Written + i - 1
        BY <2>1, LineIsInPlace
    <3>2. Len(slots) \in Nat
        BY <1>0 DEF RTypes
    <3> QED BY <1>0, <2>1, <3>1, <3>2 DEF SlotsInPlace
  <2>3. PICK i \in K : TRUE
      BY <1>4
  <2>4. Written \in Int
    <3>1. s_count_elem * T \in Int
        BY <1>0, RdmaAssumption DEF RTypes
    <3>2. Full \in Int /\ s_count_tuples \in Int
        BY <1>0, UndisturbedCycle DEF KTypes
    <3> QED BY <3>1, <3>2 DEF Written
  <2>5. \A j \in K : j = i
      BY <2>1, <2>2, <2>3, <2>4
  <2>6. K = {i} /\ i \in 1 .. Taken(hr) /\ slots[i] = a
      BY <2>3, <2>5
  <2>7. i <= i
      BY <2>1, <2>6
  <2>8. (CHOOSE k \in K : \A j \in K : j <= k) = i
      BY <2>6, <2>7
  <2>9. memory'[a] = HostLine[i]
      BY <1>2, <1>4, <2>8
  <2> QED BY <2>2, <2>6, <2>9
<1> QED BY <1>3, <1>4

LEMMA StepPInv == PInv /\ [WNext]_wvars => PInv'
<1> SUFFICES ASSUME PInv, [WNext]_wvars PROVE PInv'
    OBVIOUS
<1>1. KInv'
    BY StepKInv DEF PInv
<1>2. ASSUME NEW kr \in BOOLEAN, NEW hr \in BOOLEAN, WatchedCycle(kr, hr) PROVE PInv'
  <2>1. DOMAIN memory' = Addresses
      BY <1>2 DEF WatchedCycle, Cycle, EngineStep
  <2>2. disturbed' = {} => PlacesInStep' /\ SlotsInPlace' /\ WritesLandInPlace'
      BY <1>2, StepPlaces, StepSlots, StepWrites
  <2> QED BY <1>1, <2>1, <2>2 DEF PInv, Addresses
<1>3. CASE UNCHANGED wvars
    BY <1>1, <1>3 DEF wvars, vars, logic, stack, kernel, engine, PInv, PlacesInStep, DataPhase,
                Offered, Beat, SlotsInPlace, Written, WritesLandInPlace
<1> QED BY <1>2, <1>3 DEF WNext

(* Undisturbed, every tuple is written where it is meant to go, the        *)
(* results right behind the data.  A register of the length that agrees    *)
(* with the lines does not disturb this, as long as its 12 bits reach: it  *)
(* is LengthAgrees that limits how many lines an answer may have.          *)
THEOREM TuplesInPlace == WSpec => []WritesLandInPlace
<1>1. PInv => WritesLandInPlace
  <2> SUFFICES ASSUME PInv PROVE WritesLandInPlace
      OBVIOUS
  <2>1. CASE disturbed = {}
      BY <2>1 DEF PInv
  <2>2. CASE disturbed # {}
      BY <2>2 DEF WritesLandInPlace
  <2> QED BY <2>1, <2>2
<1> QED BY <1>1, InitPInv, StepPInv, PTL DEF WSpec
=============================================================================
