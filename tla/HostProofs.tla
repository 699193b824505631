----------------------------- MODULE HostProofs -----------------------------
(***************************************************************************)
(* The safety of the repetitions of the two host programs, HostRdma and    *)
(* Coprocessor, for any number of them: of the former for any number of    *)
(* transfers in each, of the latter for any number of lanes and items,      *)
(* with what is in the lines when the host goes on.                        *)
(***************************************************************************)
EXTENDS HostRdma, Coprocessor, TLAPS

(* Types alone; that done and landed stay in their bounds is found below.  *)
Types ==
    /\ master \in {"post", "sync", "end"}
    /\ server \in {"start", "wait", "result", "clear", "sync", "erase", "end", "thrown"}
    /\ rep_m \in 1 .. Reps /\ rep_s \in 1 .. Reps /\ posted \in 0 .. Transfers
    /\ stalled \in BOOLEAN /\ done \in Nat
    /\ wire \in Seq(1 .. Reps) /\ due \in Seq(1 .. Reps)
    /\ landed \in Nat
    /\ ptrMem \in 0 .. Reps /\ lastRst \in 0 .. Reps

(* Both are in the same repetition, but for the server about to erase.     *)
InStep ==
    /\ \/ rep_m = rep_s
       \/ rep_m = rep_s + 1 /\ server = "erase"
    /\ rep_m = rep_s /\ server \in {"erase", "end"} => master = "end"
    /\ master = "end" => rep_m = Reps /\ rep_s = Reps /\ server \in {"erase", "end"}

(* No data of a repetition that the master has not come to.                *)
DataIsPosted ==
    /\ ptrMem <= rep_m
    /\ \A i \in 1 .. Len(wire) : wire[i] <= rep_m

(* What has been posted has landed or is on the wire.                      *)
NothingIsLost ==
    /\ landed + Len(wire) = IF master = "post" THEN (rep_m - 1) * Transfers + posted
                                               ELSE rep_m * Transfers
    /\ master # "post" => posted = 0

(* The repetitions whose completions have been cleared.                    *)
Counted == IF server \in {"sync", "erase", "end"} THEN rep_s ELSE rep_s - 1

(* The server's completions are the transfers landed since.                *)
CompletionsAreExact == landed = Counted * Transfers + done

IInv ==
    /\ Types /\ InStep /\ DataIsPosted /\ NothingIsLost /\ CompletionsAreExact
    /\ WholeBatchHasLanded

-----------------------------------------------------------------------------
LEMMA InitIInv == Init => IInv
<1> USE HostAssumption
<1> SUFFICES ASSUME Init PROVE IInv
    OBVIOUS
<1>1. Types
  <2>1. << >> \in Seq(1 .. Reps)
      OBVIOUS
  <2>2. 0 \in 0 .. Transfers /\ 1 \in 1 .. Reps /\ 0 \in 0 .. Reps
      OBVIOUS
  <2>3. wire \in Seq(1 .. Reps) /\ due \in Seq(1 .. Reps)
      BY <2>1 DEF Init
  <2> QED BY <2>2, <2>3 DEF Init, Types
<1>2. InStep /\ DataIsPosted /\ NothingIsLost /\ WholeBatchHasLanded
    BY DEF Init, InStep, DataIsPosted, NothingIsLost, WholeBatchHasLanded
<1>3. CompletionsAreExact
    BY DEF Init, CompletionsAreExact, Counted
<1> QED BY <1>1, <1>2, <1>3 DEF IInv

LEMMA StepIInv == IInv /\ [Next]_vars => IInv'
<1> USE HostAssumption DEF WholeBatchHasLanded, Counted
<1> SUFFICES ASSUME IInv, [Next]_vars PROVE IInv'
    OBVIOUS
<1> USE DEF IInv
<1>1. CASE Post
  <2>1. Types' /\ wire' = Append(wire, rep_m)
      BY <1>1 DEF Post, Types
  <2>2. DataIsPosted'
      BY <1>1, <2>1 DEF Post, Types, DataIsPosted
  <2>3. NothingIsLost'
      BY <1>1, <2>1 DEF Post, Types, NothingIsLost
  <2>4. InStep' /\ CompletionsAreExact' /\ WholeBatchHasLanded'
      BY <1>1 DEF Post, InStep, CompletionsAreExact
  <2> QED BY <2>1, <2>2, <2>3, <2>4
<1>2. CASE PostedAll
  <2>1. Types' /\ DataIsPosted' /\ InStep' /\ CompletionsAreExact' /\ WholeBatchHasLanded'
      BY <1>2 DEF PostedAll, Types, DataIsPosted, InStep, CompletionsAreExact
  <2>2. NothingIsLost'
      BY <1>2 DEF PostedAll, Types, NothingIsLost
  <2> QED BY <2>1, <2>2
<1>3. CASE PollData \/ PollResult \/ Interrupt \/ Poll \/ Over \/ UNCHANGED vars
    BY <1>3 DEF PollData, PollResult, Interrupt, Poll, Over, vars, Types, InStep,
                DataIsPosted, NothingIsLost, CompletionsAreExact
<1>4. CASE WaitDone
  <2>1. Types' /\ InStep' /\ DataIsPosted' /\ NothingIsLost' /\ CompletionsAreExact'
      BY <1>4 DEF WaitDone, Types, InStep, DataIsPosted, NothingIsLost, CompletionsAreExact
  <2>2. server' = "result" => landed' >= rep_s' * Transfers
      BY <1>4 DEF WaitDone, AllDone, Types, CompletionsAreExact
  <2> QED BY <2>1, <2>2, <1>4 DEF WaitDone
<1>5. CASE Clear
  <2>1. Types' /\ InStep' /\ DataIsPosted' /\ NothingIsLost' /\ WholeBatchHasLanded'
      BY <1>5 DEF Clear, Types, InStep, DataIsPosted, NothingIsLost
  <2>2. landed <= rep_s * Transfers
      BY <1>5 DEF Clear, Types, InStep, NothingIsLost
  <2>3. CompletionsAreExact'
      BY <1>5, <2>2 DEF Clear, Types, CompletionsAreExact
  <2> QED BY <2>1, <2>3
<1>6. CASE Sync
  <2>1. rep_m = rep_s
      BY <1>6 DEF Sync, BothAtSync, InStep
  <2>2. Types' /\ InStep' /\ DataIsPosted'
      BY <1>6, <2>1 DEF Sync, BothAtSync, Types, InStep, DataIsPosted
  <2>3. NothingIsLost'
    <3>1. rep_m \in Nat /\ Transfers \in Nat /\ (rep_m + 1) - 1 = rep_m
        BY DEF Types
    <3>2. landed + Len(wire) = rep_m * Transfers
        BY <1>6 DEF Sync, BothAtSync, NothingIsLost
    <3>3. landed' + Len(wire') = rep_m * Transfers
        BY <1>6, <3>2 DEF Sync
    <3>4. CASE rep_m < Reps
      <4>1. master' = "post" /\ rep_m' - 1 = rep_m /\ posted' = 0
          BY <1>6, <3>1, <3>4 DEF Sync, BothAtSync, NothingIsLost
      <4>2. rep_m * Transfers \in Int
          BY <3>1
      <4> QED BY <3>3, <4>1, <4>2 DEF NothingIsLost
    <3>5. CASE ~(rep_m < Reps)
        BY <1>6, <3>3, <3>5 DEF Sync, BothAtSync, NothingIsLost
    <3> QED BY <3>4, <3>5
  <2>4. CompletionsAreExact' /\ WholeBatchHasLanded'
      BY <1>6 DEF Sync, BothAtSync, Types, CompletionsAreExact
  <2> QED BY <2>2, <2>3, <2>4
<1>7. CASE Erase
  <2>1. Types' /\ InStep' /\ DataIsPosted' /\ NothingIsLost'
    <3>1. Types' /\ InStep'
        BY <1>7 DEF Erase, Types, InStep
    <3>2. DataIsPosted' /\ NothingIsLost'
        BY <1>7 DEF Erase, Types, DataIsPosted, NothingIsLost
    <3> QED BY <3>1, <3>2
  <2>2. Counted' = Counted
      BY <1>7 DEF Erase, Types
  <2>3. CompletionsAreExact' /\ WholeBatchHasLanded'
      BY <1>7, <2>2 DEF Erase, Types, CompletionsAreExact
  <2> QED BY <2>1, <2>3
<1>8. CASE Land
  <2>1. /\ Tail(wire) \in Seq(1 .. Reps) /\ Len(Tail(wire)) = Len(wire) - 1
        /\ Head(wire) = wire[1] /\ wire[1] \in 1 .. Reps /\ Len(wire) \in Nat \ {0}
        /\ \A i \in 1 .. Len(wire) - 1 : Tail(wire)[i] = wire[i + 1]
      BY <1>8 DEF Land, Types
  <2>2. Types'
    <3>1. ptrMem' \in 0 .. Reps
        BY <1>8, <2>1 DEF Land, Types
    <3>2. Append(due, Head(wire)) \in Seq(1 .. Reps)
        BY <2>1 DEF Types
    <3>3. wire' \in Seq(1 .. Reps) /\ due' \in Seq(1 .. Reps)
        BY <1>8, <2>1, <3>2 DEF Land, Types
    <3>4. landed' \in Nat /\ done' \in Nat
        BY <1>8 DEF Land, Types
    <3> QED BY <1>8, <3>1, <3>3, <3>4 DEF Land, Types
  <2>3. DataIsPosted'
      BY <1>8, <2>1 DEF Land, Types, DataIsPosted
  <2>4. NothingIsLost' /\ CompletionsAreExact' /\ WholeBatchHasLanded'
    <3>1. landed \in Nat /\ done \in Nat /\ landed' = landed + 1 /\ done' = done + 1
        BY <1>8 DEF Land, Types
    <3>2. NothingIsLost'
      <4>1. landed' + Len(wire') = landed + Len(wire)
          BY <1>8, <2>1, <3>1 DEF Land
      <4> QED BY <1>8, <4>1 DEF Land, NothingIsLost
    <3>3. Counted' = Counted /\ Counted * Transfers \in Int /\ rep_s * Transfers \in Int
        BY <1>8 DEF Land, Types
    <3>4. CompletionsAreExact'
      <4> HIDE DEF Counted
      <4> QED BY <3>1, <3>3 DEF CompletionsAreExact
    <3>5. WholeBatchHasLanded'
        BY <1>8, <3>1, <3>3 DEF Land
    <3> QED BY <3>2, <3>4, <3>5
  <2>5. InStep'
      BY <1>8 DEF Land, InStep
  <2> QED BY <2>2, <2>3, <2>4, <2>5
<1>9. CASE WriteResult
  <2>1. Tail(due) \in Seq(1 .. Reps) /\ Head(due) \in 1 .. Reps
      BY <1>9 DEF WriteResult, Types
  <2>2. Types'
      BY <1>9, <2>1 DEF WriteResult, Types
  <2>3. InStep' /\ DataIsPosted' /\ NothingIsLost' /\ CompletionsAreExact' /\ WholeBatchHasLanded'
      BY <1>9 DEF WriteResult, InStep, DataIsPosted, NothingIsLost, CompletionsAreExact
  <2> QED BY <2>2, <2>3
<1> QED
    BY <1>1, <1>2, <1>3, <1>4, <1>5, <1>6, <1>7, <1>8, <1>9 DEF Next, Master, Server

(* What has landed, and the completions that are left, are bounded.        *)
LEMMA IInvTypeOK == IInv => HostTypeOK
<1> USE HostAssumption
<1> SUFFICES ASSUME IInv PROVE HostTypeOK
    OBVIOUS
<1>1. Len(wire) \in Nat
    BY DEF IInv, Types
<1>2. landed <= rep_m * Transfers
    BY <1>1 DEF IInv, Types, NothingIsLost
<1>3. rep_m * Transfers <= Reps * Transfers
    BY DEF IInv, Types
<1>4. rep_m <= Counted + 1
    BY DEF IInv, Types, InStep, Counted
<1>5. rep_m * Transfers <= Counted * Transfers + Transfers
  <2>1. Counted \in Int
      BY DEF IInv, Types, Counted
  <2> QED BY <1>4, <2>1 DEF IInv, Types
<1>6. done <= Transfers /\ landed <= Reps * Transfers
  <2>1. /\ Counted * Transfers \in Int /\ rep_m * Transfers \in Int
        /\ Reps * Transfers \in Int /\ done \in Int /\ landed \in Int
      BY DEF IInv, Types, Counted
  <2>2. landed = Counted * Transfers + done
      BY DEF IInv, CompletionsAreExact
  <2> QED BY <1>2, <1>3, <1>5, <2>1, <2>2
<1> QED
    BY <1>6 DEF IInv, Types, HostTypeOK

LEMMA IInvDataWaits == IInv => DataWaitsForTheServer
    BY DEF IInv, Types, InStep, DataIsPosted, DataWaitsForTheServer

(* Completions and indices of the repetitions stay in their bounds.        *)
THEOREM HostTypeCorrect == Spec => []HostTypeOK
<1>1. Spec => []IInv
    BY InitIInv, StepIInv, PTL DEF Spec
<1> QED BY <1>1, IInvTypeOK, PTL

(* The server looks for results only when its whole batch has landed.      *)
THEOREM BatchCorrect == Spec => []WholeBatchHasLanded
<1>1. IInv => WholeBatchHasLanded
    BY DEF IInv
<1> QED BY <1>1, InitIInv, StepIInv, PTL DEF Spec

(* No data comes for a repetition the server has not come to.              *)
THEOREM DataCorrect == Spec => []DataWaitsForTheServer
    BY InitIInv, StepIInv, IInvDataWaits, PTL DEF Spec
-----------------------------------------------------------------------------
(* The co-processor host.  The lines of a transfer are written from the    *)
(* first on, so that while some are still to come the final one, which the *)
(* host polls, is as the host has cleared it.                              *)
PollsWhatItCleared ==
    /\ toWrite \in 0 .. P
    /\ pc \in {"begin", "invoke", "poll", "end"}
    /\ DOMAIN resultMem = 0 .. P - 1
    /\ pc # "poll" => toWrite = 0
    /\ pc = "invoke" => \A k \in 0 .. P - 1 : resultMem[k] = ZeroValue
    /\ pc = "poll" => \A k \in P - toWrite .. P - 1 : resultMem[k] = ZeroValue

LEMMA SomePair == P \in Nat /\ P >= 1
<1>1. N \in Nat /\ N >= 2
    BY FirstKernelAssumption
<1>2. N * (N - 1) \in Nat /\ N * (N - 1) >= 2
  <2>1. N * (N - 1) = (N - 2) * (N + 1) + 2
      BY <1>1
  <2>2. (N - 2) * (N + 1) \in Nat
      BY <1>1
  <2> QED BY <1>1, <2>1, <2>2
<1> DEFINE n == N * (N - 1)
<1>3. n \div 2 \in Nat /\ n \div 2 >= 1
  <2> HIDE DEF n
  <2> QED BY <1>2 DEF n
<1> QED BY <1>3 DEF P

LEMMA InitPolls == CopInit => PollsWhatItCleared
  BY SomePair DEF CopInit, PollsWhatItCleared

LEMMA WriteLinePolls ==
    ASSUME PollsWhatItCleared, NEW v, WriteLine(v), UNCHANGED pc
    PROVE  PollsWhatItCleared'
<1> USE SomePair
<1>1. /\ pc = "poll" /\ toWrite \in 1 .. P /\ toWrite' = toWrite - 1
      /\ DOMAIN resultMem = 0 .. P - 1
    BY DEF WriteLine, PollsWhatItCleared
<1>2. (P - toWrite) % P = P - toWrite
    BY <1>1
<1>3. resultMem' = [resultMem EXCEPT ![P - toWrite] = LineOf(v.val)]
    BY <1>2 DEF WriteLine
<1>4. ASSUME NEW k \in P - toWrite' .. P - 1 PROVE resultMem'[k] = ZeroValue
  <2>1. k \in P - toWrite .. P - 1 /\ k # P - toWrite /\ k \in DOMAIN resultMem
      BY <1>1
  <2>2. resultMem[k] = ZeroValue
      BY <1>1, <2>1 DEF PollsWhatItCleared
  <2> QED BY <1>3, <2>1, <2>2
<1>5. DOMAIN resultMem' = 0 .. P - 1
    BY <1>1, <1>3
<1> QED BY <1>1, <1>4, <1>5 DEF PollsWhatItCleared

LEMMA NextPolls == PollsWhatItCleared /\ [CopNext]_copVars => PollsWhatItCleared'
<1> SUFFICES ASSUME PollsWhatItCleared, [CopNext]_copVars PROVE PollsWhatItCleared'
    OBVIOUS
<1> USE SomePair
<1>1. CASE Begin
  <2>1. DOMAIN resultMem' = 0 .. P - 1 /\ \A k \in 0 .. P - 1 : resultMem'[k] = ZeroValue
    <3>1. resultMem' = Cleared
        BY <1>1 DEF Begin
    <3> QED BY <3>1 DEF Cleared
  <2> QED BY <1>1, <2>1 DEF Begin, PollsWhatItCleared
<1>2. CASE Invoke
    BY <1>2 DEF Invoke, PollsWhatItCleared
<1>3. CASE PollCoefficient
  <2>1. toWrite = 0
      BY <1>3 DEF PollCoefficient, Finished, PollsWhatItCleared
  <2> QED BY <1>3, <2>1 DEF PollCoefficient, PollsWhatItCleared
<1>4. CASE LineOut
  <2>1. CASE out.valid
      BY <1>4, <2>1, WriteLinePolls DEF LineOut
  <2>2. CASE ~out.valid
      BY <1>4, <2>2 DEF LineOut, PollsWhatItCleared
  <2> QED BY <2>1, <2>2
<1>5. CASE Kernel \/ UNCHANGED copVars
    BY <1>5 DEF Kernel, copVars, PollsWhatItCleared
<1> QED BY <1>1, <1>2, <1>3, <1>4, <1>5 DEF CopNext, Host

(* The host is not content before its own transfer is over.                *)
THEOREM TransfersAreOver == CopSpec => []NoLineIsUnderWay
<1>1. PollsWhatItCleared => NoLineIsUnderWay
    BY DEF PollsWhatItCleared, NoLineIsUnderWay
<1> QED BY <1>1, InitPolls, NextPolls, PTL DEF CopSpec
-----------------------------------------------------------------------------
(* The pairs of lanes in the order of their index.                         *)
TwicePairIndex(i, j) == i * (2 * N - i - 1) + 2 * (j - i - 1)

LEMMA TwiceP == N \in Nat /\ N >= 2 /\ P \in Nat /\ P >= 1 /\ 2 * P = N * (N - 1)
<1>1. N \in Nat /\ N >= 2 BY FirstKernelAssumption
<1>2. \E q \in Int : N * (N - 1) = 2 * q
  <2>1. CASE N % 2 = 0
    <3>1. PICK q \in Int : N = 2 * q BY <1>1, <2>1
    <3>2. PICK r \in Int : r = q * (N - 1) BY <1>1
    <3>3. N * (N - 1) = 2 * r BY <1>1, <3>1, <3>2
    <3> QED BY <3>2, <3>3
  <2>2. CASE N % 2 # 0
    <3>1. PICK q \in Int : N - 1 = 2 * q BY <1>1, <2>2
    <3>2. PICK r \in Int : r = N * q BY <1>1
    <3>3. N * (N - 1) = 2 * r BY <1>1, <3>1, <3>2
    <3> QED BY <3>2, <3>3
  <2> QED BY <2>1, <2>2
<1>3. PICK q \in Int : N * (N - 1) = 2 * q BY <1>2
<1>4. (2 * q) \div 2 = q OBVIOUS
<1> QED BY <1>1, <1>3, <1>4, SomePair DEF P

LEMMA IndexIsHalf ==
    ASSUME NEW i \in Lane, NEW j \in Lane
    PROVE  PairIndex(i, j) \in Int /\ 2 * PairIndex(i, j) = TwicePairIndex(i, j)
<1>1. N \in Nat /\ i \in Nat /\ j \in Nat BY TwiceP DEF Lane
<1>2. \E q \in Int : i * (i + 1) = 2 * q
  <2>1. CASE i % 2 = 0
    <3>1. PICK q \in Int : i = 2 * q BY <1>1, <2>1
    <3>2. PICK r \in Int : r = q * (i + 1) BY <1>1
    <3>3. i * (i + 1) = 2 * r BY <1>1, <3>1, <3>2
    <3> QED BY <3>2, <3>3
  <2>2. CASE i % 2 # 0
    <3>1. i + 1 = 2 * ((i + 1) \div 2) /\ (i + 1) \div 2 \in Int BY <1>1, <2>2
    <3>2. PICK q \in Int : i + 1 = 2 * q BY <3>1
    <3>3. PICK r \in Int : r = i * q BY <1>1
    <3>4. i * (i + 1) = 2 * r BY <1>1, <3>2, <3>3
    <3> QED BY <3>3, <3>4
  <2> QED BY <2>1, <2>2
<1>3. PICK q \in Int : i * (i + 1) = 2 * q BY <1>2
<1>4. (2 * q) \div 2 = q OBVIOUS
<1>5. PairIndex(i, j) = i * N - q + j - i - 1 BY <1>3, <1>4 DEF PairIndex
<1>6. i * (2 * N - i - 1) = 2 * (i * N) - i * (i + 1) BY <1>1
<1>7. PICK m \in Int : m = i * N BY <1>1
<1> QED BY <1>1, <1>3, <1>5, <1>6, <1>7 DEF TwicePairIndex

(* Pairs of a later row have greater indices; the last of all is P - 1.    *)
LEMMA LaterRow ==
    ASSUME NEW i \in Nat, NEW j \in Nat, NEW k \in Nat, NEW l \in Nat,
           i < j, j < N, k < l, l < N, i < k
    PROVE  TwicePairIndex(i, j) < TwicePairIndex(k, l)
<1> DEFINE base(x) == x * (2 * N - x - 1)
<1>1. N \in Nat /\ N >= 2 BY TwiceP
<1>2. base(i + 1) = base(i) + 2 * N - 2 * i - 2 BY <1>1
<1>3. base(k) - base(i + 1) = (k - i - 1) * (2 * N - 2 - i - k) BY <1>1
<1>4. (k - i - 1) * (2 * N - 2 - i - k) >= 0
  <2>1. k - i - 1 \in Nat /\ 2 * N - 2 - i - k \in Nat BY <1>1
  <2> QED BY <2>1
<1>5. base(k) \in Int /\ base(i) \in Int /\ base(i + 1) \in Int
      /\ (k - i - 1) * (2 * N - 2 - i - k) \in Int
  BY <1>1
<1>6. TwicePairIndex(i, j) = base(i) + 2 * (j - i - 1)
      /\ TwicePairIndex(k, l) = base(k) + 2 * (l - k - 1)
  BY DEF TwicePairIndex
<1> HIDE DEF base
<1> QED BY <1>1, <1>2, <1>3, <1>4, <1>5, <1>6

LEMMA LastPair == TwicePairIndex(N - 2, N - 1) = 2 * P - 2
<1>1. N \in Nat /\ 2 * P = N * (N - 1) BY TwiceP
<1>2. (N - 2) * (2 * N - (N - 2) - 1) = N * (N - 1) - 2 BY <1>1
<1> QED BY <1>1, <1>2 DEF TwicePairIndex

(* The walk is at a pair that is not the last, or it is the last of all.   *)
Walk(row, col, index) ==
    /\ row \in 0 .. N - 2 /\ col \in row + 1 .. N - 1
    /\ index \in Nat /\ TwicePairIndex(row, col) = 2 * index

LEMMA WalkIndex ==
    ASSUME NEW row, NEW col, NEW index, Walk(row, col, index)
    PROVE  /\ index \in 0 .. P - 1 /\ PairAt(index) = <<row, col>>
           /\ row \in Lane /\ col \in Lane
           /\ index = P - 1 <=> row = N - 2 /\ col = N - 1
<1>1. /\ N \in Nat /\ N >= 2 /\ P \in Nat /\ P >= 1 /\ row \in Nat /\ col \in Nat /\ row < col
      /\ col < N /\ row <= N - 2 /\ index \in Nat /\ TwicePairIndex(row, col) = 2 * index
  BY TwiceP DEF Walk
<1>2. row \in Lane /\ col \in Lane BY <1>1 DEF Lane
<1>3. ASSUME row < N - 2 PROVE index < P - 1
  <2>1. TwicePairIndex(row, col) < TwicePairIndex(N - 2, N - 1) BY <1>1, <1>3, LaterRow
  <2> QED BY <1>1, <2>1, LastPair
<1>4. ASSUME row = N - 2 PROVE index = P - 1 /\ col = N - 1
  <2>1. col = N - 1 BY <1>1, <1>4
  <2> QED BY <1>1, <1>4, <2>1, LastPair
<1>5. PairAt(index) = <<row, col>>
  <2> DEFINE Is(pair) == pair[1] < pair[2] /\ PairIndex(pair[1], pair[2]) = index
  <2>1. <<row, col>> \in Lane \X Lane /\ Is(<<row, col>>)
    BY <1>1, <1>2, IndexIsHalf
  <2>2. ASSUME NEW pair \in Lane \X Lane, Is(pair) PROVE pair = <<row, col>>
    <3>1. PICK i, j \in Lane : pair = <<i, j>> OBVIOUS
    <3>2. i < j /\ TwicePairIndex(i, j) = 2 * index BY <2>2, <3>1, IndexIsHalf
    <3>3. i \in Nat /\ j \in Nat /\ i < N /\ j < N BY <1>1 DEF Lane
    <3>4. ~(i < row)
      <4>1. ASSUME i < row PROVE FALSE
        <5>1. TwicePairIndex(i, j) < TwicePairIndex(row, col) BY <1>1, <3>2, <3>3, <4>1, LaterRow
        <5> QED BY <1>1, <3>2, <5>1
      <4> QED BY <4>1
    <3>5. ~(row < i)
      <4>1. ASSUME row < i PROVE FALSE
        <5>1. TwicePairIndex(row, col) < TwicePairIndex(i, j) BY <1>1, <3>2, <3>3, <4>1, LaterRow
        <5> QED BY <1>1, <3>2, <5>1
      <4> QED BY <4>1
    <3>6. i = row BY <1>1, <3>3, <3>4, <3>5
    <3>7. j = col
      <4>1. PICK m \in Int : m = row * (2 * N - row - 1) BY <1>1
      <4>2. m + 2 * (j - row - 1) = m + 2 * (col - row - 1)
        BY <1>1, <3>2, <3>6, <4>1 DEF TwicePairIndex
      <4> QED BY <1>1, <3>3, <4>1, <4>2
    <3> QED BY <3>1, <3>6, <3>7
  <2> HIDE DEF Is
  <2>3. PairAt(index) = CHOOSE pair \in Lane \X Lane : Is(pair) BY DEF PairAt, Is
  <2> QED BY <2>1, <2>2, <2>3
<1> QED BY <1>1, <1>2, <1>3, <1>4, <1>5

(* A step of the walk.                                                     *)
LEMMA WalkOn ==
    ASSUME NEW row, NEW col, NEW index, Walk(row, col, index)
    PROVE  /\ col # N - 1 => Walk(row, col + 1, index + 1)
           /\ col = N - 1 /\ row + 1 # N - 1 => Walk(row + 1, row + 2, index + 1)
           /\ col = N - 1 /\ row + 1 = N - 1 => index + 1 = P
<1>1. /\ N \in Nat /\ N >= 2 /\ row \in Nat /\ col \in Nat /\ row < col /\ P \in Nat
      /\ col < N /\ row <= N - 2 /\ index \in Nat /\ TwicePairIndex(row, col) = 2 * index
  BY TwiceP DEF Walk
<1>2. PICK m \in Int : m = row * (2 * N - row - 1) BY <1>1
<1>3. m + 2 * (col - row - 1) = 2 * index BY <1>1, <1>2 DEF TwicePairIndex
<1>4. ASSUME col # N - 1 PROVE Walk(row, col + 1, index + 1)
  <2>1. TwicePairIndex(row, col + 1) = 2 * (index + 1)
    BY <1>1, <1>2, <1>3 DEF TwicePairIndex
  <2> QED BY <1>1, <1>4, <2>1 DEF Walk
<1>5. ASSUME col = N - 1, row + 1 # N - 1 PROVE Walk(row + 1, row + 2, index + 1)
  <2>1. (row + 1) * (2 * N - (row + 1) - 1) = m + 2 * (N - row - 1) BY <1>1, <1>2
  <2>2. TwicePairIndex(row + 1, row + 2) = 2 * (index + 1)
    BY <1>1, <1>2, <1>3, <1>5, <2>1 DEF TwicePairIndex
  <2> QED BY <1>1, <1>5, <2>2 DEF Walk
<1>6. ASSUME col = N - 1, row + 1 = N - 1 PROVE index + 1 = P
  <2>1. index = P - 1 BY <1>1, <1>6, WalkIndex
  <2> QED BY <1>1, <2>1
<1> QED BY <1>4, <1>5, <1>6

LEMMA WalkBegins == Walk(0, 1, 0)
  BY TwiceP DEF Walk, TwicePairIndex
-----------------------------------------------------------------------------
(* The kernel of the co-processor from the first batch on.                 *)
SumCount == 2 * N + P
Counts(condition) == IF condition THEN 1 ELSE 0

IsStream(s) == \E v : s \in Seq(v)

Shapes ==
    /\ IsStream(data_source) /\ IsStream(axis_sink)
    /\ DOMAIN in = {"valid", "y", "counter"} /\ in.valid \in BOOLEAN
    /\ DOMAIN corr = {"state", "accu", "at", "counter", "last", "write", "result"}
    /\ DOMAIN corr.accu = Place /\ corr.write \in BOOLEAN
    /\ DOMAIN coeff = {"state", "mem", "coeff", "value", "last", "write", "counter",
                       "counter_rd", "row", "col", "index"}
    /\ DOMAIN coeff.mem = Place /\ DOMAIN coeff.coeff = 0 .. P - 1
    /\ coeff.write \in BOOLEAN
    /\ DOMAIN out = {"valid", "x"} /\ out.valid \in BOOLEAN
    /\ IsStream(result_values) /\ IsStream(sums)

(* What goes out is read from the coefficients round and round, and the    *)
(* transfers take it up at the line where the last one has stopped.        *)
Answer(n) == CoefficientOf(1, n % P)
InTurn(g) ==
    LET o == Counts(out.valid)  l == Len(result_values)  w == Counts(coeff.write) IN
    /\ (P - toWrite) % P = g % P
    /\ out.valid => out.x.val = Answer(g)
    /\ \A j \in 1 .. l : result_values[j].val = Answer(g + o + j - 1)
    /\ coeff.write => coeff.value = Answer(g + o + l)
    /\ coeff.counter_rd = (g + o + l + w) % P
Aligned ==
    /\ coeff.state \in {"SETTLE1", "SETTLE2", "COMPUTE"} => coeff.write = FALSE
    /\ \E g \in Nat : InTurn(g)

Written ==
    /\ pc = "poll" => \A k \in 0 .. P - toWrite - 1 : resultMem[k] = LineOf(CoefficientOf(1, k))
    /\ pc \in {"begin", "end"} /\ reps # 0 =>
          \A k \in 0 .. P - 1 : resultMem[k] = LineOf(CoefficientOf(1, k))

(* The items of the first batch, one after the other.                      *)
Item(n) == [batch |-> 1, last |-> n = numberItems]
Fed == corr.counter + Len(data_source) + Counts(in.valid)
ItemsOnTheWay ==
    /\ corr.counter \in Nat
    /\ IF pc = "poll" THEN Fed + Len(axis_sink) = numberItems
                      ELSE Fed = 0 /\ axis_sink = << >>
    /\ \A k \in 1 .. Len(axis_sink) : axis_sink[k] = 1
    /\ \A k \in 1 .. Len(data_source) : data_source[k] = Item(corr.counter + k)
    /\ in.valid => in.y = Item(Fed)
    /\ in.counter = IF Fed = numberItems THEN 0 ELSE Fed

Held(count) == [NoItems EXCEPT ![1] = count]
HasRead == IF corr.state = "READOUT" THEN corr.at
           ELSE IF corr.counter = numberItems THEN SumCount ELSE 0
HasTaken == IF coeff.state = "FEED" THEN coeff.counter ELSE SumCount

BatchSummed ==
    /\ corr.state \in {"COMPUTE", "READOUT"} /\ corr.at \in 0 .. SumCount - 1
    /\ corr.state = "COMPUTE" => corr.at = 0
    /\ corr.state = "READOUT" => corr.counter = numberItems
    /\ corr.counter = numberItems => samples = numberItems
    /\ \A p \in HasRead .. SumCount - 1 : corr.accu[p] = Held(corr.counter)
    /\ corr.last = (HasRead = SumCount)
    /\ corr.write => corr.result = SumOf(HasRead - 1, 1)

SumsOnTheWay ==
    /\ HasTaken \in Nat
    /\ HasTaken + Len(sums) + Counts(corr.write) = HasRead
    /\ \A k \in 1 .. Len(sums) : /\ sums[k].val = SumOf(HasTaken + k - 1, 1)
                                 /\ sums[k].last = (HasTaken + k = SumCount)

MemoriesFill ==
    /\ coeff.state \in {"FEED", "SETTLE1", "SETTLE2", "COMPUTE"} /\ ~coeff.write
    /\ \A p \in 0 .. HasTaken - 1 : coeff.mem[p] = SumOf(p, 1)
    /\ Walk(coeff.row, coeff.col, coeff.index)
    /\ \A k \in 0 .. coeff.index - 1 : coeff.coeff[k] = CoefficientOf(1, k)

NoAnswerYet ==
    /\ reps = 0 /\ pc \in {"begin", "invoke", "poll"}
    /\ pc = "poll" => toWrite = P
    /\ ~out.valid /\ result_values = << >> /\ coeff.counter_rd = 0

FirstAnswer == /\ coeff.index < P /\ NoAnswerYet
               /\ ItemsOnTheWay /\ BatchSummed /\ SumsOnTheWay /\ MemoriesFill
Answered == /\ coeff.index = P /\ coeff.row = N - 1
            /\ \A k \in 0 .. P - 1 : coeff.coeff[k] = CoefficientOf(1, k)

CopInv == PollsWhatItCleared /\ Shapes /\ Aligned /\ Written /\ (FirstAnswer \/ Answered)
-----------------------------------------------------------------------------
LEMMA Bounds ==
    /\ N \in Nat /\ N >= 2 /\ P \in Nat /\ P >= 1 /\ SumCount = 2 * N + P
    /\ SumCount \in Nat /\ SumCount > 2 * N /\ Place = 0 .. SumCount - 1
    /\ numberItems \in Nat /\ numberItems >= 1
    /\ MaxBatches \in Nat /\ MaxBatches >= 1
  BY TwiceP, FirstKernelAssumption DEF SumCount, Place

LEMMA Appended ==
    ASSUME NEW s, IsStream(s), NEW x
    PROVE  /\ IsStream(Append(s, x)) /\ Len(s) \in Nat /\ Len(Append(s, x)) = Len(s) + 1
           /\ \A k \in 1 .. Len(s) : Append(s, x)[k] = s[k]
           /\ Append(s, x)[Len(s) + 1] = x
<1>1. PICK v : s \in Seq(v) BY DEF IsStream
<1>2. s \in Seq(v \cup {x}) BY <1>1
<1>3. Append(s, x) \in Seq(v \cup {x}) BY <1>2
<1> QED BY <1>2, <1>3 DEF IsStream

LEMMA Passed ==
    ASSUME NEW s, IsStream(s), s # << >>
    PROVE  /\ IsStream(Tail(s)) /\ Len(s) \in Nat /\ Len(s) >= 1 /\ Len(Tail(s)) = Len(s) - 1
           /\ Head(s) = s[1]
           /\ \A k \in 1 .. Len(s) - 1 : Tail(s)[k] = s[k + 1]
<1>1. PICK v : s \in Seq(v) BY DEF IsStream
<1>2. Tail(s) \in Seq(v) BY <1>1
<1> QED BY <1>1, <1>2 DEF IsStream

LEMMA Empty == IsStream(<< >>) /\ Len(<< >>) = 0
<1>1. << >> \in Seq({}) OBVIOUS
<1> QED BY <1>1 DEF IsStream

LEMMA Lengths ==
    ASSUME NEW s, IsStream(s)
    PROVE  Len(s) \in Nat /\ (s = << >> <=> Len(s) = 0)
<1>1. PICK v : s \in Seq(v) BY DEF IsStream
<1> QED BY <1>1

(* The place after place k.                                                *)
LEMMA PlaceAfter ==
    ASSUME NEW k \in Nat
    PROVE  /\ k % P \in 0 .. P - 1
           /\ (k + 1) % P = IF (k % P) + 1 = P THEN 0 ELSE (k % P) + 1
<1>1. P \in Int /\ P >= 1 BY Bounds
<1>2. PICK d : d = P OBVIOUS
<1>3. \A n \in Nat : /\ n % d \in 0 .. d - 1 /\ n \div d \in Int
                     /\ n = d * (n \div d) + (n % d)
  BY ONLY <1>1, <1>2, Z3
<1>4. PICK q, r : q = k \div d /\ r = k % d OBVIOUS
<1>5. PICK e, t : e = (k + 1) \div d /\ t = (k + 1) % d OBVIOUS
<1>6. q \in Int /\ r \in 0 .. d - 1 /\ k = d * q + r BY <1>3, <1>4
<1>7. e \in Int /\ t \in 0 .. d - 1 /\ k + 1 = d * e + t BY <1>3, <1>5
<1>8. PICK m \in Int : m = d * (e - q) /\ e - q \in Int BY <1>1, <1>2, <1>6, <1>7
<1>9. r + 1 - t = m
  <2>1. d * (e - q) = d * e - d * q BY <1>1, <1>2, <1>6, <1>7
  <2>2. d * e \in Int /\ d * q \in Int BY <1>1, <1>2, <1>6, <1>7
  <2> QED BY <1>1, <1>2, <1>6, <1>7, <1>8, <2>1, <2>2
<1>10. e - q >= 2 => m >= 2 * d BY <1>1, <1>2, <1>6, <1>7, <1>8
<1>11. e - q <= -1 => m <= -d BY <1>1, <1>2, <1>6, <1>7, <1>8
<1>12. m = 0 \/ m = d
  <2>1. e - q = 0 \/ e - q = 1
    BY <1>1, <1>2, <1>6, <1>7, <1>8, <1>9, <1>10, <1>11
  <2> QED BY <1>1, <1>2, <1>8, <2>1
<1>13. t = IF r + 1 = d THEN 0 ELSE r + 1
  BY <1>1, <1>2, <1>6, <1>7, <1>9, <1>12
<1> QED BY <1>2, <1>4, <1>5, <1>6, <1>13

LEMMA StableAnswers ==
    ASSUME UNCHANGED data, NEW k
    PROVE  CoefficientOf(1, k)' = CoefficientOf(1, k)
  BY DEF CoefficientOf, Value

(* What the steps leave in the fields.                                     *)
LEMMA DataInStep ==
    ASSUME Shapes, ConvertDataIn
    PROVE  /\ DOMAIN in' = DOMAIN in /\ in'.valid \in BOOLEAN
           /\ data_source' = IF in.valid THEN Append(data_source, in.y) ELSE data_source
           /\ \/ /\ axis_sink # << >> /\ axis_sink' = Tail(axis_sink) /\ in'.valid = TRUE
                 /\ in'.y = [batch |-> Head(axis_sink), last |-> IsLast]
                 /\ in'.counter = IF IsLast THEN 0 ELSE in.counter + 1
              \/ /\ in.valid = TRUE /\ in'.valid = FALSE /\ in'.counter = in.counter
                 /\ UNCHANGED axis_sink
           /\ UNCHANGED <<data, sums, result_values, samples, corr, coeff, out>>
<1>1. CASE /\ axis_sink # << >>
           /\ axis_sink' = Tail(axis_sink)
           /\ in' = [valid |-> TRUE, y |-> [batch |-> Head(axis_sink), last |-> IsLast],
                     counter |-> IF IsLast THEN 0 ELSE in.counter + 1]
  <2>1. PICK i : i = IsLast OBVIOUS
  <2>2. PICK y, c : /\ y = [batch |-> Head(axis_sink), last |-> IsLast]
                    /\ c = IF IsLast THEN 0 ELSE in.counter + 1
    OBVIOUS
  <2>3. in' = [valid |-> TRUE, y |-> y, counter |-> c] BY ONLY <1>1, <2>2
  <2>4. /\ DOMAIN in' = {"valid", "y", "counter"} /\ in'.valid = TRUE /\ in'.y = y
        /\ in'.counter = c
    BY ONLY <2>3
  <2> QED BY <1>1, <2>2, <2>4 DEF Shapes, ConvertDataIn
<1>2. CASE in.valid /\ in' = [in EXCEPT !.valid = FALSE] /\ UNCHANGED axis_sink
  BY <1>2 DEF Shapes, ConvertDataIn
<1> QED BY <1>1, <1>2 DEF ConvertDataIn

LEMMA ComputeItemStep ==
    ASSUME Shapes, ComputeItem, Head(data_source).last \in BOOLEAN
    PROVE  /\ DOMAIN corr' = DOMAIN corr
           /\ corr.state = "COMPUTE" /\ data_source # << >> /\ data_source' = Tail(data_source)
           /\ corr'.accu = [p \in Place |-> TakenIn(corr.accu[p], Head(data_source).batch)]
           /\ corr'.counter = corr.counter + 1 /\ corr'.write = FALSE
           /\ corr'.state = IF Head(data_source).last THEN "READOUT" ELSE "COMPUTE"
           /\ corr'.at = corr.at /\ corr'.last = corr.last
           /\ samples' = IF Head(data_source).last THEN corr.counter + 1 ELSE samples
<1>1. CASE Head(data_source).last = TRUE BY <1>1 DEF Shapes, ComputeItem
<1>2. CASE Head(data_source).last = FALSE BY <1>2 DEF Shapes, ComputeItem
<1> QED BY <1>1, <1>2

LEMMA ReadoutStep ==
    ASSUME Shapes, Readout, NEW p, p = corr.at, p \in 0 .. SumCount - 1
    PROVE  /\ DOMAIN corr' = DOMAIN corr
           /\ corr.state = "READOUT"
           /\ corr'.accu = [corr.accu EXCEPT ![p] = NoItems]
           /\ corr'.result = [of |-> SumAt(p), items |-> corr.accu[p]]
           /\ corr'.counter = corr.counter /\ corr'.write = TRUE
           /\ corr'.at = IF p = SumCount - 1 THEN 0 ELSE p + 1
           /\ corr'.state = IF p = SumCount - 1 THEN "COMPUTE" ELSE "READOUT"
           /\ corr'.last = IF p < 2 * N THEN corr.last ELSE p = SumCount - 1
           /\ UNCHANGED <<data_source, samples>>
<1>1. 2 * N + P - 1 = SumCount - 1 /\ SumCount \in Nat BY Bounds
<1> QED BY <1>1 DEF Shapes, Readout

LEMMA ComputeIdleStep ==
    ASSUME Shapes, ComputeIdle
    PROVE  /\ DOMAIN corr' = DOMAIN corr
           /\ corr.state = "COMPUTE" /\ corr.write = TRUE /\ corr'.write = FALSE
           /\ corr'.accu = corr.accu /\ corr'.counter = corr.counter /\ corr'.at = corr.at
           /\ corr'.state = corr.state /\ corr'.last = corr.last
           /\ UNCHANGED <<data_source, samples>>
  BY DEF Shapes, ComputeIdle

LEMMA AccumulateShapes ==
    ASSUME Shapes, Accumulate
    PROVE  /\ DOMAIN corr' = DOMAIN corr /\ DOMAIN corr'.accu = Place /\ corr'.write \in BOOLEAN
           /\ \/ data_source' = data_source
              \/ data_source # << >> /\ data_source' = Tail(data_source)
<1>1. CASE ComputeItem BY <1>1 DEF Shapes, ComputeItem
<1>2. CASE ComputeIdle BY <1>2, ComputeIdleStep DEF Shapes
<1>3. CASE Readout BY <1>3 DEF Shapes, Readout
<1> QED BY <1>1, <1>2, <1>3 DEF Accumulate

LEMMA FeedStep ==
    ASSUME Shapes, Feed, NEW x, x = Head(sums)
    PROVE  /\ DOMAIN coeff' = DOMAIN coeff
           /\ coeff.state = "FEED" /\ sums # << >> /\ sums' = Tail(sums)
           /\ coeff'.mem = [coeff.mem EXCEPT ![coeff.counter] = x.val]
           /\ coeff'.write = FALSE /\ coeff'.coeff = coeff.coeff
           /\ coeff'.counter = (IF x.last THEN 0 ELSE coeff.counter + 1)
           /\ coeff'.state = (IF x.last THEN "SETTLE1" ELSE "FEED")
           /\ coeff'.row = coeff.row /\ coeff'.col = coeff.col /\ coeff'.index = coeff.index
           /\ coeff'.counter_rd = coeff.counter_rd
  BY DEF Shapes, Feed

LEMMA FeedIdleStep ==
    ASSUME Shapes, FeedIdle
    PROVE  /\ DOMAIN coeff' = DOMAIN coeff /\ sums' = sums
           /\ coeff'.mem = coeff.mem /\ coeff.write = TRUE
           /\ coeff'.write = FALSE /\ coeff'.coeff = coeff.coeff
           /\ coeff'.counter = coeff.counter /\ coeff'.state = coeff.state
           /\ coeff'.row = coeff.row /\ coeff'.col = coeff.col /\ coeff'.index = coeff.index
           /\ coeff'.counter_rd = coeff.counter_rd
  BY DEF Shapes, FeedIdle

LEMMA SettleStep ==
    ASSUME Shapes, Settle
    PROVE  /\ DOMAIN coeff' = DOMAIN coeff /\ sums' = sums
           /\ coeff.state \in {"SETTLE1", "SETTLE2"} /\ coeff'.state \in {"SETTLE2", "COMPUTE"}
           /\ coeff'.mem = coeff.mem
           /\ coeff'.write = FALSE /\ coeff'.coeff = coeff.coeff
           /\ coeff'.counter = coeff.counter
           /\ coeff'.row = coeff.row /\ coeff'.col = coeff.col /\ coeff'.index = coeff.index
           /\ coeff'.counter_rd = coeff.counter_rd
  BY DEF Shapes, Settle

LEMMA ComputeStep ==
    ASSUME Shapes, Compute, NEW isNew, isNew = (coeff.index < P),
           NEW row, row = IF isNew /\ coeff.col = N - 1 THEN coeff.row + 1 ELSE coeff.row
    PROVE  /\ DOMAIN coeff' = DOMAIN coeff /\ sums' = sums
           /\ coeff.state = "COMPUTE" /\ coeff'.mem = coeff.mem
           /\ coeff'.write = coeff.write
           /\ coeff'.counter = coeff.counter /\ coeff'.counter_rd = coeff.counter_rd
           /\ coeff'.coeff = IF isNew
                             THEN [coeff.coeff EXCEPT ![coeff.index] =
                                    PairValue(coeff.mem, coeff.row, coeff.col, coeff.index)]
                             ELSE coeff.coeff
           /\ coeff'.index = IF isNew THEN coeff.index + 1 ELSE coeff.index
           /\ coeff'.row = row
           /\ coeff'.col = IF ~isNew THEN coeff.col
                           ELSE IF coeff.col = N - 1 THEN row + 1 ELSE coeff.col + 1
           /\ coeff'.state = IF row = N - 1 THEN "READOUT" ELSE "COMPUTE"
  BY DEF Shapes, Compute

LEMMA ReadCoeffStep ==
    ASSUME Shapes, ReadCoeff
    PROVE  /\ DOMAIN coeff' = DOMAIN coeff /\ sums' = sums
           /\ coeff.state = "READOUT" /\ coeff'.mem = coeff.mem
           /\ coeff'.coeff = coeff.coeff /\ coeff'.index = coeff.index
           /\ coeff'.row = coeff.row /\ coeff'.write = TRUE
           /\ coeff'.value = coeff.coeff[coeff.counter_rd]
           /\ coeff'.counter_rd = IF coeff.counter_rd + 1 = P THEN 0 ELSE coeff.counter_rd + 1
  BY DEF Shapes, ReadCoeff

LEMMA AccCoeffShapes ==
    ASSUME Shapes, AccCoeff
    PROVE  /\ DOMAIN coeff' = DOMAIN coeff /\ DOMAIN coeff'.mem = Place
           /\ DOMAIN coeff'.coeff = 0 .. P - 1 /\ coeff'.write \in BOOLEAN
           /\ \/ sums' = sums
              \/ sums # << >> /\ sums' = Tail(sums)
<1>1. CASE Feed BY <1>1 DEF Shapes, Feed
<1>2. CASE FeedIdle BY <1>2 DEF Shapes, FeedIdle
<1>3. CASE Settle BY <1>3 DEF Shapes, Settle
<1>4. CASE Compute BY <1>4 DEF Shapes, Compute
<1>5. CASE ReadCoeff BY <1>5 DEF Shapes, ReadCoeff
<1> QED BY <1>1, <1>2, <1>3, <1>4, <1>5 DEF AccCoeff

LEMMA InitShapes == CopInit => Shapes
  BY Empty DEF CopInit, KernelInit, Shapes

LEMMA NextShapes == Shapes /\ [CopNext]_copVars => Shapes'
<1> SUFFICES ASSUME Shapes, [CopNext]_copVars PROVE Shapes'
  OBVIOUS
<1>1. CASE Invoke
  <2>1. [i \in 1 .. numberItems |-> reps + 1] \in Seq({reps + 1}) BY Bounds
  <2>2. PICK v : axis_sink \in Seq(v) BY DEF Shapes, IsStream
  <2>3. axis_sink \in Seq(v \cup {reps + 1})
        /\ [i \in 1 .. numberItems |-> reps + 1] \in Seq(v \cup {reps + 1})
    BY <2>1, <2>2
  <2>4. PICK a, b : a = axis_sink /\ b = [i \in 1 .. numberItems |-> reps + 1] OBVIOUS
  <2>5. a \o b \in Seq(v \cup {reps + 1})
    <3>1. a \in Seq(v \cup {reps + 1}) /\ b \in Seq(v \cup {reps + 1}) BY <2>3, <2>4
    <3> QED BY ONLY <3>1
  <2>6. IsStream(axis_sink') BY <1>1, <2>4, <2>5 DEF Invoke, IsStream
  <2> QED BY <1>1, <2>6 DEF Invoke, Shapes, IsStream
<1>2. CASE LineOut
  <2>1. IsStream(result_values')
    <3>1. \/ result_values' = result_values
          \/ result_values # << >> /\ result_values' = Tail(result_values)
      BY <1>2 DEF LineOut, ConvertDataOut
    <3>2. IsStream(result_values) BY DEF Shapes
    <3> QED BY ONLY <3>1, <3>2, Passed
  <2>2. DOMAIN out' = {"valid", "x"} /\ out'.valid \in BOOLEAN
    <3>1. CASE out' = [valid |-> TRUE, x |-> Head(result_values)] BY <3>1
    <3>2. CASE out' = [out EXCEPT !.valid = FALSE] BY <3>2 DEF Shapes
    <3> QED BY <1>2, <3>1, <3>2 DEF LineOut, ConvertDataOut
  <2> QED BY <1>2, <2>1, <2>2 DEF LineOut, ConvertDataOut, Shapes, IsStream
<1>3. CASE Kernel
  <2>1. CASE ConvertDataIn
    <3>1. /\ data_source' = data_source \/ data_source' = Append(data_source, in.y)
          /\ axis_sink' = axis_sink \/ (axis_sink # << >> /\ axis_sink' = Tail(axis_sink))
          /\ DOMAIN in' = DOMAIN in /\ in'.valid \in BOOLEAN
          /\ UNCHANGED <<data, sums, result_values, samples, corr, coeff, out>>
      BY <2>1, DataInStep, Zenon
    <3>2. IsStream(data_source) /\ IsStream(axis_sink) BY DEF Shapes
    <3>3. IsStream(Append(data_source, in.y)) BY <3>2, Appended
    <3>4. IsStream(data_source') BY <3>1, <3>2, <3>3
    <3>5. IsStream(axis_sink') BY ONLY <3>1, <3>2, Passed
    <3> QED BY <3>1, <3>4, <3>5 DEF Shapes, IsStream
  <2>2. CASE Accumulate
    <3>1. /\ DOMAIN corr' = DOMAIN corr /\ DOMAIN corr'.accu = Place /\ corr'.write \in BOOLEAN
          /\ \/ data_source' = data_source
             \/ data_source # << >> /\ data_source' = Tail(data_source)
          /\ \/ sums' = sums
             \/ sums' = Append(sums, [val |-> corr.result, last |-> corr.last])
          /\ UNCHANGED <<data, axis_sink, result_values, in, coeff, out>>
      BY <2>2, AccumulateShapes DEF Accumulate
    <3>2. IsStream(data_source) /\ IsStream(sums) BY DEF Shapes
    <3>3. IsStream(data_source') BY ONLY <3>1, <3>2, Passed
    <3>4. IsStream(Append(sums, [val |-> corr.result, last |-> corr.last])) BY <3>2, Appended
    <3>5. IsStream(sums') BY <3>1, <3>2, <3>4
    <3> QED BY <3>1, <3>3, <3>5 DEF Shapes, IsStream
  <2>3. CASE AccCoeff
    <3>1. /\ DOMAIN coeff' = DOMAIN coeff /\ DOMAIN coeff'.mem = Place
          /\ DOMAIN coeff'.coeff = 0 .. P - 1 /\ coeff'.write \in BOOLEAN
          /\ sums' = sums \/ (sums # << >> /\ sums' = Tail(sums))
          /\ \/ result_values' = result_values
             \/ result_values' =
                  Append(result_values, [val |-> coeff.value, last |-> coeff.last])
          /\ UNCHANGED <<data, axis_sink, data_source, samples, in, corr, out>>
      BY <2>3, AccCoeffShapes, Zenon DEF AccCoeff
    <3>2. IsStream(result_values) /\ IsStream(sums) BY DEF Shapes
    <3>3. IsStream(sums') BY ONLY <3>1, <3>2, Passed
    <3>4. IsStream(Append(result_values, [val |-> coeff.value, last |-> coeff.last]))
      BY <3>2, Appended
    <3>5. IsStream(result_values') BY <3>1, <3>2, <3>4
    <3> QED BY <3>1, <3>3, <3>5 DEF Shapes, IsStream
  <2> QED BY <1>3, <2>1, <2>2, <2>3 DEF Kernel
<1>4. CASE Begin \/ PollCoefficient \/ UNCHANGED copVars
  BY <1>4 DEF Begin, PollCoefficient, copVars, kernelVars, Shapes, IsStream
<1> QED BY <1>1, <1>2, <1>3, <1>4 DEF CopNext, Host

(* The items of the first batch.                                           *)
LEMMA ItemFields ==
    ASSUME NEW n
    PROVE  /\ Item(n).batch = 1 /\ Item(n).last = (n = numberItems)
           /\ Item(n).last \in BOOLEAN
<1>1. PICK t \in BOOLEAN : t = (n = numberItems) OBVIOUS
<1>2. Item(n) = [batch |-> 1, last |-> t] BY <1>1 DEF Item
<1>3. Item(n).batch = 1 /\ Item(n).last = t BY <1>2
<1> QED BY <1>1, <1>3, Zenon

LEMMA ItemsStay ==
    ASSUME ItemsOnTheWay, corr'.counter = corr.counter, pc' = "poll" <=> pc = "poll",
           UNCHANGED <<data_source, in, axis_sink>>
    PROVE  ItemsOnTheWay'
<1>1. Fed' = Fed BY DEF Fed, Counts
<1>2. \A n : Item(n)' = Item(n) BY DEF Item
<1> QED BY <1>1, <1>2 DEF ItemsOnTheWay, Item

LEMMA ItemsInvoked ==
    ASSUME Shapes, NoAnswerYet, ItemsOnTheWay, Invoke
    PROVE  ItemsOnTheWay'
<1>1. axis_sink = << >> /\ reps = 0 /\ Fed = 0 /\ pc = "invoke" /\ pc' = "poll"
  BY DEF ItemsOnTheWay, Invoke, NoAnswerYet
<1>2. PICK b : b = [i \in 1 .. numberItems |-> reps + 1] OBVIOUS
<1>3. b \in Seq({1}) /\ Len(b) = numberItems /\ \A k \in 1 .. numberItems : b[k] = 1
  BY <1>1, <1>2, Bounds
<1>4. << >> \o b = b BY <1>3
<1>5. axis_sink' = b BY <1>1, <1>2, <1>4 DEF Invoke
<1>6. Fed' = 0 BY <1>1 DEF Fed, Counts, Invoke
<1>7. Fed' + Len(axis_sink') = numberItems BY <1>3, <1>5, <1>6, Bounds
<1>8. \A k \in 1 .. Len(axis_sink') : axis_sink'[k] = 1 BY <1>3, <1>5
<1>9. UNCHANGED <<corr, data_source, in>> BY DEF Invoke
<1> QED BY <1>1, <1>6, <1>7, <1>8, <1>9 DEF ItemsOnTheWay, Item

LEMMA ItemsDataIn ==
    ASSUME Shapes, ItemsOnTheWay, ConvertDataIn, UNCHANGED pc
    PROVE  ItemsOnTheWay'
<1> USE Bounds
<1>1. PICK n, c, d, v, a :
         /\ n = numberItems /\ c = corr.counter /\ d = Len(data_source)
         /\ v = Counts(in.valid) /\ a = Len(axis_sink)
  OBVIOUS
<1>2. /\ n \in Nat /\ c \in Nat /\ d \in Nat /\ a \in Nat /\ v \in {0, 1}
      /\ in.valid = TRUE => v = 1
      /\ in.valid = FALSE => v = 0
  BY <1>1, Lengths DEF Shapes, ItemsOnTheWay, Counts
<1>3. Fed = c + d + v BY <1>1 DEF Fed
<1>4. in.counter = IF Fed = n THEN 0 ELSE Fed BY <1>1 DEF ItemsOnTheWay
<1>5. /\ Len(data_source') = d + v /\ \A k \in 1 .. d + v : data_source'[k] = Item(c + k)
  <2>1. \A k \in 1 .. d : data_source[k] = Item(c + k) BY <1>1 DEF ItemsOnTheWay
  <2>2. CASE in.valid = TRUE
    <3>1. in.y = Item(c + d + 1) BY <1>1, <1>2, <1>3, <2>2 DEF ItemsOnTheWay
    <3>2. data_source' = Append(data_source, in.y) BY <2>2, DataInStep
    <3>3. IsStream(data_source) BY DEF Shapes
    <3>4. /\ Len(data_source') = d + 1 /\ data_source'[d + 1] = in.y
          /\ \A k \in 1 .. d : data_source'[k] = data_source[k]
      BY <1>1, <3>2, <3>3, Appended
    <3>5. v = 1 /\ c + (d + 1) = c + d + 1 BY <1>2, <2>2
    <3>6. ASSUME NEW k \in 1 .. d + 1 PROVE data_source'[k] = Item(c + k)
      <4>1. CASE k = d + 1 BY <3>1, <3>4, <3>5, <4>1
      <4>2. CASE k # d + 1
        <5>1. k \in 1 .. d BY <1>2, <4>2
        <5> QED BY <2>1, <3>4, <5>1
      <4> QED BY <4>1, <4>2
    <3> QED BY <3>4, <3>5, <3>6
  <2>3. CASE in.valid = FALSE
    <3>1. data_source' = data_source BY <2>3, DataInStep
    <3> QED BY <1>1, <1>2, <2>1, <2>3, <3>1
  <2> QED BY <2>2, <2>3 DEF Shapes
<1>6. corr'.counter = c BY <1>1, DataInStep
<1>7. Fed' = c + d + v + Counts(in'.valid) BY <1>2, <1>5, <1>6 DEF Fed, Counts
<1>8. \A k \in 1 .. Len(axis_sink) : axis_sink[k] = 1 BY DEF ItemsOnTheWay
<1>9. CASE /\ axis_sink # << >> /\ axis_sink' = Tail(axis_sink) /\ in'.valid = TRUE
           /\ in'.y = [batch |-> Head(axis_sink), last |-> IsLast]
           /\ in'.counter = IF IsLast THEN 0 ELSE in.counter + 1
  <2>1. pc = "poll" /\ Fed + a = n BY <1>1, <1>9 DEF ItemsOnTheWay
  <2>2. /\ a >= 1 /\ Len(axis_sink') = a - 1 /\ Head(axis_sink) = 1
        /\ \A k \in 1 .. a - 1 : axis_sink'[k] = 1
    <3>1. IsStream(axis_sink) BY DEF Shapes
    <3> QED BY <1>1, <1>8, <1>9, <3>1, Passed
  <2>3. in.counter = Fed /\ Fed' = Fed + 1
    BY <1>2, <1>3, <1>4, <1>7, <1>9, <2>1, <2>2 DEF Counts
  <2>4. IsLast = (Fed' = n) BY <1>1, <2>3 DEF IsLast
  <2>5. in'.y = Item(Fed') BY <1>1, <1>9, <2>2, <2>4 DEF Item
  <2>6. in'.counter = IF Fed' = n THEN 0 ELSE Fed' BY <1>9, <2>3, <2>4
  <2>7. Fed' + Len(axis_sink') = n BY <1>2, <1>3, <2>1, <2>2, <2>3
  <2>8. \A k : Item(k)' = Item(k) BY DEF Item
  <2> QED BY <1>1, <1>2, <1>5, <1>6, <2>1, <2>2, <2>5, <2>6, <2>7 DEF ItemsOnTheWay, Item
<1>10. CASE /\ in.valid = TRUE /\ in'.valid = FALSE /\ in'.counter = in.counter
            /\ UNCHANGED axis_sink
  <2>1. Fed' = Fed BY <1>2, <1>3, <1>7, <1>10 DEF Counts
  <2> QED BY <1>1, <1>2, <1>5, <1>6, <1>8, <1>10, <2>1 DEF ItemsOnTheWay, Item
<1> QED BY <1>9, <1>10, DataInStep

(* The item that CORR takes is the one after those it has taken.           *)
LEMMA ItemTaken ==
    ASSUME Shapes, ItemsOnTheWay, data_source # << >>
    PROVE  /\ Head(data_source) = Item(corr.counter + 1)
           /\ corr.counter \in Nat /\ corr.counter < numberItems
<1>1. IsStream(data_source) BY DEF Shapes
<1>2. Len(data_source) \in Nat /\ Len(data_source) >= 1 /\ Head(data_source) = data_source[1]
  BY <1>1, Passed
<1>3. Len(axis_sink) \in Nat BY Lengths DEF Shapes
<1>4. Counts(in.valid) \in {0, 1} BY DEF Counts
<1>5. PICK c, d, v : c = corr.counter /\ d = Len(data_source) /\ v = Counts(in.valid) OBVIOUS
<1>6. c \in Nat /\ (c + d + v = 0 \/ c + d + v + Len(axis_sink) = numberItems)
  BY <1>5 DEF ItemsOnTheWay, Fed
<1>7. c < numberItems BY <1>2, <1>3, <1>4, <1>5, <1>6, Bounds
<1> QED BY <1>2, <1>5, <1>6, <1>7 DEF ItemsOnTheWay

LEMMA ItemsComputed ==
    ASSUME Shapes, ItemsOnTheWay, ComputeItem, UNCHANGED <<pc, in, axis_sink>>
    PROVE  ItemsOnTheWay'
<1>1. data_source # << >> /\ data_source' = Tail(data_source) BY DEF ComputeItem
<1>2. Head(data_source).last \in BOOLEAN BY <1>1, ItemTaken, ItemFields
<1>3. corr'.counter = corr.counter + 1 BY <1>2, ComputeItemStep
<1>4. IsStream(data_source) BY DEF Shapes
<1>5. PICK c, d, v : c = corr.counter /\ d = Len(data_source) /\ v = Counts(in.valid) OBVIOUS
<1>6. v \in {0, 1} /\ c \in Nat BY <1>5 DEF Counts, ItemsOnTheWay
<1>7. /\ d \in Nat /\ d >= 1 /\ Len(data_source') = d - 1
      /\ \A k \in 1 .. d - 1 : data_source'[k] = data_source[k + 1]
  BY <1>1, <1>4, <1>5, Passed
<1>8. Fed' = (c + 1) + (d - 1) + v BY <1>3, <1>5, <1>7 DEF Fed, Counts
<1>9. Fed' = Fed
  <2>1. Fed = c + d + v BY <1>5 DEF Fed
  <2> QED BY <1>6, <1>7, <1>8, <2>1
<1>10. ASSUME NEW k \in 1 .. d - 1 PROVE data_source'[k] = Item(corr'.counter + k)
  <2>1. data_source'[k] = data_source[k + 1] /\ k + 1 \in 1 .. d /\ (c + 1) + k = c + (k + 1)
    BY <1>6, <1>7
  <2> QED BY <1>3, <1>5, <2>1 DEF ItemsOnTheWay
<1>11. \A k \in 1 .. Len(data_source') : data_source'[k] = Item(corr'.counter + k)
  BY <1>7, <1>10
<1> QED BY <1>3, <1>5, <1>6, <1>9, <1>11 DEF ItemsOnTheWay, Item

-----------------------------------------------------------------------------
(* The sums of the first batch.                                            *)
LEMMA ReadBounds ==
    ASSUME BatchSummed
    PROVE  /\ HasRead \in 0 .. SumCount /\ (HasRead = SumCount => corr.counter = numberItems)
           /\ (HasRead = SumCount => samples = numberItems)
  BY Bounds DEF BatchSummed, HasRead

LEMMA SumsPushed ==
    ASSUME Shapes, BatchSummed, SumsOnTheWay, Accumulate
    PROVE  /\ HasTaken + Len(sums') = HasRead
           /\ \A k \in 1 .. Len(sums') : /\ sums'[k].val = SumOf(HasTaken + k - 1, 1)
                                         /\ sums'[k].last = (HasTaken + k = SumCount)
<1>1. IsStream(sums) BY DEF Shapes
<1>2. PICK t, l, r : t = HasTaken /\ l = Len(sums) /\ r = HasRead OBVIOUS
<1>3. t \in Nat /\ l \in Nat /\ t + l + Counts(corr.write) = r
  BY <1>1, <1>2, Lengths DEF SumsOnTheWay
<1>4. \A k \in 1 .. l : /\ sums[k].val = SumOf(t + k - 1, 1)
                        /\ sums[k].last = (t + k = SumCount)
  BY <1>2 DEF SumsOnTheWay
<1>5. CASE corr.write = TRUE
  <2>1. PICK x : x = [val |-> corr.result, last |-> corr.last] OBVIOUS
  <2>2. sums' = Append(sums, x) BY <1>5, <2>1 DEF Accumulate
  <2>3. t + l + 1 = r BY <1>3, <1>5 DEF Counts
  <2>4. corr.result = SumOf(r - 1, 1) /\ corr.last = (r = SumCount)
    BY <1>2, <1>5 DEF BatchSummed
  <2>5. x.val = SumOf(t + (l + 1) - 1, 1) /\ x.last = (t + (l + 1) = SumCount)
    <3>1. t + (l + 1) - 1 = r - 1 /\ t + (l + 1) = r BY <1>3, <2>3
    <3> QED BY <2>1, <2>4, <3>1
  <2>6. /\ Len(sums') = l + 1 /\ \A k \in 1 .. l : sums'[k] = sums[k]
        /\ sums'[l + 1] = x
    BY <1>1, <1>2, <2>2, Appended
  <2>7. ASSUME NEW k \in 1 .. l + 1
        PROVE  sums'[k].val = SumOf(t + k - 1, 1) /\ sums'[k].last = (t + k = SumCount)
    <3>1. CASE k = l + 1 BY <2>5, <2>6, <3>1
    <3>2. CASE k # l + 1
      <4>1. k \in 1 .. l BY <1>3, <3>2
      <4> QED BY <1>4, <2>6, <4>1
    <3> QED BY <3>1, <3>2
  <2> QED BY <1>2, <1>3, <2>3, <2>6, <2>7
<1>6. CASE corr.write = FALSE
  <2>1. sums' = sums BY <1>6 DEF Accumulate
  <2> QED BY <1>2, <1>3, <1>4, <1>6, <2>1 DEF Counts
<1> QED BY <1>5, <1>6 DEF Shapes

LEMMA ItemComputed ==
    ASSUME Shapes, ItemsOnTheWay, BatchSummed, ComputeItem
    PROVE  BatchSummed' /\ HasRead' = HasRead /\ corr'.write = FALSE
<1> USE Bounds
<1>1. data_source # << >> /\ corr.state = "COMPUTE" BY DEF ComputeItem
<1>2. PICK c : c = corr.counter OBVIOUS
<1>3. Head(data_source) = Item(c + 1) /\ c \in Nat /\ c < numberItems
  BY <1>1, <1>2, ItemTaken
<1>4. /\ Head(data_source).last = (c + 1 = numberItems) /\ Head(data_source).batch = 1
      /\ Head(data_source).last \in BOOLEAN
  BY <1>3, ItemFields, Zenon
<1>5. /\ corr'.accu = [p \in Place |-> TakenIn(corr.accu[p], 1)]
      /\ corr'.counter = c + 1 /\ corr'.write = FALSE
      /\ corr'.at = corr.at /\ corr'.last = corr.last
  BY <1>2, <1>4, ComputeItemStep
<1>6. HasRead = 0 BY <1>1, <1>2, <1>3 DEF HasRead
<1>7. /\ c + 1 = numberItems => corr'.state = "READOUT" /\ samples' = c + 1
      /\ c + 1 # numberItems => corr'.state = "COMPUTE" /\ samples' = samples
  <2>1. CASE c + 1 = numberItems
    <3>1. Head(data_source).last = TRUE BY <1>4, <2>1
    <3> QED BY <1>2, <1>4, <2>1, <3>1, ComputeItemStep
  <2>2. CASE c + 1 # numberItems
    <3>1. Head(data_source).last = FALSE BY <1>4, <2>2
    <3> QED BY <1>2, <1>4, <2>2, <3>1, ComputeItemStep
  <2> QED BY <2>1, <2>2
<1>8. corr.at = 0 BY <1>1 DEF BatchSummed
<1>9. HasRead' = 0 BY <1>5, <1>7, <1>8 DEF HasRead
<1>10. ASSUME NEW p \in 0 .. SumCount - 1 PROVE corr'.accu[p] = Held(c + 1)
  <2>1. corr.accu[p] = Held(c) BY <1>2, <1>6 DEF BatchSummed
  <2>2. p \in Place OBVIOUS
  <2>3. corr'.accu[p] = TakenIn(Held(c), 1) BY <1>5, <2>1, <2>2
  <2> QED BY <1>3, <2>3 DEF TakenIn, Held, NoItems
<1>11. corr'.last = (HasRead' = SumCount)
  <2>1. corr.last = (HasRead = SumCount) BY DEF BatchSummed
  <2> QED BY <1>5, <1>6, <1>9, <2>1, Zenon
<1>12. /\ corr'.state \in {"COMPUTE", "READOUT"} /\ corr'.at = 0
       /\ corr'.state = "READOUT" => corr'.counter = numberItems
       /\ corr'.counter = numberItems => samples' = numberItems
  BY <1>3, <1>5, <1>7, <1>8
<1>13. \A p \in HasRead' .. SumCount - 1 : corr'.accu[p] = Held(corr'.counter)
  BY <1>5, <1>9, <1>10
<1> QED BY <1>5, <1>6, <1>9, <1>11, <1>12, <1>13 DEF BatchSummed, Held

LEMMA SumRead ==
    ASSUME Shapes, BatchSummed, Readout
    PROVE  BatchSummed' /\ HasRead' = HasRead + 1 /\ corr'.write = TRUE
<1> USE Bounds
<1>1. PICK p : p = corr.at OBVIOUS
<1>2. p \in 0 .. SumCount - 1 /\ HasRead = p /\ corr.counter = numberItems
      /\ samples = numberItems
  BY <1>1 DEF Readout, BatchSummed, HasRead
<1>3. /\ corr'.accu = [corr.accu EXCEPT ![p] = NoItems]
      /\ corr'.result = [of |-> SumAt(p), items |-> corr.accu[p]]
      /\ corr'.counter = corr.counter /\ corr'.write = TRUE
      /\ corr'.at = IF p = SumCount - 1 THEN 0 ELSE p + 1
      /\ corr'.state = IF p = SumCount - 1 THEN "COMPUTE" ELSE "READOUT"
      /\ corr'.last = IF p < 2 * N THEN corr.last ELSE p = SumCount - 1
      /\ samples' = samples
  BY <1>1, <1>2, ReadoutStep
<1>4. HasRead' = p + 1 BY <1>2, <1>3 DEF HasRead
<1>5. corr.accu[p] = Held(numberItems) BY <1>2 DEF BatchSummed
<1>6. corr'.result = SumOf(HasRead' - 1, 1)
  <2>1. HasRead' - 1 = p BY <1>2, <1>4
  <2> QED BY <1>3, <1>5, <2>1 DEF SumOf, Held
<1>7. corr'.last = (HasRead' = SumCount)
  <2>1. CASE p < 2 * N
    <3>1. corr.last = FALSE
      <4>1. corr.last = (HasRead = SumCount) BY DEF BatchSummed
      <4>2. (HasRead = SumCount) = FALSE BY <1>2
      <4> QED BY <4>1, <4>2, Zenon
    <3>2. (HasRead' = SumCount) = FALSE BY <1>2, <1>4, <2>1
    <3> QED BY <1>3, <2>1, <3>1, <3>2
  <2>2. CASE ~(p < 2 * N)
    <3>1. corr'.last = (p = SumCount - 1) BY <1>3, <2>2
    <3>2. (p = SumCount - 1) = (p + 1 = SumCount) BY <1>2
    <3> QED BY <1>4, <3>1, <3>2
  <2> QED BY <2>1, <2>2
<1>8. ASSUME NEW k \in p + 1 .. SumCount - 1 PROVE corr'.accu[k] = Held(corr'.counter)
  <2>1. k \in p .. SumCount - 1 /\ k # p BY <1>2
  <2>2. corr.accu[k] = Held(corr.counter) BY <1>2, <2>1 DEF BatchSummed
  <2>3. k \in DOMAIN corr.accu BY <1>2 DEF Shapes
  <2> QED BY <1>3, <2>1, <2>2, <2>3
<1>9. /\ corr'.state \in {"COMPUTE", "READOUT"} /\ corr'.at \in 0 .. SumCount - 1
      /\ corr'.state = "COMPUTE" => corr'.at = 0
      /\ corr'.state = "READOUT" => corr'.counter = numberItems
      /\ corr'.counter = numberItems => samples' = numberItems
  BY <1>2, <1>3
<1>10. \A k \in HasRead' .. SumCount - 1 : corr'.accu[k] = Held(corr'.counter)
  BY <1>4, <1>8
<1> QED BY <1>2, <1>3, <1>4, <1>6, <1>7, <1>9, <1>10 DEF BatchSummed, Held, SumOf

LEMMA SumIdle ==
    ASSUME Shapes, BatchSummed, ComputeIdle
    PROVE  BatchSummed' /\ HasRead' = HasRead /\ corr'.write = FALSE
<1>1. HasRead' = HasRead BY ComputeIdleStep DEF HasRead
<1>2. /\ corr'.accu = corr.accu /\ corr'.counter = corr.counter /\ corr'.at = corr.at
      /\ corr'.state = corr.state /\ corr'.last = corr.last /\ corr'.write = FALSE
      /\ samples' = samples
  BY ComputeIdleStep
<1>3. BatchSummed' BY <1>1, <1>2 DEF BatchSummed, Held
<1> QED BY <1>1, <1>2, <1>3

LEMMA SumsAccumulated ==
    ASSUME Shapes, ItemsOnTheWay, BatchSummed, SumsOnTheWay, Accumulate
    PROVE  BatchSummed' /\ SumsOnTheWay'
<1>1. HasTaken' = HasTaken BY DEF Accumulate, HasTaken
<1>2. BatchSummed' /\ HasRead' = HasRead + Counts(corr'.write)
  <2>1. HasRead \in Int BY ReadBounds, Bounds
  <2>2. CASE ComputeItem
    <3>1. BatchSummed' /\ HasRead' = HasRead /\ corr'.write = FALSE BY <2>2, ItemComputed
    <3> QED BY <2>1, <3>1 DEF Counts
  <2>3. CASE Readout
    <3>1. BatchSummed' /\ HasRead' = HasRead + 1 /\ corr'.write = TRUE BY <2>3, SumRead
    <3> QED BY <2>1, <3>1 DEF Counts
  <2>4. CASE ComputeIdle
    <3>1. BatchSummed' /\ HasRead' = HasRead /\ corr'.write = FALSE BY <2>4, SumIdle
    <3> QED BY <2>1, <3>1 DEF Counts
  <2>5. ComputeItem \/ ComputeIdle \/ Readout BY DEF Accumulate
  <2> QED BY <2>2, <2>3, <2>4, <2>5
<1>3. HasTaken \in Nat BY DEF SumsOnTheWay
<1> QED BY <1>1, <1>2, <1>3, SumsPushed DEF SumsOnTheWay, SumOf, Counts

LEMMA SumsStay ==
    ASSUME BatchSummed, SumsOnTheWay, UNCHANGED <<corr, samples, coeff, sums>>
    PROVE  BatchSummed' /\ SumsOnTheWay'
<1>1. HasRead' = HasRead /\ HasTaken' = HasTaken BY DEF HasRead, HasTaken
<1> QED BY <1>1 DEF BatchSummed, SumsOnTheWay, Held, SumOf, Counts

LEMMA MemoriesStay ==
    ASSUME MemoriesFill, UNCHANGED <<coeff, data>>
    PROVE  MemoriesFill'
<1>1. HasTaken' = HasTaken BY DEF HasTaken
<1>2. \A k : CoefficientOf(1, k)' = CoefficientOf(1, k) BY StableAnswers
<1> QED BY <1>1, <1>2 DEF MemoriesFill, SumOf, Walk, TwicePairIndex

(* COEFF takes a sum of the first batch to its place.                      *)
LEMMA SumFed ==
    ASSUME Shapes, BatchSummed, SumsOnTheWay, MemoriesFill, Feed,
           UNCHANGED <<data, corr, samples>>
    PROVE  SumsOnTheWay' /\ MemoriesFill'
<1> USE Bounds
<1>1. PICK t, l : t = HasTaken /\ l = Len(sums) OBVIOUS
<1>2. PICK x : x = Head(sums) OBVIOUS
<1>3. coeff.state = "FEED" /\ sums # << >> /\ coeff.counter = t
  BY <1>1 DEF Feed, HasTaken
<1>4. IsStream(sums) BY DEF Shapes
<1>5. /\ l \in Nat /\ l >= 1 /\ x = sums[1] /\ sums' = Tail(sums) /\ Len(sums') = l - 1
      /\ \A k \in 1 .. l - 1 : sums'[k] = sums[k + 1]
  BY <1>1, <1>2, <1>3, <1>4, Passed DEF Feed
<1>6. /\ \A k \in 1 .. l : sums[k].val = SumOf(t + k - 1, 1) /\ sums[k].last = (t + k = SumCount)
      /\ t \in Nat /\ t + l + Counts(corr.write) = HasRead
  BY <1>1 DEF SumsOnTheWay
<1>7. x.val = SumOf(t, 1) /\ x.last = (t + 1 = SumCount)
  <2>1. 1 \in 1 .. l /\ t + 1 - 1 = t BY <1>5, <1>6
  <2> QED BY <1>5, <1>6, <2>1
<1>8. /\ coeff'.mem = [coeff.mem EXCEPT ![t] = x.val] /\ coeff'.write = FALSE
      /\ coeff'.coeff = coeff.coeff /\ coeff'.row = coeff.row /\ coeff'.col = coeff.col
      /\ coeff'.index = coeff.index
      /\ coeff'.counter = (IF x.last THEN 0 ELSE t + 1)
      /\ coeff'.state = (IF x.last THEN "SETTLE1" ELSE "FEED")
  BY <1>2, <1>3, FeedStep
<1>9. HasTaken' = t + 1 /\ coeff'.state \in {"SETTLE1", "FEED"}
  <2>1. CASE t + 1 = SumCount
    <3>1. x.last = TRUE BY <1>7, <2>1
    <3>2. coeff'.state = "SETTLE1" BY <1>8, <3>1
    <3> QED BY <2>1, <3>2 DEF HasTaken, SumCount
  <2>2. CASE t + 1 # SumCount
    <3>1. x.last = FALSE BY <1>7, <2>2
    <3>2. coeff'.state = "FEED" /\ coeff'.counter = t + 1 BY <1>8, <3>1
    <3> QED BY <3>2 DEF HasTaken
  <2> QED BY <2>1, <2>2
<1>10. Counts(corr.write) \in {0, 1} BY DEF Counts
<1>11. HasRead' = HasRead /\ Counts(corr'.write) = Counts(corr.write) BY DEF HasRead
<1>12. t \in 0 .. SumCount - 1 BY <1>5, <1>6, <1>10, ReadBounds
<1>13. SumsOnTheWay'
  <2>1. HasTaken' + Len(sums') + Counts(corr'.write) = HasRead'
    <3>1. PICK w : w = Counts(corr.write) OBVIOUS
    <3>2. w \in {0, 1} /\ t + l + w = HasRead BY <1>6, <1>10, <3>1
    <3>3. (t + 1) + (l - 1) + w = t + l + w BY <1>5, <1>6, <3>2
    <3> QED BY <1>5, <1>9, <1>11, <3>1, <3>2, <3>3
  <2>2. ASSUME NEW k \in 1 .. l - 1
        PROVE  /\ sums'[k].val = SumOf(HasTaken' + k - 1, 1)
               /\ sums'[k].last = (HasTaken' + k = SumCount)
    <3>1. k + 1 \in 1 .. l /\ t + (k + 1) = (t + 1) + k /\ t + (k + 1) - 1 = (t + 1) + k - 1
      BY <1>5, <1>6
    <3> QED BY <1>5, <1>6, <1>9, <3>1
  <2>3. HasTaken' \in Nat BY <1>6, <1>9
  <2> QED BY <1>5, <2>1, <2>2, <2>3 DEF SumsOnTheWay, SumOf, Counts
<1>14. ASSUME NEW p \in 0 .. HasTaken' - 1 PROVE coeff'.mem[p] = SumOf(p, 1)
  <2>1. p \in DOMAIN coeff.mem BY <1>9, <1>12 DEF Shapes
  <2>2. CASE p = t BY <1>7, <1>8, <2>1, <2>2
  <2>3. CASE p # t
    <3>1. p \in 0 .. t - 1 BY <1>9, <1>12, <2>3
    <3>2. coeff.mem[p] = SumOf(p, 1) BY <1>1, <3>1 DEF MemoriesFill
    <3> QED BY <1>8, <2>1, <2>3, <3>2
  <2> QED BY <2>2, <2>3
<1>15. MemoriesFill'
  <2>1. \A k : CoefficientOf(1, k)' = CoefficientOf(1, k) BY StableAnswers
  <2>2. Walk(coeff.row, coeff.col, coeff.index)
        /\ \A k \in 0 .. coeff.index - 1 : coeff.coeff[k] = CoefficientOf(1, k)
    BY DEF MemoriesFill
  <2>3. ~coeff'.write /\ coeff'.coeff = coeff.coeff /\ coeff'.index = coeff.index
        /\ coeff'.row = coeff.row /\ coeff'.col = coeff.col
    BY <1>8
  <2>4. coeff'.state \in {"FEED", "SETTLE1", "SETTLE2", "COMPUTE"} BY <1>9
  <2> QED BY <1>14, <2>1, <2>2, <2>3, <2>4 DEF MemoriesFill, SumOf, Walk, TwicePairIndex
<1> QED BY <1>13, <1>15

(* It sets out when it has taken all sums, and for the whole batch.        *)
LEMMA SumsSettled ==
    ASSUME Shapes, BatchSummed, SumsOnTheWay, MemoriesFill, Settle,
           UNCHANGED <<data, corr, samples>>
    PROVE  SumsOnTheWay' /\ MemoriesFill'
<1>1. HasTaken' = HasTaken BY SettleStep DEF HasTaken, SumCount
<1>2. HasRead' = HasRead BY DEF HasRead
<1>3. \A k : CoefficientOf(1, k)' = CoefficientOf(1, k) BY StableAnswers
<1>4. SumsOnTheWay' BY <1>1, <1>2, SettleStep DEF SumsOnTheWay, SumOf, Counts
<1>5. MemoriesFill'
  <2>1. /\ coeff'.state \in {"FEED", "SETTLE1", "SETTLE2", "COMPUTE"} /\ ~coeff'.write
        /\ coeff'.coeff = coeff.coeff /\ coeff'.index = coeff.index
        /\ coeff'.row = coeff.row /\ coeff'.col = coeff.col /\ coeff'.mem = coeff.mem
    BY SettleStep
  <2> QED BY <1>1, <1>3, <2>1 DEF MemoriesFill, SumOf, Walk, TwicePairIndex
<1> QED BY <1>4, <1>5

(* A pair's coefficient is that of the first batch, and the walk goes on   *)
(* to the next pair, until the last is done.                               *)
LEMMA PairComputed ==
    ASSUME Shapes, BatchSummed, SumsOnTheWay, MemoriesFill, coeff.index < P, Compute,
           UNCHANGED <<data, corr, samples>>
    PROVE  \/ coeff'.index < P /\ SumsOnTheWay' /\ MemoriesFill'
           \/ Answered'
<1> USE Bounds
<1>1. PICK row, col, k : row = coeff.row /\ col = coeff.col /\ k = coeff.index OBVIOUS
<1>2. Walk(row, col, k) /\ k < P /\ \A l \in 0 .. k - 1 : coeff.coeff[l] = CoefficientOf(1, l)
  BY <1>1 DEF MemoriesFill
<1>3. /\ k \in 0 .. P - 1 /\ PairAt(k) = <<row, col>> /\ row \in Lane /\ col \in Lane
      /\ row \in 0 .. N - 2 /\ col \in row + 1 .. N - 1
  BY <1>2, WalkIndex DEF Walk
<1>4. coeff.state = "COMPUTE" /\ HasTaken = SumCount BY DEF Compute, HasTaken
<1>5. samples = numberItems
  <2>1. Counts(corr.write) \in {0, 1} /\ Len(sums) \in Nat BY Lengths DEF Counts, Shapes
  <2>2. SumCount + Len(sums) + Counts(corr.write) = HasRead BY <1>4 DEF SumsOnTheWay
  <2>3. HasRead = SumCount BY <2>1, <2>2, ReadBounds
  <2> QED BY <2>3, ReadBounds
<1>6. PairValue(coeff.mem, row, col, k) = CoefficientOf(1, k)
  <2>1. \A p \in 0 .. SumCount - 1 : coeff.mem[p] = SumOf(p, 1) BY <1>4 DEF MemoriesFill
  <2>2. {row, col, N + row, N + col, 2 * N + k} \subseteq 0 .. SumCount - 1 BY <1>3 DEF Lane
  <2>3. /\ coeff.mem[row] = SumOf(row, 1) /\ coeff.mem[col] = SumOf(col, 1)
        /\ coeff.mem[N + row] = SumOf(N + row, 1) /\ coeff.mem[N + col] = SumOf(N + col, 1)
        /\ coeff.mem[2 * N + k] = SumOf(2 * N + k, 1)
    BY <2>1, <2>2
  <2> QED BY <1>3, <1>5, <2>3 DEF PairValue, CoefficientOf
<1>7. PICK isNew : isNew = (k < P) OBVIOUS
<1>8. PICK row2 : row2 = IF isNew /\ col = N - 1 THEN row + 1 ELSE row OBVIOUS
<1>9. isNew = TRUE /\ row2 = IF col = N - 1 THEN row + 1 ELSE row
  BY <1>2, <1>7, <1>8
<1>10. /\ sums' = sums /\ coeff'.mem = coeff.mem /\ coeff'.write = coeff.write
       /\ coeff'.coeff = [coeff.coeff EXCEPT ![k] = CoefficientOf(1, k)]
       /\ coeff'.index = k + 1 /\ coeff'.row = row2
       /\ coeff'.col = IF col = N - 1 THEN row2 + 1 ELSE col + 1
       /\ coeff'.state = IF row2 = N - 1 THEN "READOUT" ELSE "COMPUTE"
  BY <1>1, <1>6, <1>7, <1>8, <1>9, ComputeStep
<1>11. ASSUME NEW l \in 0 .. k PROVE coeff'.coeff[l] = CoefficientOf(1, l)
  <2>1. l \in DOMAIN coeff.coeff BY <1>3 DEF Shapes
  <2>2. CASE l = k BY <1>10, <2>1, <2>2
  <2>3. CASE l # k
    <3>1. l \in 0 .. k - 1 BY <1>3, <2>3
    <3> QED BY <1>2, <1>10, <2>1, <2>3, <3>1
  <2> QED BY <2>2, <2>3
<1>12. \A l : CoefficientOf(1, l)' = CoefficientOf(1, l) BY StableAnswers
<1>13. ASSUME Walk(row2, coeff'.col, k + 1)
       PROVE  coeff'.index < P /\ SumsOnTheWay' /\ MemoriesFill'
  <2>1. k + 1 \in 0 .. P - 1 /\ row2 \in 0 .. N - 2 BY <1>13, WalkIndex DEF Walk
  <2>2. coeff'.state = "COMPUTE" BY <1>10, <2>1
  <2>3. HasTaken' = SumCount BY <2>2 DEF HasTaken, SumCount
  <2>4. HasRead' = HasRead BY DEF HasRead
  <2>5. SumsOnTheWay' BY <1>4, <1>10, <2>3, <2>4 DEF SumsOnTheWay, SumOf, Counts
  <2>6. coeff'.index = k + 1 /\ coeff'.row = row2 BY <1>10
  <2>7. \A p \in 0 .. HasTaken' - 1 : coeff'.mem[p] = SumOf(p, 1)
    BY <1>4, <1>10, <2>3 DEF MemoriesFill
  <2>8. \A l \in 0 .. coeff'.index - 1 : coeff'.coeff[l] = CoefficientOf(1, l)
    BY <1>3, <1>11, <2>6
  <2>9. ~coeff'.write BY <1>10 DEF MemoriesFill
  <2>10. MemoriesFill'
    BY <1>12, <1>13, <2>2, <2>6, <2>7, <2>8, <2>9
       DEF MemoriesFill, SumOf, Walk, TwicePairIndex
  <2> QED BY <2>1, <2>5, <2>6, <2>10
<1>14. ASSUME row2 = N - 1, k + 1 = P PROVE Answered'
  <2>1. coeff'.index = P /\ coeff'.row = N - 1 BY <1>10, <1>14
  <2>2. \A l \in 0 .. P - 1 : coeff'.coeff[l] = CoefficientOf(1, l)'
    <3>1. ASSUME NEW l \in 0 .. P - 1 PROVE coeff'.coeff[l] = CoefficientOf(1, l)'
      <4>1. l \in 0 .. k BY <1>3, <1>14
      <4>2. coeff'.coeff[l] = CoefficientOf(1, l) BY <1>11, <4>1
      <4> QED BY <1>12, <4>2
    <3> QED BY <3>1
  <2>3. P' = P /\ N' = N BY DEF P
  <2> QED BY <2>1, <2>2, <2>3 DEF Answered
<1>15. CASE col # N - 1
  <2>1. row2 = row /\ coeff'.col = col + 1 BY <1>9, <1>10, <1>15
  <2> QED BY <1>2, <1>13, <1>15, <2>1, WalkOn
<1>16. CASE col = N - 1 /\ row + 1 # N - 1
  <2>1. row2 = row + 1 /\ coeff'.col = row + 2 BY <1>3, <1>9, <1>10, <1>16
  <2> QED BY <1>2, <1>13, <1>16, <2>1, WalkOn
<1>17. CASE col = N - 1 /\ row + 1 = N - 1
  <2>1. row2 = N - 1 BY <1>9, <1>17
  <2> QED BY <1>2, <1>14, <1>17, <2>1, WalkOn
<1> QED BY <1>15, <1>16, <1>17
-----------------------------------------------------------------------------
(* The coefficients go out in turn.                                        *)
LEMMA SmallPlace == ASSUME NEW k \in 0 .. P - 1 PROVE k % P = k
  BY Bounds

LEMMA ZeroPlaces == 0 % P = 0 /\ P % P = 0
<1>1. 0 % P = 0 BY Bounds, SmallPlace
<1>2. (P - 1) % P = P - 1 /\ P - 1 \in Nat /\ (P - 1) + 1 = P BY Bounds, SmallPlace
<1>3. ((P - 1) + 1) % P = 0 BY <1>2, PlaceAfter
<1> QED BY <1>1, <1>2, <1>3

LEMMA StableAnswer ==
    ASSUME UNCHANGED data, NEW n
    PROVE  Answer(n)' = Answer(n)
  BY DEF Answer, CoefficientOf, Value

LEMMA AlignedStay ==
    ASSUME Aligned, UNCHANGED <<data, out, result_values, coeff>>,
           (P - toWrite') % P = (P - toWrite) % P
    PROVE  Aligned'
<1>1. PICK g \in Nat : InTurn(g) BY DEF Aligned
<1>2. \A n : Answer(n)' = Answer(n) BY StableAnswer
<1>3. InTurn(g)' BY <1>1, <1>2 DEF InTurn, Counts, Answer
<1> QED BY <1>3 DEF Aligned, InTurn, Answer

(* What InTurn says, with the counts named.                                *)
LEMMA Turn ==
    ASSUME Shapes, NEW g \in Nat, InTurn(g), NEW o, NEW l, NEW w,
           o = Counts(out.valid), l = Len(result_values), w = Counts(coeff.write)
    PROVE  /\ o \in {0, 1} /\ l \in Nat /\ w \in {0, 1}
           /\ (P - toWrite) % P = g % P
           /\ out.valid => out.x.val = Answer(g)
           /\ \A j \in 1 .. l : result_values[j].val = Answer(g + o + j - 1)
           /\ coeff.write => coeff.value = Answer(g + o + l)
           /\ coeff.counter_rd = (g + o + l + w) % P
  BY Lengths DEF InTurn, Counts, Shapes

(* COEFF gives away the coefficient it has read, and reads the next.       *)
LEMMA AnswerPushed ==
    ASSUME Shapes, NEW g \in Nat, InTurn(g), AccCoeff, NEW o, NEW l, NEW w,
           o = Counts(out.valid), l = Len(result_values), w = Counts(coeff.write)
    PROVE  /\ Len(result_values') = l + w
           /\ \A j \in 1 .. l + w : result_values'[j].val = Answer(g + o + j - 1)
<1>1. /\ o \in {0, 1} /\ l \in Nat /\ w \in {0, 1}
      /\ \A j \in 1 .. l : result_values[j].val = Answer(g + o + j - 1)
      /\ coeff.write => coeff.value = Answer(g + o + l)
  BY Turn
<1>2. CASE coeff.write = TRUE
  <2>1. PICK x : x = [val |-> coeff.value, last |-> coeff.last] OBVIOUS
  <2>2. result_values' = Append(result_values, x) BY <1>2, <2>1 DEF AccCoeff
  <2>3. IsStream(result_values) BY DEF Shapes
  <2>4. /\ Len(result_values') = l + 1 /\ result_values'[l + 1] = x
        /\ \A j \in 1 .. l : result_values'[j] = result_values[j]
    BY <2>2, <2>3, Appended
  <2>5. x.val = Answer(g + o + (l + 1) - 1)
    <3>1. g + o + (l + 1) - 1 = g + o + l BY <1>1
    <3> QED BY <1>1, <1>2, <2>1, <3>1
  <2>6. w = 1 BY <1>2 DEF Counts
  <2>7. ASSUME NEW j \in 1 .. l + 1 PROVE result_values'[j].val = Answer(g + o + j - 1)
    <3>1. CASE j = l + 1 BY <2>4, <2>5, <3>1
    <3>2. CASE j # l + 1
      <4>1. j \in 1 .. l BY <1>1, <3>2
      <4> QED BY <1>1, <2>4, <4>1
    <3> QED BY <3>1, <3>2
  <2> QED BY <2>4, <2>6, <2>7
<1>3. CASE coeff.write = FALSE
  <2>1. result_values' = result_values /\ w = 0 BY <1>3 DEF AccCoeff, Counts
  <2> QED BY <1>1, <2>1
<1> QED BY <1>2, <1>3 DEF Shapes

(* Only read-outs go on, and they read right answers.                      *)
AllAnswers == \A k \in 0 .. P - 1 : coeff.coeff[k] = CoefficientOf(1, k)

LEMMA AlignedAnswers ==
    ASSUME Shapes, Aligned, AccCoeff, coeff.state = "READOUT" => AllAnswers,
           UNCHANGED toWrite
    PROVE  Aligned'
<1>1. PICK g \in Nat : InTurn(g) BY DEF Aligned
<1>2. PICK o, l, w : o = Counts(out.valid) /\ l = Len(result_values) /\ w = Counts(coeff.write)
  OBVIOUS
<1>3. /\ o \in {0, 1} /\ l \in Nat /\ w \in {0, 1}
      /\ (P - toWrite) % P = g % P
      /\ out.valid => out.x.val = Answer(g)
      /\ coeff.counter_rd = (g + o + l + w) % P
  BY <1>1, <1>2, Turn
<1>4. /\ Len(result_values') = l + w
      /\ \A j \in 1 .. l + w : result_values'[j].val = Answer(g + o + j - 1)
  BY <1>1, <1>2, AnswerPushed
<1>5. \A n : Answer(n)' = Answer(n)
  <2>1. UNCHANGED data BY DEF AccCoeff
  <2> QED BY <2>1, StableAnswer
<1>6. UNCHANGED out BY DEF AccCoeff
<1>7. PICK n \in Nat : n = g + o + l + w BY <1>3
<1>8. g + o + (l + w) = n BY <1>3, <1>7
<1>9. \/ coeff'.write = FALSE /\ coeff'.counter_rd = n % P
      \/ /\ coeff'.write = TRUE /\ coeff'.value = Answer(n)
         /\ coeff'.counter_rd = (n + 1) % P
  <2>1. CASE ReadCoeff
    <3>1. /\ coeff'.write = TRUE /\ coeff'.value = coeff.coeff[coeff.counter_rd]
          /\ coeff'.counter_rd = IF coeff.counter_rd + 1 = P THEN 0 ELSE coeff.counter_rd + 1
          /\ AllAnswers
      BY <2>1, ReadCoeffStep
    <3>2. coeff.counter_rd = n % P /\ n % P \in 0 .. P - 1 BY <1>3, <1>7, PlaceAfter
    <3>3. coeff'.value = CoefficientOf(1, n % P) BY <3>1, <3>2 DEF AllAnswers
    <3>4. coeff'.counter_rd = (n + 1) % P BY <3>1, <3>2, PlaceAfter
    <3> QED BY <3>1, <3>3, <3>4 DEF Answer
  <2>2. CASE Feed
    <3>1. coeff'.write = FALSE /\ coeff'.counter_rd = coeff.counter_rd BY <2>2, FeedStep
    <3> QED BY <1>3, <1>7, <3>1
  <2>3. CASE FeedIdle
    <3>1. coeff'.write = FALSE /\ coeff'.counter_rd = coeff.counter_rd BY <2>3, FeedIdleStep
    <3> QED BY <1>3, <1>7, <3>1
  <2>4. CASE Settle
    <3>1. coeff'.write = FALSE /\ coeff'.counter_rd = coeff.counter_rd BY <2>4, SettleStep
    <3> QED BY <1>3, <1>7, <3>1
  <2>5. CASE Compute
    <3>1. coeff.write = FALSE BY <2>5 DEF Aligned, Compute
    <3>2. coeff'.write = FALSE /\ coeff'.counter_rd = coeff.counter_rd
      BY <2>5, <3>1, ComputeStep
    <3> QED BY <1>3, <1>7, <3>2
  <2> QED BY <2>1, <2>2, <2>3, <2>4, <2>5 DEF AccCoeff
<1>10. coeff'.state \in {"SETTLE1", "SETTLE2", "COMPUTE"} => coeff'.write = FALSE
  <2>1. CASE Feed BY <2>1, FeedStep
  <2>2. CASE FeedIdle BY <2>2, FeedIdleStep
  <2>3. CASE Settle BY <2>3, SettleStep
  <2>4. CASE Compute
    <3>1. coeff.write = FALSE BY <2>4 DEF Aligned, Compute
    <3> QED BY <2>4, <3>1, ComputeStep
  <2>5. CASE ReadCoeff
    <3>1. coeff'.state \in {"FEED", "READOUT"} BY <2>5 DEF ReadCoeff, Shapes
    <3> QED BY <3>1
  <2> QED BY <2>1, <2>2, <2>3, <2>4, <2>5 DEF AccCoeff
<1>11. InTurn(g)'
  <2>1. Counts(out'.valid) = o BY <1>2, <1>6
  <2>2. coeff'.write => coeff'.value = Answer(g + o + (l + w)) BY <1>8, <1>9
  <2>3. coeff'.counter_rd = (g + o + (l + w) + Counts(coeff'.write)) % P
    <3>1. CASE coeff'.write = FALSE
      <4>1. coeff'.counter_rd = n % P BY <1>9, <3>1
      <4>2. g + o + (l + w) + 0 = n BY <1>7, <1>8
      <4> QED BY <3>1, <4>1, <4>2 DEF Counts
    <3>2. CASE coeff'.write = TRUE
      <4>1. coeff'.counter_rd = (n + 1) % P BY <1>9, <3>2
      <4>2. g + o + (l + w) + 1 = n + 1 BY <1>8
      <4> QED BY <3>2, <4>1, <4>2 DEF Counts
    <3> QED BY <1>9, <3>1, <3>2
  <2> QED BY <1>3, <1>4, <1>5, <1>6, <2>1, <2>2, <2>3 DEF InTurn, Counts, Answer
<1> QED BY <1>10, <1>11 DEF Aligned, InTurn, Answer

(* A line is written and the next is taken up.                             *)
LEMMA AlignedLine ==
    ASSUME PollsWhatItCleared, Shapes, Aligned, LineOut
    PROVE  Aligned'
<1> USE Bounds
<1>1. PICK g \in Nat : InTurn(g) BY DEF Aligned
<1>2. PICK o, l, w : o = Counts(out.valid) /\ l = Len(result_values) /\ w = Counts(coeff.write)
  OBVIOUS
<1>3. /\ o \in {0, 1} /\ l \in Nat /\ w \in {0, 1}
      /\ (P - toWrite) % P = g % P
      /\ \A j \in 1 .. l : result_values[j].val = Answer(g + o + j - 1)
      /\ coeff.write => coeff.value = Answer(g + o + l)
      /\ coeff.counter_rd = (g + o + l + w) % P
  BY <1>1, <1>2, Turn
<1>4. UNCHANGED <<data, coeff>> BY DEF LineOut, ConvertDataOut
<1>5. \A n : Answer(n)' = Answer(n) BY <1>4, StableAnswer
<1>6. PICK h \in Nat : h = g + o BY <1>3
<1>7. (P - toWrite') % P = h % P
  <2>1. CASE out.valid = TRUE
    <3>1. o = 1 BY <1>2, <2>1 DEF Counts
    <3>2. toWrite \in 1 .. P /\ toWrite' = toWrite - 1
      BY <2>1 DEF LineOut, WriteLine, PollsWhatItCleared
    <3>3. PICK a \in Nat : a = P - toWrite BY <3>2
    <3>4. a % P = g % P BY <1>3, <3>3
    <3>5. (a + 1) % P = (g + 1) % P BY <3>4, PlaceAfter
    <3>6. P - toWrite' = a + 1 BY <3>2, <3>3
    <3> QED BY <1>6, <3>1, <3>5, <3>6
  <2>2. CASE out.valid = FALSE
    <3>1. o = 0 /\ toWrite' = toWrite BY <1>2, <2>2 DEF Counts, LineOut
    <3> QED BY <1>3, <1>6, <3>1
  <2> QED BY <2>1, <2>2 DEF Shapes
<1>8. CASE /\ result_values # << >>
           /\ result_values' = Tail(result_values)
           /\ out' = [valid |-> TRUE, x |-> Head(result_values)]
  <2>1. IsStream(result_values) BY DEF Shapes
  <2>2. /\ l >= 1 /\ Len(result_values') = l - 1 /\ Head(result_values) = result_values[1]
        /\ \A j \in 1 .. l - 1 : result_values'[j] = result_values[j + 1]
    BY <1>2, <1>8, <2>1, Passed
  <2>3. out'.valid = TRUE /\ out'.x = result_values[1] BY <1>8, <2>2
  <2>4. out'.x.val = Answer(h)
    <3>1. 1 \in 1 .. l /\ g + o + 1 - 1 = h BY <1>3, <1>6, <2>2
    <3> QED BY <1>3, <2>3, <3>1
  <2>5. ASSUME NEW j \in 1 .. l - 1 PROVE result_values'[j].val = Answer(h + 1 + j - 1)
    <3>1. j + 1 \in 1 .. l /\ g + o + (j + 1) - 1 = h + 1 + j - 1 BY <1>3, <1>6
    <3> QED BY <1>3, <2>2, <3>1
  <2>6. h + 1 + (l - 1) = g + o + l /\ h + 1 + (l - 1) + w = g + o + l + w BY <1>3, <1>6
  <2>7. Counts(out'.valid) = 1 BY <2>3 DEF Counts
  <2>8. Counts(coeff'.write) = w BY <1>2, <1>4
  <2>9. coeff'.write => coeff'.value = Answer(h + 1 + (l - 1)) BY <1>3, <1>4, <2>6
  <2>10. coeff'.counter_rd = (h + 1 + (l - 1) + w) % P BY <1>3, <1>4, <2>6
  <2>11. /\ out'.x.val = Answer(h)'
         /\ \A j \in 1 .. l - 1 : result_values'[j].val = Answer(h + 1 + j - 1)'
         /\ coeff'.write => coeff'.value = Answer(h + 1 + (l - 1))'
    BY <1>5, <2>4, <2>5, <2>9
  <2>12. InTurn(h)' BY <1>7, <2>2, <2>7, <2>8, <2>10, <2>11 DEF InTurn, Counts, Answer
  <2> QED BY <1>4, <2>12 DEF Aligned, InTurn, Answer
<1>9. CASE out.valid /\ out' = [out EXCEPT !.valid = FALSE] /\ UNCHANGED result_values
  <2>1. out'.valid = FALSE BY <1>9 DEF Shapes
  <2>2. Counts(out'.valid) = 0 /\ Counts(coeff'.write) = w BY <1>2, <1>4, <2>1 DEF Counts
  <2>3. h + 0 + l = g + o + l /\ h + 0 + l + w = g + o + l + w BY <1>3, <1>6
  <2>4. \A j \in 1 .. l : result_values'[j].val = Answer(h + 0 + j - 1)
    <3>1. ASSUME NEW j \in 1 .. l PROVE result_values'[j].val = Answer(h + 0 + j - 1)
      <4>1. g + o + j - 1 = h + 0 + j - 1 BY <1>3, <1>6
      <4> QED BY <1>3, <1>9, <4>1
    <3> QED BY <3>1
  <2>5. coeff'.write => coeff'.value = Answer(h + 0 + l) BY <1>3, <1>4, <2>3
  <2>6. coeff'.counter_rd = (h + 0 + l + w) % P BY <1>3, <1>4, <2>3
  <2>7. Len(result_values') = l BY <1>2, <1>9
  <2>8. InTurn(h)'
    BY <1>5, <1>7, <2>1, <2>2, <2>4, <2>5, <2>6, <2>7 DEF InTurn, Counts, Answer
  <2> QED BY <1>4, <2>8 DEF Aligned, InTurn, Answer
<1> QED BY <1>8, <1>9 DEF LineOut, ConvertDataOut

LEMMA StableLines ==
    ASSUME UNCHANGED data
    PROVE  \A k : LineOf(CoefficientOf(1, k))' = LineOf(CoefficientOf(1, k))
<1> TAKE k
<1>1. CoefficientOf(1, k)' = CoefficientOf(1, k) BY StableAnswers
<1> QED BY <1>1 DEF LineOf

(* What has been written stays the answer line for line.                   *)
LEMMA LineWritten ==
    ASSUME PollsWhatItCleared, Shapes, Aligned, Written, LineOut
    PROVE  Written'
<1> USE Bounds
<1>1. UNCHANGED <<data, pc, reps>> BY DEF LineOut, ConvertDataOut
<1>2. \A k : LineOf(CoefficientOf(1, k))' = LineOf(CoefficientOf(1, k)) BY <1>1, StableLines
<1>3. CASE out.valid = TRUE
  <2>1. /\ toWrite \in 1 .. P /\ toWrite' = toWrite - 1 /\ pc = "poll"
        /\ resultMem' = [resultMem EXCEPT ![(P - toWrite) % P] = LineOf(out.x.val)]
        /\ DOMAIN resultMem = 0 .. P - 1
    BY <1>3 DEF LineOut, WriteLine, PollsWhatItCleared
  <2>2. PICK a \in 0 .. P - 1 : a = P - toWrite BY <2>1
  <2>3. a % P = a BY SmallPlace
  <2>4. out.x.val = CoefficientOf(1, a)
    <3>1. PICK g \in Nat : InTurn(g) BY DEF Aligned
    <3>2. a % P = g % P /\ out.x.val = Answer(g) BY <1>3, <2>2, <3>1 DEF InTurn
    <3> QED BY <2>3, <3>2 DEF Answer
  <2>5. resultMem' = [resultMem EXCEPT ![a] = LineOf(CoefficientOf(1, a))] BY <2>1, <2>2, <2>3, <2>4
  <2>6. ASSUME NEW k \in 0 .. a PROVE resultMem'[k] = LineOf(CoefficientOf(1, k))
    <3>1. k \in DOMAIN resultMem BY <2>1
    <3>2. CASE k = a BY <2>5, <3>1, <3>2
    <3>3. CASE k # a
      <4>1. k \in 0 .. P - toWrite - 1 BY <2>1, <2>2, <3>3
      <4>2. resultMem[k] = LineOf(CoefficientOf(1, k)) BY <2>1, <4>1 DEF Written
      <4> QED BY <2>5, <3>1, <3>3, <4>2
    <3> QED BY <3>2, <3>3
  <2>7. P - toWrite' - 1 = a BY <2>1, <2>2
  <2>8. \A k \in 0 .. P - toWrite' - 1 : resultMem'[k] = LineOf(CoefficientOf(1, k))' BY <1>2, <2>6, <2>7
  <2>9. P' = P /\ pc' = "poll" BY <1>1, <2>1 DEF P
  <2> QED BY <2>8, <2>9 DEF Written
<1>4. CASE out.valid = FALSE
  <2>1. UNCHANGED <<resultMem, toWrite>> BY <1>4 DEF LineOut
  <2> QED BY <1>1, <1>2, <2>1 DEF Written, P
<1> QED BY <1>3, <1>4 DEF Shapes

LEMMA WrittenStay ==
    ASSUME Written, UNCHANGED <<data, pc, reps, resultMem, toWrite>>
    PROVE  Written'
<1>1. \A k : LineOf(CoefficientOf(1, k))' = LineOf(CoefficientOf(1, k)) BY StableLines
<1> QED BY <1>1 DEF Written, P

LEMMA HostWritten ==
    ASSUME PollsWhatItCleared, Written, Host
    PROVE  Written'
<1> USE Bounds
<1>1. CASE Begin BY <1>1 DEF Begin, Written
<1>2. CASE Invoke
  <2>1. pc' = "poll" /\ toWrite' = P BY <1>2 DEF Invoke, PollsWhatItCleared
  <2> QED BY <2>1 DEF Written, P
<1>3. CASE PollCoefficient
  <2>1. /\ pc = "poll" /\ toWrite = 0 /\ UNCHANGED <<data, resultMem>> /\ pc' # "poll"
    BY <1>3 DEF PollCoefficient, Finished, PollsWhatItCleared, kernelVars
  <2>2. \A k \in 0 .. P - 1 : resultMem[k] = LineOf(CoefficientOf(1, k)) BY <2>1 DEF Written
  <2>3. \A k : LineOf(CoefficientOf(1, k))' = LineOf(CoefficientOf(1, k)) BY <2>1, StableLines
  <2> QED BY <2>1, <2>2, <2>3 DEF Written, P
<1> QED BY <1>1, <1>2, <1>3 DEF Host
-----------------------------------------------------------------------------
(* Until the first coefficients are all there, the host polls in vain, and *)
(* there is no line to write.                                              *)
LEMMA NothingToWrite ==
    ASSUME PollsWhatItCleared, NoAnswerYet
    PROVE  ~PollCoefficient /\ ~LineOut
<1>1. ASSUME PollCoefficient PROVE FALSE
  <2>1. pc = "poll" /\ toWrite = P BY <1>1 DEF PollCoefficient, NoAnswerYet
  <2>2. P - 1 \in P - toWrite .. P - 1 BY <2>1, Bounds
  <2>3. resultMem[P - 1] = ZeroValue BY <2>1, <2>2 DEF PollsWhatItCleared
  <2> QED BY <1>1, <2>3 DEF PollCoefficient, Finished
<1>2. ~LineOut BY DEF LineOut, ConvertDataOut, NoAnswerYet
<1> QED BY <1>1, <1>2

LEMMA FirstHost ==
    ASSUME PollsWhatItCleared, Shapes, FirstAnswer, Begin \/ Invoke
    PROVE  FirstAnswer'
<1>1. /\ coeff.index < P /\ NoAnswerYet /\ ItemsOnTheWay /\ BatchSummed /\ SumsOnTheWay
      /\ MemoriesFill
  BY DEF FirstAnswer
<1>2. UNCHANGED <<data, data_source, sums, result_values, samples, in, corr, coeff, out, reps>>
  BY DEF Begin, Invoke, kernelVars
<1>3. BatchSummed' /\ SumsOnTheWay' BY <1>1, <1>2, SumsStay
<1>4. MemoriesFill' BY <1>1, <1>2, MemoriesStay
<1>5. CASE Begin
  <2>1. pc' = "invoke" /\ pc = "begin" /\ UNCHANGED axis_sink BY <1>5 DEF Begin, kernelVars
  <2>2. ItemsOnTheWay' BY <1>1, <1>2, <2>1, ItemsStay
  <2>3. NoAnswerYet' BY <1>1, <1>2, <2>1 DEF NoAnswerYet
  <2> QED BY <1>1, <1>2, <1>3, <1>4, <2>2, <2>3 DEF FirstAnswer, P
<1>6. CASE Invoke
  <2>1. ItemsOnTheWay' BY <1>1, <1>6, ItemsInvoked
  <2>2. pc' = "poll" /\ toWrite' = P BY <1>6, Bounds DEF Invoke, PollsWhatItCleared
  <2>3. NoAnswerYet' BY <1>1, <1>2, <2>2 DEF NoAnswerYet, P
  <2> QED BY <1>1, <1>2, <1>3, <1>4, <2>1, <2>3 DEF FirstAnswer, P
<1> QED BY <1>5, <1>6

LEMMA FirstKernelStep ==
    ASSUME PollsWhatItCleared, Shapes, FirstAnswer, Kernel
    PROVE  FirstAnswer' \/ Answered'
<1>1. /\ coeff.index < P /\ NoAnswerYet /\ ItemsOnTheWay /\ BatchSummed /\ SumsOnTheWay
      /\ MemoriesFill
  BY DEF FirstAnswer
<1>2. UNCHANGED <<reps, pc, toWrite, data, out>>
  BY DEF Kernel, ConvertDataIn, Accumulate, AccCoeff
<1>3. CASE ConvertDataIn
  <2>1. UNCHANGED <<corr, samples, coeff, sums, result_values>> BY <1>3 DEF ConvertDataIn
  <2>2. ItemsOnTheWay' BY <1>1, <1>2, <1>3, ItemsDataIn
  <2>3. BatchSummed' /\ SumsOnTheWay' BY <1>1, <2>1, SumsStay
  <2>4. MemoriesFill' BY <1>1, <1>2, <2>1, MemoriesStay
  <2>5. NoAnswerYet' BY <1>1, <1>2, <2>1 DEF NoAnswerYet, P
  <2> QED BY <1>1, <2>1, <2>2, <2>3, <2>4, <2>5 DEF FirstAnswer, P
<1>4. CASE Accumulate
  <2>1. UNCHANGED <<axis_sink, in, coeff, result_values>> BY <1>4 DEF Accumulate
  <2>2. ItemsOnTheWay'
    <3>1. CASE ComputeItem BY <1>1, <1>2, <2>1, <3>1, ItemsComputed
    <3>2. CASE ComputeIdle \/ Readout
      <4>1. corr'.counter = corr.counter /\ UNCHANGED data_source
        BY <3>2, ComputeIdleStep DEF Readout, Shapes
      <4> QED BY <1>1, <1>2, <2>1, <4>1, ItemsStay
    <3>3. ComputeItem \/ ComputeIdle \/ Readout BY <1>4 DEF Accumulate
    <3> QED BY <3>1, <3>2, <3>3
  <2>3. BatchSummed' /\ SumsOnTheWay' BY <1>1, <1>4, SumsAccumulated
  <2>4. MemoriesFill' BY <1>1, <1>2, <2>1, MemoriesStay
  <2>5. NoAnswerYet' BY <1>1, <1>2, <2>1 DEF NoAnswerYet, P
  <2> QED BY <1>1, <2>1, <2>2, <2>3, <2>4, <2>5 DEF FirstAnswer, P
<1>5. CASE AccCoeff
  <2>1. UNCHANGED <<axis_sink, data_source, samples, in, corr>> BY <1>5 DEF AccCoeff
  <2>2. ItemsOnTheWay' BY <1>1, <1>2, <2>1, ItemsStay
  <2>3. coeff.write = FALSE BY <1>1 DEF MemoriesFill, Shapes
  <2>4. result_values' = << >> BY <1>1, <1>5, <2>3 DEF AccCoeff, NoAnswerYet
  <2>5. BatchSummed' BY <1>1, <2>1 DEF BatchSummed, HasRead, Held, SumOf, SumCount
  <2>6. coeff.state # "READOUT" BY <1>1 DEF MemoriesFill
  <2>7. coeff'.counter_rd = coeff.counter_rd
        /\ \/ coeff'.index < P /\ SumsOnTheWay' /\ MemoriesFill'
           \/ Answered'
    <3>1. CASE Feed
      <4>1. SumsOnTheWay' /\ MemoriesFill' BY <1>1, <1>2, <2>1, <3>1, SumFed
      <4> QED BY <1>1, <3>1, <4>1, FeedStep
    <3>2. CASE Settle
      <4>1. SumsOnTheWay' /\ MemoriesFill' BY <1>1, <1>2, <2>1, <3>2, SumsSettled
      <4> QED BY <1>1, <3>2, <4>1, SettleStep
    <3>3. CASE Compute
      <4>1. coeff'.counter_rd = coeff.counter_rd BY <3>3, ComputeStep
      <4> QED BY <1>1, <1>2, <2>1, <3>3, <4>1, PairComputed
    <3>4. ~FeedIdle /\ ~ReadCoeff BY <2>3, <2>6 DEF FeedIdle, ReadCoeff
    <3>5. Feed \/ FeedIdle \/ Settle \/ Compute \/ ReadCoeff BY <1>5 DEF AccCoeff
    <3> QED BY <3>1, <3>2, <3>3, <3>4, <3>5
  <2>8. NoAnswerYet' BY <1>1, <1>2, <2>4, <2>7 DEF NoAnswerYet, P
  <2> QED BY <2>2, <2>5, <2>7, <2>8 DEF FirstAnswer, P
<1> QED BY <1>3, <1>4, <1>5 DEF Kernel

(* Once they are there, COEFF keeps them, and its walk is over for ever.   *)
LEMMA AnsweredStay ==
    ASSUME Shapes, Answered, AccCoeff
    PROVE  Answered'
<1> USE Bounds
<1>1. /\ coeff.index = P /\ coeff.row = N - 1
      /\ \A k \in 0 .. P - 1 : coeff.coeff[k] = CoefficientOf(1, k)
  BY DEF Answered
<1>2. coeff'.index = coeff.index /\ coeff'.row = coeff.row /\ coeff'.coeff = coeff.coeff
  <2>1. CASE Feed BY <2>1, FeedStep
  <2>2. CASE FeedIdle BY <2>2, FeedIdleStep
  <2>3. CASE Settle BY <2>3, SettleStep
  <2>4. CASE Compute
    <3>1. PICK isNew : isNew = (coeff.index < P) OBVIOUS
    <3>2. isNew = FALSE
      <4>1. (coeff.index < P) = FALSE BY <1>1
      <4> QED BY <3>1, <4>1, Zenon
    <3>3. PICK row : row = IF isNew /\ coeff.col = N - 1 THEN coeff.row + 1 ELSE coeff.row
      OBVIOUS
    <3>4. row = coeff.row BY <3>2, <3>3
    <3> QED BY <2>4, <3>1, <3>2, <3>3, <3>4, ComputeStep
  <2>5. CASE ReadCoeff BY <2>5, ReadCoeffStep
  <2> QED BY <2>1, <2>2, <2>3, <2>4, <2>5 DEF AccCoeff
<1>3. \A k : CoefficientOf(1, k)' = CoefficientOf(1, k)
  <2>1. UNCHANGED data BY DEF AccCoeff
  <2> QED BY <2>1, StableAnswers
<1> QED BY <1>1, <1>2, <1>3 DEF Answered, P

LEMMA AnsweredFrame ==
    ASSUME Answered, UNCHANGED <<data, coeff>>
    PROVE  Answered'
<1>1. \A k : CoefficientOf(1, k)' = CoefficientOf(1, k) BY StableAnswers
<1> QED BY <1>1 DEF Answered, P
-----------------------------------------------------------------------------
LEMMA InitCopInv == CopInit => CopInv
<1> USE Bounds
<1> SUFFICES ASSUME CopInit PROVE CopInv
  OBVIOUS
<1>1. PollsWhatItCleared /\ Shapes BY InitPolls, InitShapes
<1>2. /\ corr.state = "COMPUTE" /\ corr.at = 0 /\ corr.counter = 0 /\ corr.last = FALSE
      /\ corr.write = FALSE /\ corr.accu = [p \in Place |-> NoItems]
      /\ coeff.state = "FEED" /\ coeff.write = FALSE /\ coeff.counter = 0
      /\ coeff.counter_rd = 0 /\ coeff.row = 0 /\ coeff.col = 1 /\ coeff.index = 0
      /\ in.valid = FALSE /\ in.counter = 0 /\ out.valid = FALSE
      /\ data_source = << >> /\ sums = << >> /\ result_values = << >> /\ axis_sink = << >>
      /\ reps = 0 /\ pc = "begin" /\ toWrite = 0
  BY DEF CopInit, KernelInit
<1>3. Len(data_source) = 0 /\ Len(sums) = 0 /\ Len(result_values) = 0 /\ Len(axis_sink) = 0
  BY <1>2, Empty
<1>4. Aligned
  <2>1. (P - toWrite) % P = 0 % P BY <1>2, ZeroPlaces
  <2>2. coeff.counter_rd = (0 + 0 + 0 + 0) % P BY <1>2, ZeroPlaces
  <2>3. InTurn(0) BY <1>2, <1>3, <2>1, <2>2 DEF InTurn, Counts
  <2> QED BY <1>2, <2>3 DEF Aligned
<1>5. Written BY <1>2 DEF Written
<1>6. Fed = 0 BY <1>2, <1>3 DEF Fed, Counts
<1>7. ItemsOnTheWay BY <1>2, <1>3, <1>6 DEF ItemsOnTheWay
<1>8. HasRead = 0 /\ HasTaken = 0 BY <1>2 DEF HasRead, HasTaken
<1>9. BatchSummed
  <2>1. corr.last = (HasRead = SumCount)
    <3>1. (HasRead = SumCount) = FALSE BY <1>8
    <3> QED BY <1>2, <3>1
  <2>2. ASSUME NEW p \in 0 .. SumCount - 1 PROVE corr.accu[p] = Held(0)
    <3>1. corr.accu[p] = NoItems BY <1>2
    <3>2. [NoItems EXCEPT ![1] = 0] = NoItems BY DEF NoItems
    <3> QED BY <3>1, <3>2 DEF Held
  <2> QED BY <1>2, <1>8, <2>1, <2>2 DEF BatchSummed
<1>10. SumsOnTheWay BY <1>2, <1>3, <1>8 DEF SumsOnTheWay, Counts
<1>11. MemoriesFill BY <1>2, <1>8, WalkBegins DEF MemoriesFill
<1>12. NoAnswerYet BY <1>2 DEF NoAnswerYet
<1> QED BY <1>1, <1>2, <1>4, <1>5, <1>7, <1>9, <1>10, <1>11, <1>12 DEF CopInv, FirstAnswer

LEMMA StepCopInv == CopInv /\ [CopNext]_copVars => CopInv'
<1> SUFFICES ASSUME CopInv, [CopNext]_copVars PROVE CopInv'
  OBVIOUS
<1>1. PollsWhatItCleared /\ Shapes /\ Aligned /\ Written /\ (FirstAnswer \/ Answered)
  BY DEF CopInv
<1>2. PollsWhatItCleared' /\ Shapes' BY <1>1, NextPolls, NextShapes
<1>3. CASE Host
  <2>1. Written' BY <1>1, <1>3, HostWritten
  <2>2. UNCHANGED <<data, out, result_values, coeff>>
    BY <1>3 DEF Host, Begin, Invoke, PollCoefficient, kernelVars
  <2>3. (P - toWrite') % P = (P - toWrite) % P
    <3>1. CASE Invoke
      <4>1. toWrite = 0 /\ toWrite' = P BY <1>1, <3>1, Bounds DEF Invoke, PollsWhatItCleared
      <4>2. P - 0 = P /\ P - P = 0 BY Bounds
      <4> QED BY <4>1, <4>2, ZeroPlaces
    <3>2. CASE Begin \/ PollCoefficient BY <3>2 DEF Begin, PollCoefficient
    <3> QED BY <1>3, <3>1, <3>2 DEF Host
  <2>4. Aligned' BY <1>1, <2>2, <2>3, AlignedStay
  <2>5. FirstAnswer' \/ Answered'
    <3>1. CASE Answered BY <2>2, <3>1, AnsweredFrame
    <3>2. CASE FirstAnswer
      <4>1. NoAnswerYet BY <3>2 DEF FirstAnswer
      <4>2. ~PollCoefficient BY <1>1, <4>1, NothingToWrite
      <4>3. Begin \/ Invoke BY <1>3, <4>2 DEF Host
      <4> QED BY <1>1, <3>2, <4>3, FirstHost
    <3> QED BY <1>1, <3>1, <3>2
  <2> QED BY <1>2, <2>1, <2>4, <2>5 DEF CopInv
<1>4. CASE LineOut
  <2>1. Written' /\ Aligned' BY <1>1, <1>4, LineWritten, AlignedLine
  <2>2. Answered'
    <3>1. Answered
      <4>1. CASE FirstAnswer
        <5>1. NoAnswerYet BY <4>1 DEF FirstAnswer
        <5> QED BY <1>1, <1>4, <5>1, NothingToWrite
      <4> QED BY <1>1, <4>1
    <3>2. UNCHANGED <<data, coeff>> BY <1>4 DEF LineOut, ConvertDataOut
    <3> QED BY <3>1, <3>2, AnsweredFrame
  <2> QED BY <1>2, <2>1, <2>2 DEF CopInv
<1>5. CASE Kernel
  <2>1. UNCHANGED <<reps, pc, resultMem, toWrite, data, out>>
    BY <1>5 DEF Kernel, ConvertDataIn, Accumulate, AccCoeff
  <2>2. Written' BY <1>1, <2>1, WrittenStay
  <2>3. CASE AccCoeff
    <3>1. coeff.state = "READOUT" => AllAnswers
      BY <1>1 DEF FirstAnswer, Answered, MemoriesFill, AllAnswers
    <3>2. Aligned' BY <1>1, <2>1, <2>3, <3>1, AlignedAnswers
    <3>3. FirstAnswer' \/ Answered' BY <1>1, <1>5, <2>3, FirstKernelStep, AnsweredStay
    <3> QED BY <1>2, <2>2, <3>2, <3>3 DEF CopInv
  <2>4. CASE ConvertDataIn \/ Accumulate
    <3>1. UNCHANGED <<result_values, coeff>> BY <2>4 DEF ConvertDataIn, Accumulate
    <3>2. Aligned' BY <1>1, <2>1, <3>1, AlignedStay
    <3>3. FirstAnswer' \/ Answered' BY <1>1, <1>5, <2>1, <3>1, FirstKernelStep, AnsweredFrame
    <3> QED BY <1>2, <2>2, <3>2, <3>3 DEF CopInv
  <2> QED BY <1>5, <2>3, <2>4 DEF Kernel
<1>6. CASE UNCHANGED copVars
  <2>1. UNCHANGED <<data, axis_sink, data_source, sums, result_values, samples, in, corr,
                    coeff, out, reps, pc, resultMem, toWrite>>
    BY <1>6 DEF copVars, kernelVars
  <2>2. Written' /\ Aligned' BY <1>1, <2>1, WrittenStay, AlignedStay
  <2>3. FirstAnswer' \/ Answered'
    <3>1. CASE Answered BY <2>1, <3>1, AnsweredFrame
    <3>2. CASE FirstAnswer
      <4>1. ItemsOnTheWay' BY <2>1, <3>2, ItemsStay DEF FirstAnswer
      <4>2. BatchSummed' /\ SumsOnTheWay' BY <2>1, <3>2, SumsStay DEF FirstAnswer
      <4>3. MemoriesFill' BY <2>1, <3>2, MemoriesStay DEF FirstAnswer
      <4>4. NoAnswerYet' /\ coeff'.index < P BY <2>1, <3>2 DEF FirstAnswer, NoAnswerYet, P
      <4> QED BY <4>1, <4>2, <4>3, <4>4 DEF FirstAnswer, P
    <3> QED BY <1>1, <3>1, <3>2
  <2> QED BY <1>2, <2>2, <2>3 DEF CopInv
<1> QED BY <1>3, <1>4, <1>5, <1>6 DEF CopNext

(* When the host is content, with its first repetition or a later one, it  *)
(* has in every line what the coefficient of the first batch leaves of it. *)
THEOREM FirstBatchAnswered == CopSpec => []ContentWithTheFirstBatch
<1>1. CopInv => ContentWithTheFirstBatch
  <2>1. CASE reps > 0
    <3>1. reps # 0 BY <2>1
    <3> QED BY <3>1 DEF CopInv, Written, ContentWithTheFirstBatch
  <2>2. CASE ~(reps > 0) BY <2>2 DEF ContentWithTheFirstBatch
  <2> QED BY <2>1, <2>2
<1> QED BY <1>1, InitCopInv, StepCopInv, PTL DEF CopSpec
=============================================================================
