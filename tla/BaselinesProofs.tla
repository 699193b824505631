--------------------------- MODULE BaselinesProofs ---------------------------
(***************************************************************************)
(* The threads of the baselines, and of the server of host_rdma, for any   *)
(* number of blocks, threads and repetitions; the commands of the OpenCL   *)
(* host, for any number of devices and elements; and what the collectors   *)
(* of the baselines compute, for any items and words of any width.         *)
(***************************************************************************)
EXTENDS Workers, OpenCL, Collectors, FiniteSetTheorems, SequenceTheorems,
        WellFoundedInduction, TLAPS

(* What the server's threads may add up: chunks with these parts.          *)
Allowed(b, k) ==
    ({r, r + 1} \ {0}) \cup (IF b = 0 /\ k = 1 /\ r > 0 THEN {0} ELSE {})
Admissible ==
    {x \in Blocks \X [Part -> Nat] : \A k \in Part : x[2][k] \in Allowed(x[1], k)}

WorkersTypes ==
    /\ num_blocks \in Nat \ {0} /\ num_threads \in Nat /\ r \in Nat /\ spawned \in Nat
    /\ received \in 0 .. num_blocks /\ landing \in 0 .. Parts - 1
    /\ received = num_blocks => landing = 0
    /\ at \in [Threads -> Nat] /\ reading \in [Threads -> 0 .. Parts]
    /\ copy \in [Threads -> [Part -> Nat]] /\ memory \in [Blocks -> [Part -> Nat]]
    /\ pc \in {"spawn", "join", "coefficients", "synced", "end"}

(* The parts that have landed are of the repetition the master is in, the  *)
(* others of the one before it; but the first word may be erased.          *)
Landed(b, k) == b < received \/ (b = received /\ k <= landing)
SentOrErased(b, k) ==
    \/ memory[b][k] = IF Landed(b, k) THEN Sending ELSE Sending - 1
    \/ memory[b][k] = 0 /\ b = 0 /\ k = 1 /\ r > 0
MemoryIsSent == pc # "end" => \A b \in Blocks : \A k \in Part : SentOrErased(b, k)

(* Threads only work while their repetition lasts, and the main thread     *)
(* counts completions before it joins them.                                *)
ThreadsInTheirRepetition ==
    /\ \A t \in Threads : at[t] <= Len(Share(t)) /\ (reading[t] > 0 => Working(t))
    /\ pc \in {"coefficients", "synced"} => \A t \in Threads : at[t] = Len(Share(t))
    /\ pc \in {"join", "coefficients"} => received = num_blocks
    /\ pc = "end" => spawned = 0

(* What a thread has copied is recent, and in the first repetition it only *)
(* copies chunks that are there to the last word.                          *)
CopiesAreRecent ==
    \A t \in Threads : reading[t] > 0 =>
        /\ \A k \in 1 .. reading[t] - 1 : copy[t][k] \in Allowed(NextBlock(t), k)
        /\ r = 0 => NextBlock(t) < received

ServerInv ==
    OnServer => /\ WorkersTypes /\ MemoryIsSent /\ ThreadsInTheirRepetition /\ CopiesAreRecent
                /\ collectors \in [Threads -> Seq(Admissible)]

(* The chunks of a thread are chunks.                                      *)
LEMMA ShareOfChunks ==
    ASSUME WorkersTypes, OnServer, NEW t \in Threads
    PROVE  /\ Len(Share(t)) \in Nat
           /\ \A n \in 1 .. Len(Share(t)) : Share(t)[n] \in Blocks
<1> DEFINE q == num_blocks \div num_threads
<1>1. num_threads \in Nat \ {0} /\ num_blocks \in Nat /\ t \in 0 .. num_threads - 1
    BY DEF WorkersTypes, Threads
<1>2. q \in Nat /\ q * num_threads <= num_blocks
    BY <1>1
<1> HIDE DEF q
<1>3. Share(t) = [n \in 1 .. q |-> (n - 1) * num_threads + t]
    BY DEF Share, q
<1>4. Len(Share(t)) = q
    BY <1>2, <1>3
<1>5. ASSUME NEW n \in 1 .. q PROVE (n - 1) * num_threads + t \in Blocks
  <2>1. n \in Int /\ n - 1 >= 0 /\ n <= q
      BY <1>2
  <2>2. (n - 1) * num_threads \in Nat
      BY <1>1, <2>1
  <2>3. n * num_threads <= q * num_threads
      BY <1>1, <1>2, <2>1
  <2>4. (n - 1) * num_threads = n * num_threads - num_threads
      BY <1>1, <2>1
  <2> QED BY <1>1, <1>2, <2>2, <2>3, <2>4 DEF Blocks
<1> QED BY <1>2, <1>3, <1>4, <1>5

(* The next part is the one after it, or the first of the next chunk.      *)
LEMMA NextOf ==
    ASSUME NEW n \in Nat \ {0}, NEW m \in 0 .. n - 1
    PROVE  (m + 1) % n = IF m + 1 = n THEN 0 ELSE m + 1
    OBVIOUS

LEMMA InitServerInv == WorkersInit => ServerInv
<1> SUFFICES ASSUME WorkersInit, OnServer PROVE ServerInv
    BY DEF ServerInv
<1>1. WorkersTypes
    BY WorkersAssumption DEF WorkersInit, WorkersTypes, Threads, AllOf, Part
<1>2. MemoryIsSent
  <2>1. ASSUME NEW b \in Blocks, NEW k \in Part PROVE SentOrErased(b, k)
    <3>1. memory[b][k] = 0 /\ Sending = 1 /\ received = 0 /\ landing = 0
        BY DEF WorkersInit, AllOf, Sending
    <3>2. ~Landed(b, k)
        BY <1>1, <3>1 DEF Landed, Blocks, Part, WorkersTypes
    <3> QED BY <3>1, <3>2 DEF SentOrErased
  <2> QED BY <2>1 DEF MemoryIsSent
<1>3. ThreadsInTheirRepetition /\ CopiesAreRecent
  <2>1. \A t \in Threads : Len(Share(t)) \in Nat
      BY <1>1, ShareOfChunks
  <2> QED BY <1>1, <2>1 DEF WorkersInit, ThreadsInTheirRepetition, CopiesAreRecent
<1>4. << >> \in Seq(Admissible)
    OBVIOUS
<1> QED BY <1>1, <1>2, <1>3, <1>4 DEF WorkersInit, ServerInv

LEMMA StepServerInv == ServerInv /\ [WorkersNext]_workerVars => ServerInv'
<1> SUFFICES ASSUME ServerInv, [WorkersNext]_workerVars, OnServer' PROVE ServerInv'
    BY DEF ServerInv
<1>1. UNCHANGED <<program, num_blocks, num_threads>>
    BY DEF WorkersNext, Main, Spawn, Started, JoinAndMerge, Finish, Sync, Erase, LandPart,
           Work, NextRepetition, workerVars, chosen
<1>2. /\ OnServer /\ WorkersTypes /\ MemoryIsSent /\ ThreadsInTheirRepetition
      /\ CopiesAreRecent /\ collectors \in [Threads -> Seq(Admissible)]
    BY <1>1 DEF ServerInv, OnServer
<1>3. /\ Threads' = Threads /\ Blocks' = Blocks /\ Part' = Part
      /\ \A t \in Threads : Share(t)' = Share(t)
    BY <1>1 DEF Threads, Blocks, Share, Offset, OnServer, Part
<1>4. \A t \in Threads : Len(Share(t)) \in Nat
    BY <1>2, ShareOfChunks
<1>5. Parts \in Nat \ {0, 1} /\ Parts' = Parts
    BY WorkersAssumption
<1>6. CASE Spawn \/ Started \/ JoinAndMerge \/ UNCHANGED workerVars
  <2>1. UNCHANGED <<r, at, collectors, reading, copy, memory, received, landing>>
      BY <1>6 DEF Spawn, Started, JoinAndMerge, workerVars, mainVars, threadVars, memoryVars
  <2>2. WorkersTypes'
      BY <1>1, <1>2, <1>3, <1>6, <2>1
         DEF WorkersTypes, Spawn, Started, JoinAndMerge, workerVars, mainVars
  <2>3. MemoryIsSent'
    <3>1. pc' # "end" => pc # "end" /\ Sending' = Sending
        BY <1>2, <1>6, <2>1
           DEF Sending, Spawn, Started, JoinAndMerge, workerVars, mainVars
    <3> QED BY <1>2, <1>3, <2>1, <3>1 DEF MemoryIsSent, SentOrErased, Landed
  <2>4. ThreadsInTheirRepetition'
    <3>1. spawned' \in Nat /\ spawned <= spawned' /\ (pc' = "end" => spawned' = spawned)
        BY <1>2, <1>6 DEF WorkersTypes, Spawn, Started, JoinAndMerge, workerVars, mainVars
    <3>2. \A t \in Threads : t \in Int
        BY <1>2 DEF Threads, WorkersTypes
    <3>3. \A t \in Threads : Working(t) => Working(t)'
        BY <1>2, <1>3, <2>1, <3>1, <3>2 DEF Working, WorkersTypes
    <3>4. pc' \in {"coefficients", "synced"} => \A t \in Threads : at[t] = Len(Share(t))
        BY <1>2, <1>6 DEF ThreadsInTheirRepetition, AllJoined, Spawn, Started, JoinAndMerge,
                          workerVars, mainVars
    <3>5. /\ pc' \in {"join", "coefficients"} => received = num_blocks
          /\ pc' = "end" => spawned = 0
        BY <1>2, <1>6 DEF ThreadsInTheirRepetition, Spawn, Started, JoinAndMerge, workerVars,
                          mainVars
    <3> QED BY <1>1, <1>2, <1>3, <2>1, <3>1, <3>3, <3>4, <3>5 DEF ThreadsInTheirRepetition
  <2>5. CopiesAreRecent' /\ Admissible' = Admissible
      BY <1>2, <1>3, <2>1 DEF CopiesAreRecent, Allowed, NextBlock, Admissible
  <2> QED BY <1>2, <1>3, <2>1, <2>2, <2>3, <2>4, <2>5 DEF ServerInv
<1>7. CASE Sync
  <2>1. /\ pc = "coefficients" /\ pc' = "synced" /\ received' = 0
        /\ UNCHANGED <<r, spawned, at, collectors, reading, copy, memory, landing>>
      BY <1>7 DEF Sync, threadVars
  <2>2. received = num_blocks /\ landing = 0 /\ \A t \in Threads : at[t] = Len(Share(t))
      BY <1>2, <2>1 DEF ThreadsInTheirRepetition, WorkersTypes
  <2>3. WorkersTypes'
      BY <1>1, <1>2, <1>3, <2>1, <2>2 DEF WorkersTypes
  <2>4. MemoryIsSent'
    <3>1. ASSUME NEW b \in Blocks, NEW k \in Part PROVE SentOrErased(b, k)'
      <4>1. Landed(b, k) /\ ~Landed(b, k)'
          BY <1>2, <2>1, <2>2 DEF Landed, Blocks, Part, WorkersTypes
      <4>2. Sending = r + 1 /\ Sending' = r + 2 /\ r \in Nat
          BY <1>2, <2>1 DEF Sending, WorkersTypes
      <4>3. SentOrErased(b, k)
          BY <1>2, <2>1 DEF MemoryIsSent
      <4> QED BY <2>1, <4>1, <4>2, <4>3 DEF SentOrErased
    <3> QED BY <1>3, <3>1 DEF MemoryIsSent
  <2>5. \A t \in Threads : reading[t] = 0
    <3>1. ASSUME NEW t \in Threads PROVE reading[t] = 0
      <4>1. reading[t] \in 0 .. Parts /\ at[t] = Len(Share(t)) /\ Len(Share(t)) \in Nat
          BY <1>2, <1>4, <2>2 DEF ThreadsInTheirRepetition, WorkersTypes
      <4>2. reading[t] > 0 => at[t] < Len(Share(t))
          BY <1>2 DEF ThreadsInTheirRepetition, Working
      <4> QED BY <1>5, <4>1, <4>2
    <3> QED BY <3>1
  <2>6. ThreadsInTheirRepetition'
      BY <1>2, <1>3, <1>4, <2>1, <2>2, <2>5 DEF ThreadsInTheirRepetition
  <2>7. CopiesAreRecent' /\ Admissible' = Admissible
      BY <1>3, <2>1, <2>5 DEF CopiesAreRecent, Allowed, Admissible
  <2> QED BY <1>2, <1>3, <2>1, <2>3, <2>4, <2>6, <2>7 DEF ServerInv
<1>8. CASE Erase
  <2>1. /\ pc = "synced" /\ r' = r + 1 /\ pc' \in {"spawn", "end"} /\ spawned' = 0
        /\ at' = [t \in Threads |-> 0] /\ collectors' = [t \in Threads |-> << >>]
        /\ memory' = [memory EXCEPT ![0][1] = 0]
        /\ UNCHANGED <<reading, copy, received, landing>>
      BY <1>2, <1>8 DEF Erase, NextRepetition, Cleaned, OnServer
  <2>2. \A t \in Threads : reading[t] = 0
    <3>1. ASSUME NEW t \in Threads PROVE reading[t] = 0
      <4>1. reading[t] \in 0 .. Parts /\ at[t] = Len(Share(t)) /\ Len(Share(t)) \in Nat
          BY <1>2, <1>4, <2>1 DEF ThreadsInTheirRepetition, WorkersTypes
      <4>2. reading[t] > 0 => at[t] < Len(Share(t))
          BY <1>2 DEF ThreadsInTheirRepetition, Working
      <4> QED BY <1>5, <4>1, <4>2
    <3> QED BY <3>1
  <2>3. ASSUME NEW b \in Blocks, NEW k \in Part
        PROVE  /\ memory'[b] \in [Part -> Nat]
               /\ memory'[b][k] = IF b = 0 /\ k = 1 THEN 0 ELSE memory[b][k]
      BY <1>2, <2>1 DEF WorkersTypes
  <2>4. memory' \in [Blocks -> [Part -> Nat]]
    <3>1. 0 \in Blocks
        BY <1>2 DEF Blocks, WorkersTypes
    <3> QED BY <1>2, <1>5, <2>1, <3>1 DEF WorkersTypes
  <2>5. WorkersTypes'
      BY <1>1, <1>2, <1>3, <2>1, <2>4 DEF WorkersTypes
  <2>6. MemoryIsSent'
    <3>1. ASSUME NEW b \in Blocks, NEW k \in Part PROVE pc' # "end" => SentOrErased(b, k)'
      <4>1. Landed(b, k)' <=> Landed(b, k)
          BY <2>1 DEF Landed
      <4>2. Sending = r + 2 /\ Sending' = r + 2 /\ r \in Nat /\ r' > 0
          BY <1>2, <2>1 DEF Sending, WorkersTypes
      <4>3. SentOrErased(b, k)
          BY <1>2, <2>1 DEF MemoryIsSent
      <4> QED BY <2>3, <4>1, <4>2, <4>3 DEF SentOrErased
    <3> QED BY <1>3, <3>1 DEF MemoryIsSent
  <2>7. ThreadsInTheirRepetition'
      BY <1>1, <1>2, <1>3, <1>4, <2>1, <2>2 DEF WorkersTypes, ThreadsInTheirRepetition
  <2>8. CopiesAreRecent'
      BY <1>3, <2>1, <2>2 DEF CopiesAreRecent
  <2>9. << >> \in Seq(Admissible')
      OBVIOUS
  <2> QED BY <1>3, <2>1, <2>5, <2>6, <2>7, <2>8, <2>9 DEF ServerInv
<1>9. CASE LandPart
  <2>1. /\ pc \notin {"coefficients", "end"} /\ received < num_blocks
        /\ memory' = [memory EXCEPT ![received][landing + 1] = Sending]
        /\ landing' = (landing + 1) % Parts
        /\ received' = IF landing' = 0 THEN received + 1 ELSE received
        /\ UNCHANGED <<r, pc, spawned, at, collectors, reading, copy>>
      BY <1>9 DEF LandPart, mainVars, threadVars
  <2>2. /\ landing \in 0 .. Parts - 1 /\ received \in Nat /\ num_blocks \in Nat /\ r \in Nat
        /\ memory \in [Blocks -> [Part -> Nat]]
      BY <1>2 DEF WorkersTypes
  <2>3. /\ landing' = IF landing + 1 = Parts THEN 0 ELSE landing + 1
        /\ received' = IF landing + 1 = Parts THEN received + 1 ELSE received
    <3>1. Parts \in Nat \ {0}
        BY <1>5
    <3>2. (landing + 1) % Parts = IF landing + 1 = Parts THEN 0 ELSE landing + 1
        BY <2>2, <3>1, NextOf
    <3> QED BY <1>5, <2>1, <2>2, <3>2
  <2>4. Sending \in Nat /\ Sending' = Sending
      BY <2>1, <2>2 DEF Sending
  <2>5. received \in Blocks /\ landing + 1 \in Part
      BY <1>5, <2>1, <2>2 DEF Blocks, Part
  <2>6. memory' \in [Blocks -> [Part -> Nat]]
      BY <2>1, <2>2, <2>4, <2>5
  <2>7. WorkersTypes'
    <3>1. /\ received' \in 0 .. num_blocks /\ landing' \in 0 .. Parts - 1
          /\ received' = num_blocks => landing' = 0
        BY <1>5, <2>1, <2>2, <2>3
    <3> QED BY <1>1, <1>2, <1>3, <2>1, <2>6, <3>1 DEF WorkersTypes
  <2>8. MemoryIsSent'
    <3>1. ASSUME NEW b \in Blocks, NEW k \in Part PROVE SentOrErased(b, k)'
      <4>1. b \in Nat /\ k \in 1 .. Parts
          BY <2>2 DEF Blocks, Part
      <4>2. memory'[b][k] = IF b = received /\ k = landing + 1 THEN Sending ELSE memory[b][k]
          BY <2>1, <2>2
      <4>3. Landed(b, k)' <=> Landed(b, k) \/ (b = received /\ k = landing + 1)
          BY <1>5, <2>2, <2>3, <4>1 DEF Landed
      <4>4. SentOrErased(b, k)
          BY <1>2, <2>1 DEF MemoryIsSent
      <4> QED BY <2>1, <2>4, <4>2, <4>3, <4>4 DEF SentOrErased
    <3> QED BY <1>3, <3>1 DEF MemoryIsSent
  <2>9. received <= received' /\ (pc = "join" => FALSE)
      BY <1>2, <2>1, <2>2, <2>3 DEF ThreadsInTheirRepetition
  <2>10. ThreadsInTheirRepetition'
      BY <1>1, <1>2, <1>3, <2>1, <2>9 DEF ThreadsInTheirRepetition, Working
  <2>11. Admissible' = Admissible
      BY <1>3, <2>1 DEF Admissible, Allowed
  <2>12. CopiesAreRecent'
    <3>1. ASSUME NEW t \in Threads, reading[t] > 0
          PROVE  /\ \A k \in 1 .. reading[t] - 1 : copy[t][k] \in Allowed(NextBlock(t), k)
                 /\ r = 0 => NextBlock(t) < received'
      <4>1. NextBlock(t) \in Nat
          BY <1>2, <1>4, <3>1, ShareOfChunks
             DEF NextBlock, ThreadsInTheirRepetition, Working, WorkersTypes, Blocks
      <4>2. received' \in Nat
          BY <2>2, <2>3
      <4> QED BY <1>2, <2>2, <2>9, <3>1, <4>1, <4>2 DEF CopiesAreRecent
    <3> QED BY <1>3, <2>1, <3>1 DEF CopiesAreRecent, Allowed, NextBlock
  <2> QED BY <1>2, <1>3, <2>1, <2>7, <2>8, <2>10, <2>11, <2>12 DEF ServerInv
<1>10. ASSUME NEW t \in Threads, Work(t) PROVE ServerInv'
  <2>1. /\ PollChunk(t) \/ CopyPart(t)
        /\ t < spawned /\ at[t] < Len(Share(t))
        /\ UNCHANGED <<r, pc, spawned, memory, received, landing>>
      BY <1>2, <1>10
         DEF Work, Working, CollectBlock, MatrixProduct, OnServer, mainVars, memoryVars
  <2>2. t \in Nat /\ spawned \in Nat /\ spawned # 0 /\ r \in Nat
      BY <1>2, <2>1 DEF Threads, WorkersTypes
  <2>3. at[t] \in Nat /\ reading[t] \in 0 .. Parts /\ copy[t] \in [Part -> Nat]
      BY <1>2 DEF WorkersTypes
  <2>4. NextBlock(t) \in Blocks
      BY <1>2, <1>4, <2>1, <2>3, ShareOfChunks DEF NextBlock
  <2>5. pc \in {"spawn", "join"} /\ pc # "end" /\ Sending = r + 1
      BY <1>2, <1>4, <2>1, <2>2, <2>3 DEF WorkersTypes, ThreadsInTheirRepetition, Sending
  <2>6. MemoryIsSent'
      BY <1>2, <1>3, <2>1 DEF MemoryIsSent, SentOrErased, Landed, Sending
  <2>7. Admissible' = Admissible /\ \A b, k : Allowed(b, k)' = Allowed(b, k)
      BY <1>3, <2>1 DEF Admissible, Allowed
  <2>8. \A k \in Part : /\ SentOrErased(NextBlock(t), k)
                        /\ memory[NextBlock(t)][k] \in Nat
      BY <1>2, <2>4, <2>5 DEF MemoryIsSent, WorkersTypes
  <2>9. CASE PollChunk(t)
    <3>1. /\ reading[t] = 0 /\ memory[NextBlock(t)][Parts] # 0
          /\ reading' = [reading EXCEPT ![t] = 1] /\ UNCHANGED <<at, collectors, copy>>
        BY <2>9 DEF PollChunk, LastWordSet
    <3>2. WorkersTypes'
        BY <1>1, <1>2, <1>3, <1>5, <2>1, <3>1 DEF WorkersTypes
    <3>3. ThreadsInTheirRepetition'
        BY <1>1, <1>2, <1>3, <2>1, <3>1 DEF WorkersTypes, ThreadsInTheirRepetition, Working
    <3>4. r = 0 => NextBlock(t) < received
      <4>1. Parts \in Part /\ Parts # 1
          BY <1>5 DEF Part
      <4>2. SentOrErased(NextBlock(t), Parts)
          BY <2>8, <4>1
      <4>3. r = 0 => Landed(NextBlock(t), Parts)
          BY <2>5, <3>1, <4>2 DEF SentOrErased
      <4>4. ~(Parts <= landing)
          BY <1>2, <1>5 DEF WorkersTypes
      <4> QED BY <4>3, <4>4 DEF Landed
    <3>5. CopiesAreRecent'
      <4>1. ASSUME NEW i \in Threads, reading'[i] > 0
            PROVE  /\ \A k \in 1 .. reading'[i] - 1 : copy[i][k] \in Allowed(NextBlock(i), k)
                   /\ r = 0 => NextBlock(i) < received
        <5>1. CASE i = t
          <6>1. reading'[i] = 1
              BY <1>2, <3>1, <5>1 DEF WorkersTypes
          <6> QED BY <3>4, <5>1, <6>1
        <5>2. CASE i # t
          <6>1. reading'[i] = reading[i]
              BY <1>2, <3>1, <5>2 DEF WorkersTypes
          <6> QED BY <1>2, <4>1, <6>1 DEF CopiesAreRecent
        <5> QED BY <5>1, <5>2
      <4> QED BY <1>3, <2>1, <2>7, <3>1, <4>1 DEF CopiesAreRecent, NextBlock
    <3> QED BY <1>2, <1>3, <2>6, <2>7, <3>1, <3>2, <3>3, <3>5 DEF ServerInv
  <2>10. CASE CopyPart(t)
    <3> SUFFICES ASSUME NEW k, NEW b, NEW M1_th, NEW x,
                        k = reading[t], b = NextBlock(t), x = <<b, M1_th>>,
                        M1_th = [copy[t] EXCEPT ![k] = memory[b][k]]
                 PROVE  ServerInv'
        OBVIOUS
    <3>1. k # 0 /\ reading' = [reading EXCEPT ![t] = (k + 1) % (Parts + 1)]
        BY <2>10 DEF CopyPart
    <3>12. k = Parts => /\ at' = [at EXCEPT ![t] = @ + 1]
                        /\ collectors' = [collectors EXCEPT ![t] = Append(@, x)]
                        /\ copy' = [copy EXCEPT ![t] = AllOf(0)]
        BY <2>10 DEF CopyPart, AddUp
    <3>13. k # Parts => copy' = [copy EXCEPT ![t] = M1_th] /\ UNCHANGED <<at, collectors>>
        BY <2>10 DEF CopyPart
    <3>2. k \in Part /\ k \in 1 .. Parts
        BY <2>3, <3>1 DEF Part
    <3>3. /\ \A l \in 1 .. k - 1 : copy[t][l] \in Allowed(b, l)
          /\ r = 0 => b < received
        BY <1>2, <3>2 DEF CopiesAreRecent
    <3>4. b \in Blocks /\ b \in Nat /\ memory[b][k] \in Nat /\ SentOrErased(b, k)
        BY <1>2, <2>4, <2>8, <3>2 DEF Blocks, WorkersTypes
    <3>5. memory[b][k] \in Allowed(b, k)
      <4>1. CASE r = 0
        <5>1. Landed(b, k)
            BY <3>3, <4>1 DEF Landed
        <5>2. memory[b][k] = 1
            BY <2>5, <3>4, <4>1, <5>1 DEF SentOrErased
        <5> QED BY <4>1, <5>2 DEF Allowed
      <4>2. CASE r # 0
        <5>1. r > 0 /\ r + 1 # 0
            BY <2>2, <4>2
        <5>2. memory[b][k] \in {r, r + 1} \/ (memory[b][k] = 0 /\ b = 0 /\ k = 1)
            BY <2>2, <2>5, <3>4 DEF SentOrErased
        <5> QED BY <4>2, <5>1, <5>2 DEF Allowed
      <4> QED BY <4>1, <4>2
    <3>6. /\ M1_th \in [Part -> Nat]
          /\ \A l \in 1 .. k : M1_th[l] \in Allowed(b, l)
      <4>1. M1_th \in [Part -> Nat]
          BY <2>3, <3>2, <3>4
      <4>2. ASSUME NEW l \in 1 .. k PROVE M1_th[l] \in Allowed(b, l)
        <5>1. l \in Part /\ (l = k \/ l \in 1 .. k - 1)
            BY <1>5, <3>2 DEF Part
        <5>2. M1_th[l] = IF l = k THEN memory[b][k] ELSE copy[t][l]
            BY <2>3, <5>1
        <5> QED BY <3>3, <3>5, <5>1, <5>2
      <4> QED BY <4>1, <4>2
    <3>7. (k + 1) % (Parts + 1) = IF k = Parts THEN 0 ELSE k + 1
      <4>1. k \in 0 .. (Parts + 1) - 1 /\ Parts + 1 \in Nat \ {0}
          BY <1>5, <3>2
      <4>2. (k + 1) % (Parts + 1) = IF k + 1 = Parts + 1 THEN 0 ELSE k + 1
          BY <4>1, NextOf
      <4> QED BY <1>5, <3>2, <4>2
    <3>8. AllOf(0) \in [Part -> Nat]
        BY DEF AllOf
    <3>9. reading' = [reading EXCEPT ![t] = IF k = Parts THEN 0 ELSE k + 1]
        BY <3>1, <3>7
    <3>10. CASE k = Parts
      <4>1. /\ at' = [at EXCEPT ![t] = @ + 1]
            /\ collectors' = [collectors EXCEPT ![t] = Append(@, x)]
            /\ copy' = [copy EXCEPT ![t] = AllOf(0)]
            /\ reading' = [reading EXCEPT ![t] = 0]
        <5>1. reading' = [reading EXCEPT ![t] = 0]
            BY <3>9, <3>10, SMT
        <5> QED BY <3>10, <3>12, <5>1
      <4>2. x \in Admissible
        <5>1. \A l \in Part : M1_th[l] \in Allowed(b, l)
            BY <3>6, <3>10 DEF Part
        <5> QED BY <3>4, <3>6, <5>1 DEF Admissible
      <4>3. WorkersTypes'
          BY <1>1, <1>2, <1>3, <1>5, <2>1, <3>8, <4>1 DEF WorkersTypes
      <4>4. ThreadsInTheirRepetition'
        <5>1. ASSUME NEW i \in Threads
              PROVE  at'[i] <= Len(Share(i)) /\ (reading'[i] > 0 => i < spawned /\ at'[i] < Len(Share(i)))
          <6>1. CASE i = t
              BY <1>2, <1>4, <2>1, <2>3, <4>1, <6>1 DEF WorkersTypes
          <6>2. CASE i # t
              BY <1>2, <4>1, <6>2 DEF WorkersTypes, ThreadsInTheirRepetition, Working
          <6> QED BY <6>1, <6>2
        <5> QED BY <1>1, <1>2, <1>3, <2>1, <2>5, <5>1 DEF ThreadsInTheirRepetition, Working
      <4>5. CopiesAreRecent'
        <5>1. ASSUME NEW i \in Threads, reading'[i] > 0
              PROVE  /\ i # t /\ reading'[i] = reading[i] /\ copy'[i] = copy[i]
                     /\ at'[i] = at[i]
          <6>1. i # t
              BY <1>2, <4>1, <5>1 DEF WorkersTypes
          <6> QED BY <1>2, <4>1, <6>1 DEF WorkersTypes
        <5> QED BY <1>2, <1>3, <2>1, <2>7, <5>1 DEF CopiesAreRecent, NextBlock
      <4>6. collectors' \in [Threads -> Seq(Admissible)]
        <5>1. Append(collectors[t], x) \in Seq(Admissible)
            BY <1>2, <4>2
        <5> QED BY <1>2, <4>1, <5>1
      <4> QED BY <1>3, <2>6, <2>7, <4>3, <4>4, <4>5, <4>6 DEF ServerInv
    <3>11. CASE k # Parts
      <4>1. /\ copy' = [copy EXCEPT ![t] = M1_th] /\ UNCHANGED <<at, collectors>>
            /\ reading' = [reading EXCEPT ![t] = k + 1]
          BY <3>9, <3>11, <3>13
      <4>2. WorkersTypes'
        <5>1. k + 1 \in 0 .. Parts
            BY <1>5, <3>2, <3>11
        <5> QED BY <1>1, <1>2, <1>3, <2>1, <3>6, <4>1, <5>1 DEF WorkersTypes
      <4>3. ThreadsInTheirRepetition'
          BY <1>1, <1>2, <1>3, <2>1, <4>1 DEF WorkersTypes, ThreadsInTheirRepetition, Working
      <4>4. CopiesAreRecent'
        <5>1. ASSUME NEW i \in Threads, reading'[i] > 0
              PROVE  /\ \A l \in 1 .. reading'[i] - 1 : copy'[i][l] \in Allowed(NextBlock(i), l)
                     /\ r = 0 => NextBlock(i) < received
          <6>1. CASE i = t
            <7>1. reading'[i] - 1 = k /\ copy'[i] = M1_th
                BY <1>2, <3>2, <4>1, <6>1 DEF WorkersTypes
            <7> QED BY <3>3, <3>6, <6>1, <7>1
          <6>2. CASE i # t
            <7>1. reading'[i] = reading[i] /\ copy'[i] = copy[i]
                BY <1>2, <4>1, <6>2 DEF WorkersTypes
            <7> QED BY <1>2, <5>1, <7>1 DEF CopiesAreRecent
          <6> QED BY <6>1, <6>2
        <5> QED BY <1>3, <2>1, <2>7, <4>1, <5>1 DEF CopiesAreRecent, NextBlock
      <4> QED BY <1>2, <1>3, <2>6, <2>7, <4>1, <4>2, <4>3, <4>4 DEF ServerInv
    <3> QED BY <3>10, <3>11
  <2> QED BY <2>1, <2>9, <2>10
<1>11. ~Finish
    BY <1>2 DEF Finish
<1> QED
    BY <1>6, <1>7, <1>8, <1>9, <1>10, <1>11 DEF WorkersNext, Main

(* Every part of what the server's threads add up is of this repetition or *)
(* the one before, whatever the number of chunks and of their parts, of    *)
(* threads and of repetitions.                                             *)
THEOREM ChunksAreRecent == WorkersSpec => []AtMostOneRepetitionOld
<1>1. ServerInv => AtMostOneRepetitionOld
  <2> SUFFICES ASSUME ServerInv, OnServer, NEW t \in Threads,
                      NEW n \in DOMAIN collectors[t], NEW k \in Part
               PROVE  LET b == collectors[t][n][1]  rep == collectors[t][n][2][k] IN
                      \/ rep \in {r, r + 1} \ {0}
                      \/ b = 0 /\ k = 1 /\ rep = 0 /\ r > 0
      BY DEF AtMostOneRepetitionOld
  <2>1. collectors[t][n] \in Admissible
      BY DEF ServerInv
  <2> QED BY <2>1 DEF Admissible, Allowed
<1> QED BY <1>1, InitServerInv, StepServerInv, PTL DEF WorkersSpec
-----------------------------------------------------------------------------
(* How many blocks the first i threads have together, and which.           *)
CountTo(i) == IF OnServer THEN i * (num_blocks \div num_threads) ELSE Offset(i)
UpTo(i) ==
    IF OnServer
    THEN {(n - 1) * num_threads + t : n \in 1 .. num_blocks \div num_threads, t \in 0 .. i - 1}
    ELSE 0 .. Offset(i) - 1

(* What threads add up: a block, and what its parts are of.                *)
ChunkResults == Nat \X [Part -> Nat]

PartialResults ==
    \A t \in Threads :
        /\ at[t] \in 0 .. Len(Share(t)) /\ Len(collectors[t]) <= Len(Share(t))
        /\ \A n \in 1 .. Len(collectors[t]) : collectors[t][n][1] = Share(t)[n]
        /\ program # "ss_eigenlib_th" => Len(collectors[t]) = at[t]
        /\ program = "ss_eigenlib_th" /\ at[t] > 0 => Len(collectors[t]) = Len(Share(t))

InMemoryFromTheStart ==
    ~OnServer =>
        /\ memory = [b \in Blocks |-> AllOf(1)]
        /\ \A t \in Threads : \A n \in 1 .. Len(collectors[t]) : collectors[t][n][2] = AllOf(1)

WorkersInv ==
    /\ program \in {"amnes_bench", "ss_eigenlib_th", "server"}
    /\ num_blocks \in Nat /\ num_threads \in Nat
    /\ memory \in [Blocks -> [Part -> Nat]] /\ (pc = "synced" => OnServer)
    /\ DOMAIN at = Threads /\ collectors \in [Threads -> Seq(ChunkResults)]
    /\ PartialResults /\ InMemoryFromTheStart
    /\ pc \in {"spawn", "join"} => overall = << >>
    /\ EveryBlockOnce

LEMMA QuotientsGrow ==
    ASSUME NEW a \in Nat, NEW b \in Nat, a <= b, NEW d \in Nat \ {0}
    PROVE  a \div d \in Nat /\ a \div d <= b \div d
<1> DEFINE q == a \div d
           p == b \div d
<1>1. /\ q \in Nat /\ p \in Nat
      /\ q * d <= a /\ b < p * d + d
    BY Z3
<1> HIDE DEF q, p
<1>2. CASE q > p
  <2>1. q * d >= (p + 1) * d
      BY <1>1, <1>2
  <2>2. (p + 1) * d = p * d + d
      BY <1>1
  <2>3. q * d \in Int /\ p * d \in Int
      BY <1>1
  <2> QED BY <1>1, <2>1, <2>2, <2>3
<1> QED BY <1>1, <1>2 DEF q, p

(* The stretches of the threads follow one another, from the first block   *)
(* to the last.                                                            *)
LEMMA Offsets ==
    ASSUME num_blocks \in Nat, num_threads \in Nat \ {0}
    PROVE  /\ Offset(0) = 0 /\ Offset(num_threads) = num_blocks
           /\ \A i \in Threads : /\ Offset(i) \in Nat /\ Offset(i + 1) \in Nat
                                 /\ Offset(i) <= Offset(i + 1)
                                 /\ Offset(i + 1) <= num_blocks
<1> DEFINE T == num_threads
           B == num_blocks
<1> USE DEF Offset
<1>1. 0 * B = 0 /\ 0 \div T = 0
    OBVIOUS
<1>2. (T * B) \div T = B
  <2> DEFINE q == (T * B) \div T
  <2>1. T * B \in Nat
      OBVIOUS
  <2>2. q \in Nat /\ q * T <= T * B /\ T * B < q * T + T
      BY <2>1, Z3
  <2> HIDE DEF q
  <2>3. q * T + T = (q + 1) * T /\ T * B = B * T
      BY <2>2
  <2>4. q < B => (q + 1) * T <= B * T
      BY <2>2
  <2>5. q > B => q * T >= (B + 1) * T /\ (B + 1) * T = B * T + T
      BY <2>2
  <2>6. q * T \in Int /\ B * T \in Int
      BY <2>2
  <2>7. q = B
      BY <2>2, <2>3, <2>4, <2>5, <2>6
  <2> QED BY <2>7 DEF q
<1>3. ASSUME NEW i \in Threads
      PROVE  /\ Offset(i) \in Nat /\ Offset(i + 1) \in Nat
             /\ Offset(i) <= Offset(i + 1) /\ Offset(i + 1) <= B
  <2>1. i \in Nat /\ i + 1 \in Nat /\ i + 1 <= T
      BY DEF Threads
  <2>2. i * B \in Nat /\ (i + 1) * B \in Nat /\ T * B \in Nat
      BY <2>1
  <2>3. (i + 1) * B = i * B + B
      BY <2>1
  <2>4. (i + 1) * B <= T * B
      BY <2>1
  <2>5. i * B <= (i + 1) * B
      BY <2>2, <2>3
  <2> DEFINE a == i * B
             b == (i + 1) * B
             c == T * B
  <2>6. a \in Nat /\ b \in Nat /\ c \in Nat /\ a <= b /\ b <= c
      BY <2>2, <2>4, <2>5
  <2>7. c \div T = B
      BY <1>2
  <2> HIDE DEF a, b, c
  <2>8. /\ a \div T \in Nat /\ a \div T <= b \div T
        /\ b \div T \in Nat /\ b \div T <= c \div T
      BY <2>6, QuotientsGrow
  <2> QED BY <2>7, <2>8 DEF a, b
<1> QED BY <1>1, <1>2, <1>3

(* A thread's share follows on those of the threads before it.             *)
LEMMA ShareFollows ==
    ASSUME num_blocks \in Nat, num_threads \in Nat \ {0}, NEW i \in Threads
    PROVE  /\ Len(Share(i)) \in Nat /\ DOMAIN Share(i) = 1 .. Len(Share(i))
           /\ \A n \in 1 .. Len(Share(i)) : Share(i)[n] \in Blocks
           /\ CountTo(i) \in Nat /\ CountTo(i + 1) = CountTo(i) + Len(Share(i))
           /\ UpTo(i + 1) = UpTo(i) \cup {Share(i)[n] : n \in 1 .. Len(Share(i))}
<1>1. i \in Nat /\ i < num_threads
    BY DEF Threads
<1>2. CASE OnServer
  <2> DEFINE q == num_blocks \div num_threads
  <2>1. q \in Nat /\ q * num_threads <= num_blocks
      BY Z3
  <2> HIDE DEF q
  <2>2. Share(i) = [n \in 1 .. q |-> (n - 1) * num_threads + i]
      BY <1>2 DEF Share, q
  <2>3. Len(Share(i)) = q /\ \A n \in 1 .. q : Share(i)[n] = (n - 1) * num_threads + i
      BY <2>1, <2>2
  <2>4. ASSUME NEW n \in 1 .. q PROVE (n - 1) * num_threads + i \in Blocks
    <3>1. n \in Nat /\ n >= 1 /\ n <= q
        BY <2>1
    <3>2. (n - 1) * num_threads \in Nat
        BY <3>1
    <3>3. n * num_threads <= q * num_threads
        BY <2>1, <3>1
    <3>4. (n - 1) * num_threads = n * num_threads - num_threads
        BY <3>1
    <3> QED BY <1>1, <2>1, <3>2, <3>3, <3>4 DEF Blocks
  <2>5. CountTo(i) = i * q /\ CountTo(i + 1) = (i + 1) * q
      BY <1>2 DEF CountTo, q
  <2>6. i * q \in Nat /\ (i + 1) * q = i * q + q
      BY <1>1, <2>1
  <2>7. UpTo(i + 1) = UpTo(i) \cup {(n - 1) * num_threads + i : n \in 1 .. q}
    <3>1. UpTo(i) = {(n - 1) * num_threads + t : n \in 1 .. q, t \in 0 .. i - 1}
        BY <1>2 DEF UpTo, q
    <3>2. UpTo(i + 1) = {(n - 1) * num_threads + t : n \in 1 .. q, t \in 0 .. (i + 1) - 1}
        BY <1>2 DEF UpTo, q
    <3>3. 0 .. (i + 1) - 1 = (0 .. i - 1) \cup {i}
        BY <1>1
    <3> DEFINE F(n, t) == (n - 1) * num_threads + t
    <3> HIDE DEF F
    <3>4. {F(n, t) : n \in 1 .. q, t \in (0 .. i - 1) \cup {i}} =
              {F(n, t) : n \in 1 .. q, t \in 0 .. i - 1} \cup {F(n, i) : n \in 1 .. q}
      <4>1. ASSUME NEW x, x \in {F(n, t) : n \in 1 .. q, t \in (0 .. i - 1) \cup {i}}
            PROVE  \/ x \in {F(n, t) : n \in 1 .. q, t \in 0 .. i - 1}
                   \/ x \in {F(n, i) : n \in 1 .. q}
        <5>1. PICK n \in 1 .. q, t \in (0 .. i - 1) \cup {i} : x = F(n, t)
            BY <4>1
        <5>2. t = i \/ t \in 0 .. i - 1
            BY <5>1
        <5> QED BY <5>1, <5>2
      <4>2. ASSUME NEW x, x \in {F(n, t) : n \in 1 .. q, t \in 0 .. i - 1}
            PROVE  x \in {F(n, t) : n \in 1 .. q, t \in (0 .. i - 1) \cup {i}}
        <5>1. PICK n \in 1 .. q, t \in 0 .. i - 1 : x = F(n, t)
            BY <4>2
        <5>2. t \in (0 .. i - 1) \cup {i}
            OBVIOUS
        <5> QED BY <5>1, <5>2
      <4>3. ASSUME NEW x, x \in {F(n, i) : n \in 1 .. q}
            PROVE  x \in {F(n, t) : n \in 1 .. q, t \in (0 .. i - 1) \cup {i}}
        <5>1. PICK n \in 1 .. q : x = F(n, i)
            BY <4>3
        <5>2. i \in (0 .. i - 1) \cup {i}
            OBVIOUS
        <5> QED BY <5>1, <5>2
      <4> DEFINE L == {F(n, t) : n \in 1 .. q, t \in (0 .. i - 1) \cup {i}}
                 M == {F(n, t) : n \in 1 .. q, t \in 0 .. i - 1}
                 R == {F(n, i) : n \in 1 .. q}
      <4>4. /\ \A x \in L : x \in M \/ x \in R
            /\ \A x \in M : x \in L
            /\ \A x \in R : x \in L
          BY <4>1, <4>2, <4>3
      <4> HIDE DEF L, M, R
      <4>5. L = M \cup R
          BY <4>4
      <4> QED BY <4>5 DEF L, M, R
    <3> QED BY ONLY <3>1, <3>2, <3>3, <3>4 DEF F
  <2>8. {Share(i)[n] : n \in 1 .. Len(Share(i))} = {(n - 1) * num_threads + i : n \in 1 .. q}
      BY <2>3
  <2>9. DOMAIN Share(i) = 1 .. q
      BY <2>2
  <2> QED BY <2>1, <2>3, <2>4, <2>5, <2>6, <2>7, <2>8, <2>9
<1>3. CASE ~OnServer
  <2> DEFINE a == Offset(i)
             b == Offset(i + 1)
  <2>1. a \in Nat /\ b \in Nat /\ a <= b /\ b <= num_blocks
      BY Offsets
  <2>2. CountTo(i) = a /\ CountTo(i + 1) = b
      BY <1>3 DEF CountTo
  <2>3. Share(i) = [n \in 1 .. b - a |-> a + n - 1]
      BY <1>3 DEF Share
  <2>4. UpTo(i) = 0 .. a - 1 /\ UpTo(i + 1) = 0 .. b - 1
      BY <1>3 DEF UpTo
  <2> HIDE DEF a, b
  <2>5. Len(Share(i)) = b - a /\ \A n \in 1 .. b - a : Share(i)[n] = a + n - 1
      BY <2>1, <2>3
  <2>6. \A n \in 1 .. b - a : a + n - 1 \in Blocks
      BY <2>1 DEF Blocks
  <2>7. {a + n - 1 : n \in 1 .. b - a} = a .. b - 1
    <3>1. ASSUME NEW k \in a .. b - 1 PROVE k \in {a + n - 1 : n \in 1 .. b - a}
      <4>1. (k - a + 1) \in 1 .. b - a /\ k = a + (k - a + 1) - 1
          BY <2>1
      <4> QED BY <4>1
    <3>2. \A n \in 1 .. b - a : a + n - 1 \in a .. b - 1
        BY <2>1
    <3> QED BY <3>1, <3>2
  <2>8. 0 .. b - 1 = (0 .. a - 1) \cup (a .. b - 1)
      BY <2>1
  <2>9. {Share(i)[n] : n \in 1 .. Len(Share(i))} = a .. b - 1
      BY <2>5, <2>7
  <2>10. \A n \in 1 .. Len(Share(i)) : Share(i)[n] \in Blocks
      BY <2>5, <2>6
  <2>11. Len(Share(i)) \in Nat /\ b = a + Len(Share(i))
      BY <2>1, <2>5
  <2>12. DOMAIN Share(i) = 1 .. b - a
      BY <2>3
  <2> QED BY <2>1, <2>2, <2>4, <2>5, <2>8, <2>9, <2>10, <2>11, <2>12
<1> QED BY <1>2, <1>3

(* The shares of all threads are what is to be added up.                   *)
LEMMA SharesCover ==
    ASSUME num_blocks \in Nat, num_threads \in Nat \ {0}
    PROVE  /\ CountTo(0) = 0 /\ UpTo(0) = {}
           /\ CountTo(num_threads) = Cardinality(Covered) /\ UpTo(num_threads) = Covered
<1>1. CASE OnServer
  <2> DEFINE q == num_blocks \div num_threads
             T == num_threads
  <2>1. q \in Nat
      BY Z3
  <2> HIDE DEF q
  <2>2. CountTo(0) = 0 /\ CountTo(T) = T * q
      BY <1>1, <2>1 DEF CountTo, q
  <2>3. UpTo(0) = {}
      BY <1>1 DEF UpTo
  <2>4. Covered = 0 .. q * T - 1
      BY <1>1 DEF Covered, q
  <2>5. UpTo(T) = {(n - 1) * T + t : n \in 1 .. q, t \in 0 .. T - 1}
      BY <1>1 DEF UpTo, q
  <2>6. q * T \in Nat /\ q * T = T * q
      BY <2>1
  <2>7. ASSUME NEW n \in 1 .. q, NEW t \in 0 .. T - 1
        PROVE  (n - 1) * T + t \in 0 .. q * T - 1
    <3>1. n \in Nat /\ n >= 1 /\ n <= q
        BY <2>1
    <3>2. (n - 1) * T \in Nat
        BY <3>1
    <3>3. n * T <= q * T
        BY <2>1, <3>1
    <3>4. (n - 1) * T = n * T - T
        BY <3>1
    <3> QED BY <2>6, <3>2, <3>3, <3>4
  <2>8. ASSUME NEW k \in 0 .. q * T - 1
        PROVE  \E n \in 1 .. q, t \in 0 .. T - 1 : k = (n - 1) * T + t
    <3> DEFINE p == k \div T
               t == k % T
    <3>1. k \in Nat /\ k < q * T
        BY <2>6
    <3>2. p \in Nat /\ t \in 0 .. T - 1 /\ k = T * p + t
        BY <3>1
    <3> HIDE DEF p, t
    <3>3. p < q
      <4>1. p >= q => p * T >= q * T
          BY <2>1, <3>2
      <4>2. T * p = p * T /\ p * T \in Nat
          BY <3>2
      <4> QED BY <2>1, <2>6, <3>1, <3>2, <4>1, <4>2
    <3>4. p + 1 \in 1 .. q /\ (p + 1) - 1 = p /\ T * p = p * T
        BY <2>1, <3>2, <3>3
    <3>5. k = ((p + 1) - 1) * T + t
        BY <3>2, <3>4
    <3> QED BY <3>2, <3>4, <3>5
  <2>9. UpTo(T) = Covered
    <3>1. ASSUME NEW x \in UpTo(T) PROVE x \in Covered
      <4>1. PICK n \in 1 .. q, t \in 0 .. T - 1 : x = (n - 1) * T + t
          BY <2>5
      <4> QED BY <2>4, <2>7, <4>1
    <3>2. ASSUME NEW x \in Covered PROVE x \in UpTo(T)
        BY <2>4, <2>5, <2>8
    <3> QED BY <3>1, <3>2
  <2>10. Cardinality(Covered) = q * T
    <3>1. 0 \in Int /\ q * T - 1 \in Int
        BY <2>6
    <3>2. Cardinality(0 .. q * T - 1) = IF 0 > q * T - 1 THEN 0 ELSE (q * T - 1) - 0 + 1
        BY ONLY <3>1, FS_Interval
    <3> QED BY <2>4, <2>6, <3>2
  <2> QED BY <2>2, <2>3, <2>6, <2>9, <2>10
<1>2. CASE ~OnServer
  <2>1. CountTo(0) = 0 /\ CountTo(num_threads) = num_blocks
      BY <1>2, Offsets DEF CountTo
  <2>2. UpTo(0) = {} /\ UpTo(num_threads) = 0 .. num_blocks - 1
      BY <1>2, Offsets DEF UpTo
  <2>3. Covered = 0 .. num_blocks - 1
      BY <1>2 DEF Covered, Blocks
  <2>4. Cardinality(0 .. num_blocks - 1) = num_blocks
      BY FS_Interval
  <2> QED BY <2>1, <2>2, <2>3, <2>4
<1> QED BY <1>1, <1>2

(* Every non-empty set of naturals has a least element. *)
LEMMA LeastNatural ==
    ASSUME NEW T, T \subseteq Nat, T # {}
    PROVE  \E m \in T : \A k \in T : m <= k
<1>1. IsWellFoundedOn(OpToRel(<, Nat), Nat)
  BY NatLessThanWellFounded
<1>2. \E m \in T : \A k \in T : ~ (<<k, m>> \in OpToRel(<, Nat))
  BY <1>1, WFMin
<1>3. \A k, m \in Nat : ~(<<k, m>> \in OpToRel(<, Nat)) => m <= k
  BY DEF OpToRel
<1> QED BY <1>2, <1>3

(* Induction over the naturals, for a set in place of a predicate. *)
LEMMA SetInduction ==
    ASSUME NEW S, 0 \in S, \A n \in Nat : n \in S => n + 1 \in S
    PROVE  Nat \subseteq S
<1> SUFFICES ASSUME Nat \ S # {} PROVE FALSE
  OBVIOUS
<1>1. PICK m \in Nat \ S : \A k \in Nat \ S : m <= k
  BY LeastNatural
<1>2. m # 0 /\ m - 1 \in Nat /\ m - 1 \notin Nat \ S
  BY <1>1
<1> QED BY <1>1, <1>2

(* A function that satisfies the recursion of FlattenSeq is the one it     *)
(* defines.                                                                *)
IsFlat(g, seqs, n) ==
    g = [k \in 1 .. n |-> IF k = 1 THEN seqs[k] ELSE g[k - 1] \o seqs[k]]

LEMMA FlattenIs ==
    ASSUME NEW seqs, Len(seqs) \in Nat, Len(seqs) # 0,
           NEW g, IsFlat(g, seqs, Len(seqs))
    PROVE  FlattenSeq(seqs) = g[Len(seqs)]
<1> DEFINE n == Len(seqs)
           s == CHOOSE f : f = [k \in 1 .. Len(seqs) |->
                    IF k = 1 THEN seqs[k] ELSE f[k - 1] \o seqs[k]]
<1>1. s = [k \in 1 .. n |-> IF k = 1 THEN seqs[k] ELSE s[k - 1] \o seqs[k]]
  BY DEF IsFlat
<1>2. FlattenSeq(seqs) = s[n]
  BY DEF FlattenSeq
<1> HIDE DEF s
<1> DEFINE Same == {k \in Nat : k + 1 <= n => s[k + 1] = g[k + 1]}
<1>3. 0 \in Same
  <2>1. 1 \in 1 .. n OBVIOUS
  <2>2. s[1] = seqs[1] BY <1>1, <2>1
  <2>3. g[1] = seqs[1] BY <2>1 DEF IsFlat
  <2> QED BY <2>2, <2>3
<1>4. ASSUME NEW k \in Nat, k \in Same, (k + 1) + 1 <= n
      PROVE  s[(k + 1) + 1] = g[(k + 1) + 1]
  <2> DEFINE j == (k + 1) + 1
  <2>1. j \in 1 .. n /\ j # 1 /\ j - 1 = k + 1 /\ s[k + 1] = g[k + 1] BY <1>4
  <2> HIDE DEF j
  <2>2. s[j] = s[j - 1] \o seqs[j] BY <1>1, <2>1
  <2>3. g[j] = g[j - 1] \o seqs[j] BY <2>1 DEF IsFlat
  <2> QED BY <2>1, <2>2, <2>3 DEF j
<1>5. ASSUME NEW k \in Nat, k \in Same PROVE k + 1 \in Same
  <2> SUFFICES ASSUME (k + 1) + 1 <= n PROVE s[(k + 1) + 1] = g[(k + 1) + 1]
    OBVIOUS
  <2> QED BY <1>4, <1>5
<1> HIDE DEF Same
<1>6. Nat \subseteq Same
  BY <1>3, <1>5, SetInduction
<1>7. n - 1 \in Same /\ (n - 1) + 1 = n
  BY <1>6
<1> QED BY <1>2, <1>7 DEF Same


(* The results of the first i threads, one after another.                  *)
MergedTo(m, i) ==
    /\ m \in Seq(ChunkResults) /\ Len(m) = CountTo(i)
    /\ {m[n][1] : n \in 1 .. Len(m)} = UpTo(i)
    /\ r = 0 => \A n \in 1 .. Len(m) : m[n][2] = AllOf(1)

(* A thread's result is complete: its share, and received in time.         *)
Complete(c, i) ==
    /\ c \in Seq(ChunkResults) /\ Len(c) = Len(Share(i))
    /\ \A n \in 1 .. Len(c) : c[n][1] = Share(i)[n]
    /\ r = 0 => \A n \in 1 .. Len(c) : c[n][2] = AllOf(1)

LEMMA NextMerged ==
    ASSUME num_blocks \in Nat, num_threads \in Nat \ {0}, NEW i \in Threads,
           NEW m, MergedTo(m, i), NEW c, Complete(c, i)
    PROVE  MergedTo(m \o c, i + 1)
<1> DEFINE S == ChunkResults
           lm == Len(m)
           lc == Len(c)
           all == m \o c
<1>1. m \in Seq(S) /\ c \in Seq(S) /\ lm \in Nat /\ lc \in Nat
    BY DEF MergedTo, Complete
<1>2. all \in Seq(S) /\ Len(all) = lm + lc
    BY <1>1, ConcatProperties
<1>3. \A n \in 1 .. lm + lc : all[n] = IF n <= lm THEN m[n] ELSE c[n - lm]
    BY <1>1, ConcatProperties
<1>4. Len(all) = CountTo(i + 1)
    BY <1>2, ShareFollows DEF MergedTo, Complete
<1>5. {all[n][1] : n \in 1 .. Len(all)} = UpTo(i + 1)
  <2>1. UpTo(i + 1) = {m[n][1] : n \in 1 .. lm} \cup {c[n][1] : n \in 1 .. lc}
    <3>1. {Share(i)[n] : n \in 1 .. Len(Share(i))} = {c[n][1] : n \in 1 .. lc}
        BY DEF Complete
    <3> QED BY <3>1, ShareFollows DEF MergedTo
  <2> HIDE DEF all, lm, lc
  <2>2. ASSUME NEW n \in 1 .. lm + lc
        PROVE  all[n][1] \in {m[k][1] : k \in 1 .. lm} \cup {c[k][1] : k \in 1 .. lc}
    <3>1. CASE n <= lm
      <4>1. n \in 1 .. lm /\ all[n] = m[n]
          BY <1>1, <1>3, <3>1
      <4> QED BY <4>1
    <3>2. CASE ~(n <= lm)
      <4>1. n - lm \in 1 .. lc
          BY <1>1, <3>2
      <4>2. all[n] = c[n - lm]
          BY <1>3, <3>2
      <4> QED BY <4>1, <4>2
    <3> QED BY <3>1, <3>2
  <2>3. ASSUME NEW k \in 1 .. lm PROVE m[k][1] \in {all[n][1] : n \in 1 .. lm + lc}
    <3>1. k \in 1 .. lm + lc /\ all[k] = m[k]
        BY <1>1, <1>3
    <3> QED BY <3>1
  <2>4. ASSUME NEW k \in 1 .. lc PROVE c[k][1] \in {all[n][1] : n \in 1 .. lm + lc}
    <3>1. lm + k \in 1 .. lm + lc /\ ~(lm + k <= lm) /\ (lm + k) - lm = k
        BY <1>1
    <3>2. all[lm + k] = c[k]
        BY <1>3, <3>1
    <3> QED BY <3>1, <3>2
  <2>5. {all[n][1] : n \in 1 .. lm + lc} =
            {m[n][1] : n \in 1 .. lm} \cup {c[n][1] : n \in 1 .. lc}
      BY <2>2, <2>3, <2>4
  <2> QED BY <1>2, <2>1, <2>5
<1>6. ASSUME r = 0, NEW n \in 1 .. Len(all) PROVE all[n][2] = AllOf(1)
  <2>1. /\ \A k \in 1 .. lm : m[k][2] = AllOf(1)
        /\ \A k \in 1 .. lc : c[k][2] = AllOf(1)
      BY <1>6 DEF MergedTo, Complete
  <2>2. n \in 1 .. lm + lc
      BY <1>2
  <2>3. IF n <= lm THEN n \in 1 .. lm ELSE n - lm \in 1 .. lc
      BY <1>1, <2>2
  <2> HIDE DEF all, lm, lc
  <2> QED BY <1>3, <2>1, <2>2, <2>3
<1> QED BY <1>2, <1>4, <1>5, <1>6 DEF MergedTo

(* The results of all threads, merged.                                     *)
LEMMA AllMerged ==
    ASSUME num_blocks \in Nat, num_threads \in Nat \ {0},
           \A i \in Threads : Complete(collectors[i], i)
    PROVE  MergedTo(FlattenSeq([i \in 1 .. num_threads |-> collectors[i - 1]]), num_threads)
<1> DEFINE T == num_threads
           seqs == [i \in 1 .. T |-> collectors[i - 1]]
           S == ChunkResults
<1>1. Len(seqs) = T
    OBVIOUS
<1>2. \A i \in Threads : i + 1 \in 1 .. T /\ seqs[i + 1] = collectors[i]
    BY DEF Threads
<1> HIDE DEF seqs
<1> DEFINE Built == {k \in Nat : k + 1 <= T =>
                        \E g \in [1 .. k + 1 -> Seq(S)] :
                            IsFlat(g, seqs, k + 1) /\ MergedTo(g[k + 1], k + 1)}
<1>3. 0 \in Built
  <2> DEFINE c == collectors[0]
             g == [k \in 1 .. 1 |-> c]
  <2>1. 0 \in Threads /\ 0 + 1 = 1
      BY DEF Threads
  <2>2. Complete(c, 0) /\ seqs[1] = c
      BY <1>2, <2>1
  <2> HIDE DEF c
  <2>3. MergedTo(<< >>, 0)
      BY SharesCover DEF MergedTo
  <2>4. MergedTo(<< >> \o c, 0 + 1)
      BY <2>1, <2>2, <2>3, NextMerged
  <2>5. c \in Seq(S)
      BY <2>2 DEF Complete
  <2>6. << >> \o c = c
      BY <2>5, ConcatEmptySeq
  <2>7. g \in [1 .. 1 -> Seq(S)] /\ g[1] = c
      BY <2>5
  <2>8. IsFlat(g, seqs, 1)
      BY <2>2 DEF IsFlat
  <2> QED BY <2>1, <2>4, <2>6, <2>7, <2>8
<1>4. ASSUME NEW k \in Nat, k \in Built PROVE k + 1 \in Built
  <2> DEFINE j == k + 1
  <2> SUFFICES ASSUME j + 1 <= T
               PROVE  \E h \in [1 .. j + 1 -> Seq(S)] :
                          IsFlat(h, seqs, j + 1) /\ MergedTo(h[j + 1], j + 1)
      OBVIOUS
  <2>1. j \in Nat \ {0} /\ j <= T /\ j \in Threads
      BY DEF Threads
  <2>2. PICK g \in [1 .. j -> Seq(S)] : IsFlat(g, seqs, j) /\ MergedTo(g[j], j)
      BY <1>4, <2>1
  <2> HIDE DEF j
  <2> DEFINE h == [m \in 1 .. j + 1 |-> IF m = j + 1 THEN g[j] \o seqs[j + 1] ELSE g[m]]
  <2>3. h[j + 1] = g[j] \o seqs[j + 1]
    <3>1. j + 1 \in 1 .. j + 1
        BY <2>1
    <3> QED BY ONLY <3>1
  <2>4. MergedTo(g[j] \o seqs[j + 1], j + 1)
    <3>1. Complete(collectors[j], j) /\ seqs[j + 1] = collectors[j]
        BY <1>2, <2>1
    <3> QED BY <2>1, <2>2, <3>1, NextMerged
  <2>5. g[j] \o seqs[j + 1] \in Seq(S)
      BY <2>4 DEF MergedTo
  <2>6. h \in [1 .. j + 1 -> Seq(S)]
      BY <2>1, <2>5
  <2>7. ASSUME NEW m \in 1 .. j + 1
        PROVE  h[m] = IF m = 1 THEN seqs[m] ELSE h[m - 1] \o seqs[m]
    <3>1. CASE m = j + 1
      <4>1. m # 1 /\ m - 1 = j /\ j \in 1 .. j + 1 /\ j # j + 1
          BY <2>1, <3>1
      <4>2. h[m - 1] = g[j]
          BY <4>1
      <4> HIDE DEF h
      <4> QED BY <2>3, <3>1, <4>1, <4>2
    <3>2. CASE m # j + 1
      <4>1. m \in 1 .. j /\ h[m] = g[m]
          BY <2>1, <3>2
      <4>2. m # 1 => m - 1 \in 1 .. j + 1 /\ h[m - 1] = g[m - 1]
          BY <2>1, <4>1
      <4>3. g[m] = IF m = 1 THEN seqs[m] ELSE g[m - 1] \o seqs[m]
          BY <2>2, <4>1 DEF IsFlat
      <4> HIDE DEF h
      <4> QED BY <4>1, <4>2, <4>3
    <3> QED BY <3>1, <3>2
  <2>8. h = [m \in 1 .. j + 1 |-> h[m]]
      OBVIOUS
  <2> HIDE DEF h
  <2>9. IsFlat(h, seqs, j + 1)
      BY <2>7, <2>8 DEF IsFlat
  <2>10. MergedTo(h[j + 1], j + 1)
      BY <2>3, <2>4
  <2> QED BY <2>6, <2>9, <2>10
<1> HIDE DEF Built
<1>5. Nat \subseteq Built
    BY <1>3, <1>4, SetInduction
<1>6. T - 1 \in Built /\ (T - 1) + 1 = T
    BY <1>5
<1>7. PICK g \in [1 .. T -> Seq(S)] : IsFlat(g, seqs, T) /\ MergedTo(g[T], T)
    BY <1>6 DEF Built
<1>8. FlattenSeq(seqs) = g[T]
  <2>1. Len(seqs) \in Nat /\ Len(seqs) # 0 /\ IsFlat(g, seqs, Len(seqs))
      BY <1>1, <1>7
  <2> QED BY <1>1, <2>1, FlattenIs
<1> QED BY <1>7, <1>8 DEF seqs

LEMMA ThreadsAreSome ==
    ASSUME num_threads \in Nat, NEW t \in Threads
    PROVE  num_threads \in Nat \ {0}
    BY DEF Threads

LEMMA InitWorkersInv == WorkersInit => WorkersInv
<1> SUFFICES ASSUME WorkersInit PROVE WorkersInv
    OBVIOUS
<1>1. /\ program \in {"amnes_bench", "ss_eigenlib_th", "server"}
      /\ num_blocks \in Nat /\ num_threads \in Nat
    BY WorkersAssumption DEF WorkersInit, Lesser
<1>2. \A t \in Threads : Len(Share(t)) \in Nat
    BY <1>1, ShareFollows, ThreadsAreSome
<1>3. \A t \in Threads : at[t] = 0 /\ collectors[t] = << >>
    BY DEF WorkersInit
<1>4. PartialResults
    BY <1>2, <1>3 DEF PartialResults
<1>5. InMemoryFromTheStart
    BY <1>3 DEF WorkersInit, InMemoryFromTheStart
<1>6. << >> \in Seq(ChunkResults)
    OBVIOUS
<1>7. memory \in [Blocks -> [Part -> Nat]]
  <2>1. AllOf(0) \in [Part -> Nat] /\ AllOf(1) \in [Part -> Nat]
      BY DEF AllOf
  <2>2. memory = [b \in Blocks |-> AllOf(0)] \/ memory = [b \in Blocks |-> AllOf(1)]
      BY DEF WorkersInit
  <2> QED BY <2>1, <2>2
<1> QED
    BY <1>1, <1>3, <1>4, <1>5, <1>6, <1>7 DEF WorkersInit, WorkersInv, EveryBlockOnce

LEMMA StepWorkersInv ==
    WorkersInv /\ ServerInv /\ [WorkersNext]_workerVars => WorkersInv'
<1> SUFFICES ASSUME WorkersInv, ServerInv, [WorkersNext]_workerVars PROVE WorkersInv'
    OBVIOUS
<1>1. UNCHANGED <<program, num_blocks, num_threads>>
    BY DEF WorkersNext, Main, Spawn, Started, JoinAndMerge, Finish, Sync, Erase, LandPart,
           Work, NextRepetition, workerVars, chosen
<1>2. /\ Threads' = Threads /\ Blocks' = Blocks /\ OnServer' = OnServer /\ Covered' = Covered
      /\ \A t \in Threads : Share(t)' = Share(t)
    BY <1>1 DEF Threads, Blocks, OnServer, Covered, Share, Offset
<1>3. num_blocks \in Nat /\ num_threads \in Nat
    BY DEF WorkersInv
<1>4. ASSUME NEW t \in Threads
      PROVE  /\ num_threads \in Nat \ {0} /\ Len(Share(t)) \in Nat
             /\ DOMAIN Share(t) = 1 .. Len(Share(t))
             /\ \A n \in 1 .. Len(Share(t)) : Share(t)[n] \in Blocks
    BY <1>3, ShareFollows, ThreadsAreSome
<1>5. ASSUME UNCHANGED <<r, at, collectors, overall>>,
             memory' = memory, pc' = "synced" => OnServer,
             pc' \in {"spawn", "join"} => pc \in {"spawn", "join"},
             pc' = "coefficients" => pc = "coefficients"
      PROVE  WorkersInv'
  <2>1. PartialResults'
      BY <1>1, <1>2, <1>5 DEF WorkersInv, PartialResults
  <2>2. InMemoryFromTheStart'
      BY <1>2, <1>5 DEF WorkersInv, InMemoryFromTheStart
  <2>3. EveryBlockOnce'
      BY <1>2, <1>5 DEF WorkersInv, EveryBlockOnce
  <2> QED BY <1>1, <1>2, <1>5, <2>1, <2>2, <2>3 DEF WorkersInv
<1>6. CASE Spawn \/ Started \/ Sync \/ UNCHANGED workerVars
    BY <1>5, <1>6 DEF Spawn, Started, Sync, workerVars, mainVars, threadVars, memoryVars,
                      WorkersInv
<1>7. CASE LandPart
  <2>1. /\ OnServer /\ memory' \in [Blocks -> [Part -> Nat]]
        /\ UNCHANGED <<r, pc, at, collectors, overall>>
    <3>1. OnServer /\ r \in Nat
        BY <1>7 DEF LandPart, ServerInv, WorkersTypes
    <3>2. Sending \in Nat
        BY <3>1 DEF Sending
    <3> QED BY <1>7, <3>1, <3>2 DEF LandPart, WorkersInv, mainVars, threadVars
  <2>2. PartialResults'
      BY <1>1, <1>2, <2>1 DEF WorkersInv, PartialResults
  <2>3. InMemoryFromTheStart'
      BY <1>2, <2>1 DEF InMemoryFromTheStart
  <2>4. EveryBlockOnce'
      BY <1>2, <2>1 DEF WorkersInv, EveryBlockOnce
  <2> QED BY <1>1, <1>2, <2>1, <2>2, <2>3, <2>4 DEF WorkersInv
<1>8. CASE JoinAndMerge
  <2>1. /\ pc = "join" /\ AllJoined /\ overall = << >> /\ pc' = "coefficients"
        /\ UNCHANGED <<r, at, collectors, memory>>
      BY <1>8 DEF JoinAndMerge, WorkersInv, threadVars, memoryVars
  <2> DEFINE merged == FlattenSeq([i \in 1 .. num_threads |-> collectors[i - 1]])
  <2>2. overall' = << >> \o merged
      BY <1>8, <2>1 DEF JoinAndMerge
  <2>3. ASSUME NEW i \in Threads PROVE Complete(collectors[i], i)
    <3>1. /\ collectors[i] \in Seq(ChunkResults) /\ Len(collectors[i]) = Len(Share(i))
          /\ \A n \in 1 .. Len(collectors[i]) : collectors[i][n][1] = Share(i)[n]
      <4>1. collectors[i] \in Seq(ChunkResults) /\ at[i] = Len(Share(i))
          BY <2>1 DEF WorkersInv, AllJoined
      <4>2. Len(collectors[i]) \in Nat /\ Len(Share(i)) \in Nat
          BY <1>4, <4>1
      <4> QED BY <4>1, <4>2 DEF WorkersInv, PartialResults
    <3>2. ASSUME r = 0, NEW n \in 1 .. Len(collectors[i]) PROVE collectors[i][n][2] = AllOf(1)
      <4>1. CASE OnServer
        <5>1. collectors[i][n] \in Admissible
            BY <3>2, <4>1 DEF ServerInv
        <5>2. /\ collectors[i][n][2] \in [Part -> Nat]
              /\ \A k \in Part : collectors[i][n][2][k] = 1
            BY <3>2, <5>1 DEF Admissible, Allowed
        <5> QED BY <5>2 DEF AllOf
      <4>2. CASE ~OnServer
          BY <4>2 DEF WorkersInv, InMemoryFromTheStart
      <4> QED BY <4>1, <4>2
    <3> QED BY <3>1, <3>2 DEF Complete
  <2>4. /\ merged \in Seq(ChunkResults) /\ Len(merged) = Cardinality(Covered)
        /\ {merged[n][1] : n \in 1 .. Len(merged)} = Covered
        /\ r = 0 => \A n \in 1 .. Len(merged) : merged[n][2] = AllOf(1)
    <3>1. CASE num_threads = 0
      <4>1. [i \in 1 .. num_threads |-> collectors[i - 1]] = << >>
          BY <3>1
      <4>2. merged = << >>
          BY <4>1 DEF FlattenSeq
      <4>3. Covered = {} /\ Cardinality({}) = 0
          BY <3>1, FS_EmptySet DEF Covered
      <4> HIDE DEF merged
      <4> QED BY <4>2, <4>3
    <3>2. CASE num_threads # 0
      <4>1. num_threads \in Nat \ {0}
          BY <1>3, <3>2
      <4>2. MergedTo(merged, num_threads)
          BY <1>3, <2>3, <4>1, AllMerged
      <4>3. CountTo(num_threads) = Cardinality(Covered) /\ UpTo(num_threads) = Covered
          BY <1>3, <4>1, SharesCover
      <4> HIDE DEF merged
      <4> QED BY <4>2, <4>3 DEF MergedTo
    <3> QED BY <3>1, <3>2
  <2> HIDE DEF merged
  <2>5. overall' = merged
      BY <2>2, <2>4, ConcatEmptySeq
  <2>6. EveryBlockOnce'
    <3>1. DOMAIN merged = 1 .. Len(merged)
        BY <2>4
    <3> QED BY <1>2, <2>1, <2>4, <2>5, <3>1 DEF EveryBlockOnce
  <2>7. PartialResults'
      BY <1>1, <1>2, <2>1 DEF WorkersInv, PartialResults
  <2>8. InMemoryFromTheStart'
      BY <1>2, <2>1 DEF WorkersInv, InMemoryFromTheStart
  <2> QED BY <1>1, <1>2, <2>1, <2>6, <2>7, <2>8 DEF WorkersInv
<1>9. CASE Finish \/ Erase
  <2>1. /\ NextRepetition /\ memory' \in [Blocks -> [Part -> Nat]]
        /\ ~OnServer => UNCHANGED memory
    <3>1. CASE Finish
        BY <3>1 DEF Finish, memoryVars, WorkersInv
    <3>2. CASE Erase
      <4>1. pc = "synced" /\ OnServer
          BY <3>2 DEF Erase, WorkersInv
      <4> QED BY <3>2, <4>1 DEF Erase, WorkersInv
    <3> QED BY <1>9, <3>1, <3>2
  <2>2. /\ at' = [t \in Threads |-> 0] /\ collectors' = Cleaned /\ overall' = << >>
        /\ pc' \in {"spawn", "end"}
      BY <2>1 DEF NextRepetition
  <2>3. ASSUME NEW t \in Threads
        PROVE  /\ at'[t] = 0
               /\ IF program = "ss_eigenlib_th" THEN collectors'[t] = collectors[t]
                                                ELSE collectors'[t] = << >>
      BY <2>2 DEF Cleaned
  <2>4. PartialResults'
    <3>1. ASSUME NEW t \in Threads
          PROVE  /\ 0 \in 0 .. Len(Share(t)) /\ Len(collectors'[t]) <= Len(Share(t))
                 /\ \A n \in 1 .. Len(collectors'[t]) : collectors'[t][n][1] = Share(t)[n]
                 /\ program # "ss_eigenlib_th" => Len(collectors'[t]) = 0
      <4>1. Len(Share(t)) \in Nat
          BY <1>4
      <4>2. CASE program = "ss_eigenlib_th"
        <5>1. collectors'[t] = collectors[t]
            BY <2>3, <4>2
        <5> QED BY <4>1, <4>2, <5>1 DEF WorkersInv, PartialResults
      <4>3. CASE program # "ss_eigenlib_th"
        <5>1. collectors'[t] = << >>
            BY <2>3, <4>3
        <5> QED BY <4>1, <4>3, <5>1
      <4> QED BY <4>2, <4>3
    <3> QED BY <1>1, <1>2, <2>3, <3>1 DEF PartialResults
  <2>5. InMemoryFromTheStart'
      BY <1>2, <2>1, <2>3 DEF WorkersInv, InMemoryFromTheStart
  <2>6. << >> \in Seq(ChunkResults)
      OBVIOUS
  <2>7. collectors' \in [Threads -> Seq(ChunkResults)]
      BY <2>2, <2>6 DEF Cleaned, WorkersInv
  <2> QED
      BY <1>1, <1>2, <2>1, <2>2, <2>4, <2>5, <2>7 DEF WorkersInv, EveryBlockOnce
<1>10. ASSUME NEW t \in Threads, Work(t) PROVE WorkersInv'
  <2>1. /\ at[t] < Len(Share(t))
        /\ CollectBlock(t) \/ MatrixProduct(t) \/ PollChunk(t) \/ CopyPart(t)
        /\ UNCHANGED <<r, pc, overall, memory>>
      BY <1>10 DEF Work, Working, mainVars, memoryVars
  <2>12. NextBlock(t) = Share(t)[at[t] + 1] /\ NextBlock(t) \in Blocks
    <3>1. at[t] \in 0 .. Len(Share(t)) /\ Len(Share(t)) \in Nat
        BY <1>4 DEF WorkersInv, PartialResults
    <3> QED BY <1>4, <2>1, <3>1 DEF NextBlock
  (* A thread adds up one more block, or its whole share, or reads on.       *)
  <2>13. \/ /\ program # "ss_eigenlib_th"
            /\ \E x \in ChunkResults :
                   /\ x[1] = NextBlock(t) /\ (~OnServer => x[2] = AllOf(1))
                   /\ at' = [at EXCEPT ![t] = @ + 1]
                   /\ collectors' = [collectors EXCEPT ![t] = Append(@, x)]
         \/ MatrixProduct(t)
         \/ UNCHANGED <<at, collectors>>
    <3>1. CASE CollectBlock(t)
      <4>1. Content(NextBlock(t)) \in ChunkResults
          BY <2>12 DEF Content, ChunkResults, Blocks, WorkersInv
      <4>2. ~OnServer => Content(NextBlock(t))[2] = AllOf(1)
          BY <2>12 DEF Content, WorkersInv, InMemoryFromTheStart
      <4>3. Content(NextBlock(t))[1] = NextBlock(t) /\ program # "ss_eigenlib_th"
          BY <3>1 DEF Content, CollectBlock
      <4> QED BY <3>1, <4>1, <4>2, <4>3 DEF CollectBlock, AddUp
    <3>2. CASE PollChunk(t)
        BY <3>2 DEF PollChunk
    <3>3. CASE CopyPart(t)
      <4> SUFFICES ASSUME NEW k, NEW M1_th, NEW x,
                          k = reading[t], x = <<NextBlock(t), M1_th>>,
                          M1_th = [copy[t] EXCEPT ![k] = memory[NextBlock(t)][k]]
                   PROVE  \/ /\ program # "ss_eigenlib_th"
                             /\ \E y \in ChunkResults :
                                    /\ y[1] = NextBlock(t) /\ (~OnServer => y[2] = AllOf(1))
                                    /\ at' = [at EXCEPT ![t] = @ + 1]
                                    /\ collectors' = [collectors EXCEPT ![t] = Append(@, y)]
                          \/ UNCHANGED <<at, collectors>>
          OBVIOUS
      <4>1. OnServer /\ k # 0 /\ program # "ss_eigenlib_th"
          BY <3>3 DEF CopyPart, OnServer
      <4>2. k \in Part /\ copy[t] \in [Part -> Nat]
        <5>1. WorkersTypes
            BY <4>1 DEF ServerInv
        <5> QED BY <4>1, <5>1, WorkersAssumption DEF WorkersTypes, Part
      <4>3. memory[NextBlock(t)][k] \in Nat
          BY <2>12, <4>2 DEF WorkersInv
      <4>4. M1_th \in [Part -> Nat]
          BY <4>2, <4>3
      <4>5. x \in ChunkResults /\ x[1] = NextBlock(t)
        <5>1. NextBlock(t) \in Nat
            BY <1>3, <2>12 DEF Blocks
        <5> QED BY <4>4, <5>1 DEF ChunkResults
      <4>6. CASE k = Parts
        <5>1. /\ at' = [at EXCEPT ![t] = @ + 1]
              /\ collectors' = [collectors EXCEPT ![t] = Append(@, x)]
            BY <3>3, <4>6 DEF CopyPart, AddUp
        <5> QED BY <4>1, <4>5, <5>1
      <4>7. CASE k # Parts
          BY <3>3, <4>7 DEF CopyPart
      <4> QED BY <4>6, <4>7
    <3> QED BY <2>1, <3>1, <3>2, <3>3
  <2>2. \A i \in Threads \ {t} : at'[i] = at[i] /\ collectors'[i] = collectors[i]
      BY <2>13 DEF MatrixProduct, WorkersInv
  <2>3. \A b \in Blocks : Content(b) \in ChunkResults /\ Content(b)[1] = b
      BY DEF Content, Blocks, ChunkResults, WorkersInv
  <2>4. /\ Len(Share(t)) \in Nat
        /\ \A n \in 1 .. Len(Share(t)) : Share(t)[n] \in Blocks
      BY <1>4
  <2>5. /\ at[t] \in 0 .. Len(Share(t)) /\ collectors[t] \in Seq(ChunkResults)
        /\ Len(collectors[t]) <= Len(Share(t)) /\ Len(collectors[t]) \in Nat
        /\ \A n \in 1 .. Len(collectors[t]) : collectors[t][n][1] = Share(t)[n]
        /\ program # "ss_eigenlib_th" => Len(collectors[t]) = at[t]
      BY DEF WorkersInv, PartialResults
  <2>6. \A b \in Blocks : ~OnServer => Content(b)[2] = AllOf(1)
      BY DEF Content, WorkersInv, InMemoryFromTheStart
  (* What is then in the results of this thread.                             *)
  <2> DEFINE Right(c) ==
               /\ at'[t] \in 0 .. Len(Share(t)) /\ c \in Seq(ChunkResults)
               /\ Len(c) <= Len(Share(t))
               /\ \A n \in 1 .. Len(c) : c[n][1] = Share(t)[n]
               /\ program # "ss_eigenlib_th" => Len(c) = at'[t]
               /\ program = "ss_eigenlib_th" /\ at'[t] > 0 => Len(c) = Len(Share(t))
               /\ ~OnServer => \A n \in 1 .. Len(c) : c[n][2] = AllOf(1)
  <2>7. Right(collectors'[t])
    <3>3. CASE UNCHANGED <<at, collectors>>
        BY <2>5, <3>3 DEF WorkersInv, PartialResults, InMemoryFromTheStart
    <3>1. ASSUME program # "ss_eigenlib_th", NEW x \in ChunkResults,
                 x[1] = NextBlock(t), ~OnServer => x[2] = AllOf(1),
                 at' = [at EXCEPT ![t] = @ + 1],
                 collectors' = [collectors EXCEPT ![t] = Append(@, x)]
          PROVE  Right(collectors'[t])
      <4> DEFINE c == collectors[t]
                 m == Len(c)
                 k == m + 1
      <4>1. /\ program # "ss_eigenlib_th" /\ m = at[t]
            /\ at'[t] = k /\ collectors'[t] = Append(c, x)
          BY <2>5, <3>1 DEF WorkersInv
      <4>2. k \in 1 .. Len(Share(t)) /\ m \in Nat /\ k = m + 1
          BY <2>1, <2>4, <2>5, <4>1
      <4>3. x \in ChunkResults /\ x[1] = Share(t)[k] /\ (~OnServer => x[2] = AllOf(1))
          BY <2>12, <3>1, <4>1
      <4>4. ~OnServer => \A n \in 1 .. m : c[n][2] = AllOf(1)
          BY DEF WorkersInv, InMemoryFromTheStart
      <4>5. c \in Seq(ChunkResults) /\ \A n \in 1 .. m : c[n][1] = Share(t)[n]
          BY <2>5
      <4>6. /\ Append(c, x) \in Seq(ChunkResults) /\ Len(Append(c, x)) = k
            /\ \A n \in 1 .. m : Append(c, x)[n] = c[n]
            /\ Append(c, x)[k] = x
          BY <4>3, <4>5
      <4> DEFINE d == Append(c, x)
      <4> HIDE DEF c, m, k, d
      <4>7. \A n \in 1 .. k : n \in 1 .. m \/ n = k
          BY <4>2
      <4>8. \A n \in 1 .. k : d[n][1] = Share(t)[n]
          BY <4>3, <4>5, <4>6, <4>7 DEF d
      <4>9. ~OnServer => \A n \in 1 .. k : d[n][2] = AllOf(1)
          BY <4>3, <4>4, <4>6, <4>7 DEF d
      <4>10. k <= Len(Share(t)) /\ k \in 0 .. Len(Share(t))
          BY <2>4, <4>2
      <4> QED BY <4>1, <4>6, <4>8, <4>9, <4>10 DEF d
    <3>2. CASE MatrixProduct(t)
      <4> DEFINE s == Share(t)
                 m == Len(s)
                 c == [n \in DOMAIN s |-> Content(s[n])]
      <4>1. program = "ss_eigenlib_th" /\ at'[t] = m /\ collectors'[t] = c
          BY <3>2 DEF MatrixProduct, WorkersInv
      <4>2. DOMAIN s = 1 .. m
          BY <1>4
      <4>3. m \in Nat /\ \A n \in 1 .. m : s[n] \in Blocks
          BY <2>4
      <4> HIDE DEF s, m
      <4>4. c = [n \in 1 .. m |-> Content(s[n])]
          BY <4>2
      <4> HIDE DEF c
      <4>5. /\ c \in Seq(ChunkResults) /\ Len(c) = m
            /\ \A n \in 1 .. m : c[n] = Content(s[n])
          BY <2>3, <4>3, <4>4
      <4>6. \A n \in 1 .. m : c[n][1] = s[n] /\ (~OnServer => c[n][2] = AllOf(1))
          BY <2>3, <2>6, <4>3, <4>5
      <4> QED BY <4>1, <4>3, <4>5, <4>6 DEF s, m
    <3> QED BY <2>13, <3>1, <3>2, <3>3
  <2>8. PartialResults'
    <3>1. ASSUME NEW i \in Threads
          PROVE  /\ at'[i] \in 0 .. Len(Share(i)) /\ Len(collectors'[i]) <= Len(Share(i))
                 /\ \A n \in 1 .. Len(collectors'[i]) : collectors'[i][n][1] = Share(i)[n]
                 /\ program # "ss_eigenlib_th" => Len(collectors'[i]) = at'[i]
                 /\ program = "ss_eigenlib_th" /\ at'[i] > 0 =>
                        Len(collectors'[i]) = Len(Share(i))
      <4>1. CASE i = t
          BY <2>7, <4>1
      <4>2. CASE i # t
        <5>1. at'[i] = at[i] /\ collectors'[i] = collectors[i]
            BY <2>2, <4>2
        <5>2. PartialResults
            BY DEF WorkersInv
        <5> QED BY ONLY <5>1, <5>2 DEF PartialResults
      <4> QED BY <4>1, <4>2
    <3> QED BY <1>1, <1>2, <3>1 DEF PartialResults
  <2>9. InMemoryFromTheStart'
    <3>1. ASSUME ~OnServer, NEW i \in Threads, NEW n \in 1 .. Len(collectors'[i])
          PROVE  collectors'[i][n][2] = AllOf(1)
      <4>1. CASE i = t
          BY <2>7, <3>1, <4>1
      <4>2. CASE i # t
          BY <2>2, <3>1, <4>2 DEF WorkersInv, InMemoryFromTheStart
      <4> QED BY <4>1, <4>2
    <3> QED BY <1>2, <2>1, <3>1 DEF WorkersInv, InMemoryFromTheStart
  <2>10. /\ DOMAIN at' = Threads
         /\ collectors' \in [Threads -> Seq(ChunkResults)]
    <3>1. DOMAIN at' = Threads
        BY <2>13 DEF MatrixProduct, WorkersInv
    <3>2. DOMAIN collectors' = Threads /\ collectors' = [i \in Threads |-> collectors'[i]]
        BY <2>13 DEF MatrixProduct, WorkersInv
    <3>3. ASSUME NEW i \in Threads PROVE collectors'[i] \in Seq(ChunkResults)
        BY <2>2, <2>7 DEF WorkersInv
    <3> QED BY <3>1, <3>2, <3>3
  <2>11. EveryBlockOnce'
      BY <1>2, <2>1 DEF WorkersInv, EveryBlockOnce
  <2> QED BY <1>1, <1>2, <2>1, <2>8, <2>9, <2>10, <2>11 DEF WorkersInv
<1> QED
    BY <1>6, <1>7, <1>8, <1>9, <1>10 DEF WorkersNext, Main

(* Every program adds up every block once in each repetition, and none     *)
(* before it was received, whatever the number of blocks, threads and      *)
(* repetitions and the order in which the threads work.                    *)
THEOREM BlocksAreAddedUpOnce == WorkersSpec => []EveryBlockOnce
<1>1. WorkersInv => EveryBlockOnce
    BY DEF WorkersInv
<1> QED
    BY <1>1, InitServerInv, StepServerInv, InitWorkersInv, StepWorkersInv, PTL DEF WorkersSpec
-----------------------------------------------------------------------------
(* A device has all elements exactly when it is told so.                   *)
LEMMA SharesOfDevices ==
    ASSUME num_devices \in Nat \ {0}, NEW i \in Devices
    PROVE  n_per_device(i) = N <=> HasAllElements(i)
<1> DEFINE q == N \div num_devices
           m == N % num_devices
<1>1. N \in Nat /\ i \in 0 .. num_devices - 1
    BY OpenCLAssumption DEF Devices
<1>2. q \in Nat /\ m \in 0 .. num_devices - 1 /\ N = num_devices * q + m
    BY <1>1
<1>3. n_per_device(i) = q + IF i < m THEN 1 ELSE 0
    BY DEF n_per_device
<1> HIDE DEF q, m
<1>4. CASE num_devices = 1
    BY <1>1, <1>2, <1>3, <1>4 DEF HasAllElements
<1>5. CASE num_devices > 1
  <2>1. q = 0 \/ num_devices * q >= 2 * q
      BY <1>2, <1>5
  <2>2. CASE q = 0
    <3>1. N = m
        BY <1>2, <2>2
    <3> QED BY <1>1, <1>2, <1>3, <1>5, <2>2, <3>1 DEF HasAllElements
  <2>3. CASE q > 0
    <3>1. N >= 2 * q + m
        BY <1>2, <2>1, <2>3
    <3> QED BY <1>1, <1>2, <1>3, <1>5, <2>3, <3>1 DEF HasAllElements
  <2> QED BY <1>2, <2>2, <2>3
<1> QED BY <1>4, <1>5

Command == [do : {"write", "kernel", "read"},
            what : Inputs \cup Results \cup {"correlation"}]
KernelLeaves(i) ==
    [s \in Results |-> IF HasAllElements(i) THEN "own" ELSE "beyond"]

(* A device that has executed k commands, with what is then in its queue,  *)
(* its inputs, its sums and the host's: it has them in order, so that the  *)
(* kernel has had its inputs and each read what the kernel has left.       *)
ExecutedWith(todo, in, left, read, leaves, k) ==
    /\ todo \in Seq(Command) /\ Len(todo) = 8 - k
    /\ \A n \in 1 .. 8 - k : todo[n] = Commands[k + n]
    /\ in = (IF k >= 1 THEN {"x"} ELSE {}) \cup (IF k >= 2 THEN {"y"} ELSE {})
    /\ k >= 3 => left = leaves
    /\ \A n \in 4 .. k : read[Commands[n].what] = leaves[Commands[n].what]
Executed(i, k) == ExecutedWith(queue[i], input[i], device[i], sums[i], KernelLeaves(i), k)

CLInv ==
    /\ num_devices \in Nat \ {0} /\ launched \in 0 .. num_devices
    /\ step \in {"launch", "wait", "verify"}
    /\ step = "launch" <=> launched < num_devices
    /\ DOMAIN queue = Devices /\ DOMAIN input = Devices /\ DOMAIN device = Devices
    /\ sums \in [Devices -> [Results -> {"unset", "unwritten", "own", "beyond"}]]
    /\ \A i \in Devices :
          /\ i >= launched => queue[i] = << >> /\ input[i] = {}
          /\ i < launched => \E k \in 0 .. 8 : Executed(i, k)
    /\ step = "verify" => \A i \in Devices : queue[i] = << >>

LEMMA InitCLInv == CLInit => CLInv
    BY OpenCLAssumption DEF CLInit, CLInv, Devices

LEMMA FirstRemoved ==
    ASSUME NEW S, NEW s \in Seq(S), s # << >>
    PROVE  /\ RemoveAt(s, 1) \in Seq(S) /\ Len(RemoveAt(s, 1)) = Len(s) - 1
           /\ \A n \in 1 .. Len(s) - 1 : RemoveAt(s, 1)[n] = s[n + 1]
<1>1. SubSeq(s, 1, 0) = << >> /\ Len(s) \in Nat \ {0}
    BY SubSeqEmpty, EmptySeq
<1>2. /\ SubSeq(s, 2, Len(s)) \in Seq(S) /\ Len(SubSeq(s, 2, Len(s))) = Len(s) - 1
      /\ \A n \in 1 .. Len(s) - 1 : SubSeq(s, 2, Len(s))[n] = s[n + 1]
  <2>1. \A n \in 2 .. Len(s) : s[n] \in S
      BY <1>1
  <2>2. SubSeq(s, 2, Len(s)) \in Seq(S)
      BY <1>1, <2>1, SubSeqProperties
  <2>3. Len(SubSeq(s, 2, Len(s))) = Len(s) - 1
    <3>1. Len(SubSeq(s, 2, Len(s))) = IF 2 <= Len(s) THEN Len(s) - 2 + 1 ELSE 0
        BY <1>1, <2>1, SubSeqProperties
    <3> DEFINE rest == SubSeq(s, 2, Len(s))
               m == Len(s)
    <3>2. Len(rest) = (IF 2 <= m THEN m - 2 + 1 ELSE 0) /\ m \in Nat \ {0}
        BY <1>1, <3>1
    <3> HIDE DEF rest, m
    <3>3. Len(rest) = m - 1
        BY <3>2
    <3> QED BY <3>3 DEF rest, m
  <2>4. \A n \in 1 .. Len(s) - 1 : SubSeq(s, 2, Len(s))[n] = s[n + 1]
      BY <1>1
  <2> QED BY <2>2, <2>3, <2>4
<1>3. RemoveAt(s, 1) = SubSeq(s, 2, Len(s))
    BY <1>1, <1>2, ConcatEmptySeq DEF RemoveAt
<1> QED BY <1>2, <1>3

LEMMA CommandsAre ==
    /\ Len(Commands) = 8 /\ Commands \in Seq(Command)
    /\ Commands[1] = [do |-> "write", what |-> "x"]
    /\ Commands[2] = [do |-> "write", what |-> "y"]
    /\ Commands[3] = [do |-> "kernel", what |-> "correlation"]
    /\ Commands[4] = [do |-> "read", what |-> "sum_x"]
    /\ Commands[5] = [do |-> "read", what |-> "sum_y"]
    /\ Commands[6] = [do |-> "read", what |-> "sum_sx"]
    /\ Commands[7] = [do |-> "read", what |-> "sum_sy"]
    /\ Commands[8] = [do |-> "read", what |-> "sum_p"]
    BY DEF Commands, Command, Inputs, Results

LEMMA StepCLInv == CLInv /\ [CLNext]_clVars => CLInv'
<1> SUFFICES ASSUME CLInv, [CLNext]_clVars PROVE CLInv'
    OBVIOUS
<1>1. UNCHANGED num_devices
    BY DEF CLNext, Host, Launch, WaitForEvents, Execute, clVars
<1>2. /\ Devices' = Devices
      /\ \A i \in Devices : KernelLeaves(i)' = KernelLeaves(i)
    BY <1>1 DEF Devices, KernelLeaves, HasAllElements
<1>3. ASSUME NEW i \in Devices, i < launched,
             queue'[i] = queue[i], input'[i] = input[i], device'[i] = device[i],
             sums'[i] = sums[i]
      PROVE  \E k \in 0 .. 8 : Executed(i, k)'
  <2>1. PICK k \in 0 .. 8 : Executed(i, k)
      BY <1>3 DEF CLInv
  <2>2. Executed(i, k)'
      BY <1>2, <1>3, <2>1 DEF Executed
  <2> QED BY <2>2
<1>4. CASE Launch
  <2>1. launched \in Devices /\ launched \in Nat /\ num_devices \in Nat
      BY <1>4 DEF CLInv, Launch, Devices
  <2>2. ASSUME NEW i \in Devices, i = launched PROVE Executed(i, 0)'
    <3>1. queue'[i] = Commands /\ input'[i] = {}
        BY <1>4, <2>1, <2>2 DEF CLInv, Launch
    <3>2. ExecutedWith(queue'[i], input'[i], device'[i], sums'[i], KernelLeaves(i), 0)
        BY <3>1, CommandsAre DEF ExecutedWith
    <3> QED BY <1>2, <3>2 DEF Executed
  <2>3. \A i \in Devices : i # launched =>
            queue'[i] = queue[i] /\ input'[i] = input[i] /\ device'[i] = device[i]
               /\ sums'[i] = sums[i]
      BY <1>4 DEF Launch, CLInv
  <2>4. \A i \in Devices : i < launched => \E k \in 0 .. 8 : Executed(i, k)'
      BY <1>3, <2>1, <2>3 DEF Devices
  <2>5. \A i \in Devices : i < launched' => \E k \in 0 .. 8 : Executed(i, k)'
    <3>1. ASSUME NEW i \in Devices, i < launched'
          PROVE  \E k \in 0 .. 8 : Executed(i, k)'
      <4>1. i < launched \/ i = launched
          BY <1>4, <2>1, <3>1 DEF Launch, Devices
      <4> QED BY <2>2, <2>4, <4>1
    <3> QED BY <3>1
  <2> QED
      BY <1>1, <1>2, <1>4, <2>1, <2>3, <2>5 DEF CLInv, Launch, Devices
<1>5. CASE WaitForEvents
  <2>1. ASSUME NEW i \in Devices PROVE queue[i] = << >>
    <3>1. launched = num_devices
        BY <1>5 DEF WaitForEvents, CLInv
    <3>2. PICK k \in 0 .. 8 : Executed(i, k)
        BY <3>1 DEF CLInv, Devices
    <3>3. k = 8
      <4> SUFFICES ASSUME k < 8 PROVE FALSE
          OBVIOUS
      <4>1. 8 - k \in DOMAIN queue[i] /\ queue[i][8 - k] = Commands[8]
        <5>1. /\ queue[i] \in Seq(Command) /\ Len(queue[i]) = 8 - k
              /\ \A n \in 1 .. 8 - k : queue[i][n] = Commands[k + n]
            BY <3>2 DEF Executed, ExecutedWith
        <5>2. 8 - k \in 1 .. 8 - k /\ k + (8 - k) = 8
            OBVIOUS
        <5>3. queue[i][8 - k] = Commands[8]
            BY <5>1, <5>2
        <5> QED BY <5>1, <5>2, <5>3
      <4> QED BY <1>5, <4>1, CommandsAre DEF WaitForEvents, Finished
    <3> QED BY <3>2, <3>3, EmptySeq DEF Executed, ExecutedWith
  <2>2. \A i \in Devices : i < launched => \E k \in 0 .. 8 : Executed(i, k)'
      BY <1>3, <1>5 DEF WaitForEvents
  <2> QED BY <1>1, <1>2, <1>5, <2>1, <2>2 DEF WaitForEvents, CLInv
<1>6. ASSUME NEW i \in Devices, NEW j \in 1 .. Len(Commands), Execute(i, j) PROVE CLInv'
  <2>1. j = 1 /\ queue[i] # << >> /\ queue' = [queue EXCEPT ![i] = RemoveAt(@, 1)]
        /\ UNCHANGED <<step, launched>>
      BY <1>6 DEF Execute, NextInQueue
  <2>2. i < launched
      BY <2>1 DEF CLInv, Devices
  <2>3. PICK k \in 0 .. 8 : Executed(i, k)
      BY <2>2 DEF CLInv
  <2>4. k \in 0 .. 7 /\ queue[i] \in Seq(Command) /\ queue[i][1] = Commands[k + 1]
        /\ k + 1 \in 1 .. 8
      BY <2>1, <2>3 DEF Executed, ExecutedWith
  <2>5. /\ queue'[i] \in Seq(Command) /\ Len(queue'[i]) = 8 - (k + 1)
        /\ \A n \in 1 .. 8 - (k + 1) : queue'[i][n] = Commands[(k + 1) + n]
    <3>1. queue'[i] = RemoveAt(queue[i], 1)
        BY <2>1 DEF CLInv
    <3>2. Len(queue[i]) = 8 - k /\ \A n \in 1 .. 8 - k : queue[i][n] = Commands[k + n]
        BY <2>3 DEF Executed, ExecutedWith
    <3>3. /\ RemoveAt(queue[i], 1) \in Seq(Command)
          /\ Len(RemoveAt(queue[i], 1)) = Len(queue[i]) - 1
          /\ \A n \in 1 .. Len(queue[i]) - 1 : RemoveAt(queue[i], 1)[n] = queue[i][n + 1]
        BY <2>1, <2>4, FirstRemoved
    <3>4. ASSUME NEW n \in 1 .. 8 - (k + 1)
          PROVE  RemoveAt(queue[i], 1)[n] = Commands[(k + 1) + n]
      <4>1. n \in 1 .. Len(queue[i]) - 1 /\ n + 1 \in 1 .. 8 - k
            /\ k + (n + 1) = (k + 1) + n
        <5>1. k \in 0 .. 7 /\ Len(queue[i]) = 8 - k
            BY <2>4, <3>2
        <5> DEFINE m == Len(queue[i])
        <5> HIDE DEF m
        <5>2. k \in 0 .. 7 /\ m = 8 - k
            BY <5>1 DEF m
        <5>3. n \in 1 .. m - 1 /\ n + 1 \in 1 .. 8 - k /\ k + (n + 1) = (k + 1) + n
            BY <5>2
        <5> QED BY <5>3 DEF m
      <4>2. RemoveAt(queue[i], 1)[n] = queue[i][n + 1]
          BY ONLY <3>3, <4>1
      <4>3. queue[i][n + 1] = Commands[k + (n + 1)]
          BY ONLY <3>2, <4>1
      <4> QED BY ONLY <4>1, <4>2, <4>3
    <3> QED BY <2>4, <3>1, <3>2, <3>3, <3>4
  <2> DEFINE c == Commands[k + 1]
  <2>6. /\ input' = IF c.do = "write" THEN [input EXCEPT ![i] = @ \cup {c.what}] ELSE input
        /\ device' = IF c.do = "kernel"
                     THEN [device EXCEPT ![i] = [s \in Results |-> KernelResult(i)]]
                     ELSE device
        /\ sums' = IF c.do = "read" THEN [sums EXCEPT ![i][c.what] = device[i][c.what]]
                                    ELSE sums
      BY <1>6, <2>1, <2>4 DEF Execute
  <2> HIDE DEF c
  <2>7. Executed(i, k + 1)'
    <3>1. input'[i] = (IF k + 1 >= 1 THEN {"x"} ELSE {})
                          \cup (IF k + 1 >= 2 THEN {"y"} ELSE {})
      <4>1. input[i] = (IF k >= 1 THEN {"x"} ELSE {}) \cup (IF k >= 2 THEN {"y"} ELSE {})
          BY <2>3 DEF Executed, ExecutedWith
      <4>2. k = 0 \/ k = 1 \/ k >= 2
          BY <2>4
      <4> QED BY <2>4, <2>6, <4>1, <4>2, CommandsAre DEF c, CLInv
    <3>2. k + 1 >= 3 => device'[i] = KernelLeaves(i)
      <4>1. CASE k = 2
        <5>1. input[i] = Inputs
            BY <2>3, <4>1 DEF Executed, ExecutedWith, Inputs
        <5>2. KernelResult(i) = IF HasAllElements(i) THEN "own" ELSE "beyond"
            BY <5>1, SharesOfDevices DEF KernelResult, CLInv
        <5> QED BY <2>6, <4>1, <5>2, CommandsAre DEF c, CLInv, KernelLeaves
      <4>2. CASE k >= 3
        <5>1. c.do = "read"
            BY <2>4, <4>2, CommandsAre DEF c
        <5> QED BY <2>3, <2>6, <4>2, <5>1 DEF Executed, ExecutedWith
      <4> QED BY <2>4, <4>1, <4>2
    <3>3. \A n \in 4 .. k + 1 : sums'[i][Commands[n].what] = KernelLeaves(i)[Commands[n].what]
      <4>1. CASE k < 3
          BY <2>4, <4>1
      <4>2. CASE k >= 3
        <5>1. c.do = "read" /\ c.what \in Results
            BY <2>4, <4>2, CommandsAre DEF c, Results
        <5>2. device[i] = KernelLeaves(i)
              /\ \A n \in 4 .. k : sums[i][Commands[n].what] = KernelLeaves(i)[Commands[n].what]
            BY <2>3, <4>2 DEF Executed, ExecutedWith
        <5>3. sums'[i] = [sums[i] EXCEPT ![c.what] = KernelLeaves(i)[c.what]]
            BY <2>6, <5>1, <5>2 DEF CLInv
        <5>4. /\ sums'[i][c.what] = KernelLeaves(i)[c.what]
              /\ \A s \in Results \ {c.what} : sums'[i][s] = sums[i][s]
            BY <5>1, <5>3 DEF CLInv
        <5>5. \A n \in 4 .. k : Commands[n].what \in Results
            BY <2>4, CommandsAre DEF Results
        <5>6. ASSUME NEW n \in 4 .. k + 1
              PROVE  sums'[i][Commands[n].what] = KernelLeaves(i)[Commands[n].what]
          <6>1. CASE Commands[n].what = c.what
              BY <5>4, <6>1
          <6>2. CASE Commands[n].what # c.what
            <7>1. n \in 4 .. k
                BY <2>4, <6>2 DEF c
            <7> QED BY <5>2, <5>4, <5>5, <6>2, <7>1
          <6> QED BY <6>1, <6>2
        <5> QED BY <5>6
      <4> QED BY <2>4, <4>1, <4>2
    <3>4. ExecutedWith(queue'[i], input'[i], device'[i], sums'[i], KernelLeaves(i), k + 1)
        BY ONLY <2>5, <3>1, <3>2, <3>3 DEF ExecutedWith
    <3> QED BY <1>2, <3>4 DEF Executed
  <2>8. \A d \in Devices \ {i} :
            queue'[d] = queue[d] /\ input'[d] = input[d] /\ device'[d] = device[d]
               /\ sums'[d] = sums[d]
      BY <2>1, <2>6 DEF CLInv
  <2>9. /\ DOMAIN queue' = Devices /\ DOMAIN input' = Devices /\ DOMAIN device' = Devices
        /\ sums' \in [Devices -> [Results -> {"unset", "unwritten", "own", "beyond"}]]
    <3>1. DOMAIN queue' = Devices /\ DOMAIN input' = Devices /\ DOMAIN device' = Devices
        BY <2>1, <2>6 DEF CLInv
    <3>2. sums' \in [Devices -> [Results -> {"unset", "unwritten", "own", "beyond"}]]
      <4>1. CASE c.do # "read"
          BY <2>6, <4>1 DEF CLInv
      <4>2. CASE c.do = "read"
        <5>1. k >= 3 /\ c.what \in Results
            BY <2>4, <4>2, CommandsAre DEF c, Results
        <5>2. device[i][c.what] \in {"own", "beyond"}
            BY <2>3, <5>1 DEF Executed, ExecutedWith, KernelLeaves
        <5> QED BY <2>6, <4>2, <5>1, <5>2 DEF CLInv
      <4> QED BY <4>1, <4>2
    <3> QED BY <3>1, <3>2
  <2>10. \A d \in Devices :
          /\ d >= launched => queue'[d] = << >> /\ input'[d] = {}
          /\ d < launched => \E n \in 0 .. 8 : Executed(d, n)'
    <3>1. \A d \in Devices \ {i} :
             /\ d >= launched => queue'[d] = << >> /\ input'[d] = {}
             /\ d < launched => \E n \in 0 .. 8 : Executed(d, n)'
        BY <1>3, <2>8 DEF CLInv
    <3>2. k + 1 \in 0 .. 8
        BY <2>4
    <3>3. \E n \in 0 .. 8 : Executed(i, n)'
        BY <2>7, <3>2
    <3>4. ~(i >= launched)
        BY <2>2 DEF CLInv, Devices
    <3> QED BY <3>1, <3>3, <3>4
  <2>11. step # "verify"
      BY <2>1 DEF CLInv
  <2> QED BY <1>1, <1>2, <2>1, <2>9, <2>10, <2>11 DEF CLInv
<1>7. CASE UNCHANGED clVars
  <2>1. \A i \in Devices : i < launched => \E k \in 0 .. 8 : Executed(i, k)'
      BY <1>3, <1>7 DEF clVars
  <2> QED BY <1>1, <1>2, <1>7, <2>1 DEF clVars, CLInv
<1> QED
    BY <1>4, <1>5, <1>6, <1>7 DEF CLNext, Host

(* The host waits for one of the five reads of each device, which is       *)
(* enough, for any number of devices and of elements.                      *)
THEOREM SumsAreFinished == CLSpec => []VerifiesFinishedSums
<1>1. CLInv => VerifiesFinishedSums
  <2> SUFFICES ASSUME CLInv, step = "verify", NEW i \in Devices, NEW s \in Results
               PROVE  sums[i][s] = IF HasAllElements(i) THEN "own" ELSE "beyond"
      BY DEF VerifiesFinishedSums
  <2>1. i < launched /\ queue[i] = << >>
      BY DEF CLInv, Devices
  <2>2. PICK k \in 0 .. 8 : Executed(i, k)
      BY <2>1 DEF CLInv
  <2>3. k = 8
      BY <2>1, <2>2 DEF Executed, ExecutedWith
  <2>4. \A n \in 4 .. 8 : sums[i][Commands[n].what] = KernelLeaves(i)[Commands[n].what]
      BY <2>2, <2>3 DEF Executed, ExecutedWith
  <2>5. \E n \in 4 .. 8 : Commands[n].what = s
      BY CommandsAre DEF Results
  <2> QED BY <2>4, <2>5 DEF KernelLeaves
<1> QED BY <1>1, InitCLInv, StepCLInv, PTL DEF CLSpec
-----------------------------------------------------------------------------
(* A function that satisfies the recursion of SumsOf.                      *)
IsSums(g, f, n) == g = [k \in 0 .. n |-> IF k = 0 THEN 0 ELSE g[k - 1] + f[k]]

LEMMA SumsExist ==
    ASSUME NEW n \in Nat, NEW f \in [1 .. n -> Nat]
    PROVE  \E g \in [0 .. n -> Nat] : IsSums(g, f, n)
<1> DEFINE Built == {k \in Nat : k <= n => \E g \in [0 .. k -> Nat] : IsSums(g, f, k)}
<1>1. 0 \in Built
  <2> DEFINE g == [k \in 0 .. 0 |-> 0]
  <2>1. g \in [0 .. 0 -> Nat]
      OBVIOUS
  <2>2. IsSums(g, f, 0)
      BY DEF IsSums
  <2> QED BY <2>1, <2>2
<1>2. ASSUME NEW k \in Nat, k \in Built PROVE k + 1 \in Built
  <2> SUFFICES ASSUME k + 1 <= n
               PROVE  \E h \in [0 .. k + 1 -> Nat] : IsSums(h, f, k + 1)
      OBVIOUS
  <2>1. PICK g \in [0 .. k -> Nat] : IsSums(g, f, k)
      BY <1>2
  <2> DEFINE h == [m \in 0 .. k + 1 |-> IF m = k + 1 THEN g[k] + f[k + 1] ELSE g[m]]
  <2>2. h \in [0 .. k + 1 -> Nat]
    <3>1. k + 1 \in 1 .. n /\ k \in 0 .. k
        OBVIOUS
    <3>2. g[k] + f[k + 1] \in Nat
        BY <3>1
    <3>3. \A m \in 0 .. k + 1 : m # k + 1 => m \in 0 .. k
        OBVIOUS
    <3> QED BY <3>2, <3>3
  <2>3. ASSUME NEW m \in 0 .. k + 1
        PROVE  h[m] = IF m = 0 THEN 0 ELSE h[m - 1] + f[m]
    <3>1. CASE m = k + 1
      <4>1. m # 0 /\ m - 1 = k /\ k \in 0 .. k + 1 /\ k # k + 1
          BY <3>1
      <4>2. h[m - 1] = g[k] /\ h[m] = g[k] + f[m]
          BY <3>1, <4>1
      <4> HIDE DEF h
      <4> QED BY <4>1, <4>2
    <3>2. CASE m # k + 1
      <4>1. m \in 0 .. k /\ h[m] = g[m]
          BY <3>2
      <4>2. m # 0 => m - 1 \in 0 .. k + 1 /\ h[m - 1] = g[m - 1]
          BY <4>1
      <4>3. g[m] = IF m = 0 THEN 0 ELSE g[m - 1] + f[m]
          BY <2>1, <4>1 DEF IsSums
      <4> HIDE DEF h
      <4> QED BY <4>1, <4>2, <4>3
    <3> QED BY <3>1, <3>2
  <2>4. h = [m \in 0 .. k + 1 |-> h[m]]
      OBVIOUS
  <2> HIDE DEF h
  <2>5. IsSums(h, f, k + 1)
      BY <2>3, <2>4 DEF IsSums
  <2> QED BY <2>2, <2>5
<1> HIDE DEF Built
<1>3. n \in Built
    BY <1>1, <1>2, SetInduction
<1> QED BY <1>3 DEF Built

(* What SumsOf is: the sums of natural numbers, which grow.                *)
Summed(s, f, n) ==
    /\ s[0] = 0 /\ \A k \in 0 .. n : s[k] \in Nat
    /\ \A k \in 0 .. n - 1 : s[k + 1] = s[k] + f[k + 1]
    /\ \A a, b \in 0 .. n : a <= b => s[a] <= s[b]

LEMMA SumsAre ==
    ASSUME NEW f, Len(items) \in Nat, f \in [1 .. Len(items) -> Nat]
    PROVE  Summed(SumsOf(f), f, Len(items))
<1> DEFINE n == Len(items)
           s == SumsOf(f)
<1>1. IsSums(s, f, n)
  <2>1. PICK g : IsSums(g, f, n)
      BY SumsExist
  <2> QED BY <2>1 DEF SumsOf, IsSums
<1>2. n \in Nat /\ f \in [1 .. n -> Nat]
    OBVIOUS
<1> HIDE DEF s, n
<1>3. s[0] = 0
    BY <1>1, <1>2 DEF IsSums
<1>4. ASSUME NEW k \in 0 .. n - 1 PROVE s[k + 1] = s[k] + f[k + 1] /\ f[k + 1] \in Nat
  <2>1. k + 1 \in 0 .. n /\ k + 1 # 0 /\ (k + 1) - 1 = k /\ k + 1 \in 1 .. n
      BY <1>2
  <2> DEFINE m == k + 1
  <2> HIDE DEF m
  <2>2. m \in 0 .. n /\ m # 0 /\ m - 1 = k /\ m \in 1 .. n
      BY <2>1 DEF m
  <2>3. s[m] = s[m - 1] + f[m]
      BY <1>1, <2>2 DEF IsSums
  <2> QED BY <1>2, <2>2, <2>3 DEF m
<1>5. \A k \in 0 .. n : s[k] \in Nat
  <2> DEFINE Good == {k \in Nat : k <= n => s[k] \in Nat}
  <2>1. 0 \in Good
      BY <1>3
  <2>2. ASSUME NEW k \in Nat, k \in Good PROVE k + 1 \in Good
    <3>1. k + 1 <= n => k \in 0 .. n - 1 /\ s[k] \in Nat
        BY <1>2, <2>2
    <3> QED BY <1>4, <3>1
  <2> HIDE DEF Good
  <2>3. Nat \subseteq Good
      BY <2>1, <2>2, SetInduction
  <2>4. ASSUME NEW k \in 0 .. n PROVE s[k] \in Nat
    <3>1. k \in Good /\ k <= n
        BY <1>2, <2>3
    <3> QED BY <3>1 DEF Good
  <2> QED BY <2>4
<1>6. ASSUME NEW a \in 0 .. n, NEW b \in 0 .. n, a <= b PROVE s[a] <= s[b]
  <2> DEFINE Good == {d \in Nat : a + d <= n => s[a] <= s[a + d]}
  <2>1. 0 \in Good
    <3>1. a + 0 = a /\ s[a] \in Nat
        BY <1>2, <1>5
    <3> QED BY <3>1
  <2>2. ASSUME NEW d \in Nat, d \in Good PROVE d + 1 \in Good
    <3> SUFFICES ASSUME a + (d + 1) <= n PROVE s[a] <= s[a + (d + 1)]
        OBVIOUS
    <3> DEFINE e == a + d
    <3>1. e \in 0 .. n - 1 /\ e \in 0 .. n /\ a + (d + 1) = e + 1 /\ s[a] <= s[e]
        BY <1>2, <2>2
    <3> HIDE DEF e
    <3>2. s[e + 1] = s[e] + f[e + 1] /\ f[e + 1] \in Nat /\ s[e] \in Nat /\ s[a] \in Nat
        BY <1>4, <1>5, <3>1
    <3> QED BY <3>1, <3>2
  <2> HIDE DEF Good
  <2>3. Nat \subseteq Good
      BY <2>1, <2>2, SetInduction
  <2>4. b - a \in Good /\ a + (b - a) = b
      BY <1>2, <1>6, <2>3
  <2> QED BY <2>4 DEF Good
<1> QED BY <1>3, <1>4, <1>5, <1>6 DEF Summed, s, n

(* Of naturals, n times the sum of the squares is at least the square of   *)
(* the sum: the squares of y * v - z for the values v sum up to no less    *)
(* than 0, with y = n and z the sum.                                       *)
LEMMA SquaresOfDifferences ==
    ASSUME NEW n \in Nat, NEW f \in [1 .. n -> Nat], NEW s, Summed(s, f, n),
           NEW s2, Summed(s2, [k \in 1 .. n |-> f[k] * f[k]], n),
           NEW y \in Nat, NEW z \in Nat, NEW k \in 0 .. n
    PROVE  0 <= y * y * s2[k] - 2 * y * z * s[k] + k * z * z
<1> DEFINE Good == {m \in Nat : m <= n => 0 <= y * y * s2[m] - 2 * y * z * s[m] + m * z * z}
<1>1. 0 \in Good
  <2>1. s[0] = 0 /\ s2[0] = 0
      BY DEF Summed
  <2> QED BY <2>1
<1>2. ASSUME NEW m \in Nat, m \in Good PROVE m + 1 \in Good
  <2> SUFFICES ASSUME m + 1 <= n
               PROVE  0 <= y * y * s2[m + 1] - 2 * y * z * s[m + 1] + (m + 1) * z * z
      OBVIOUS
  <2> DEFINE v == f[m + 1]
             a == s2[m]
             b == s[m]
  <2>1. m \in 0 .. n - 1 /\ m \in 0 .. n /\ m + 1 \in 1 .. n
      OBVIOUS
  <2>2. v \in Nat /\ a \in Nat /\ b \in Nat /\ s[m + 1] = b + v /\ s2[m + 1] = a + v * v
      BY <2>1 DEF Summed
  <2>3. 0 <= y * y * a - 2 * y * z * b + m * z * z
      BY <1>2, <2>1
  <2> HIDE DEF v, a, b
  <2> DEFINE u == y * v - z
  <2>4. u \in Int
      BY <2>2
  <2>5. y * y * (a + v * v) - 2 * y * z * (b + v) + (m + 1) * z * z
            = (y * y * a - 2 * y * z * b + m * z * z) + u * u
      BY <2>2
  <2> HIDE DEF u
  <2>6. u * u >= 0
      BY <2>4
  <2>7. u * u \in Int /\ y * y * a - 2 * y * z * b + m * z * z \in Int
      BY <2>2, <2>4
  <2>8. 0 <= y * y * (a + v * v) - 2 * y * z * (b + v) + (m + 1) * z * z
      BY <2>3, <2>5, <2>6, <2>7
  <2> QED BY <2>2, <2>8
<1> HIDE DEF Good
<1>3. Nat \subseteq Good
    BY <1>1, <1>2, SetInduction
<1>4. k \in Good /\ k <= n
    BY <1>3
<1> QED BY <1>4 DEF Good

LEMMA VarianceIsNatural ==
    ASSUME NEW n \in Nat, NEW f \in [1 .. n -> Nat], NEW s, Summed(s, f, n),
           NEW s2, Summed(s2, [k \in 1 .. n |-> f[k] * f[k]], n)
    PROVE  s[n] * s[n] <= n * s2[n]
<1> DEFINE a == s2[n]
           b == s[n]
<1>1. a \in Nat /\ b \in Nat
    BY DEF Summed
<1>2. CASE n = 0
  <2>1. a = 0 /\ b = 0
      BY <1>2 DEF Summed
  <2> QED BY <1>2, <2>1
<1>3. CASE n # 0
  <2>1. 0 <= n * n * a - 2 * n * b * b + n * b * b
    <3>1. n \in 0 .. n
        OBVIOUS
    <3>2. 0 <= n * n * s2[n] - 2 * n * s[n] * s[n] + n * s[n] * s[n]
        BY <1>1, <3>1, SquaresOfDifferences
    <3> QED BY <3>2
  <2> HIDE DEF a, b
  <2> DEFINE d == n * a - b * b
  <2>2. n * n * a - 2 * n * b * b + n * b * b = n * d /\ d \in Int
      BY <1>1
  <2> HIDE DEF d
  <2>3. d >= 0
      BY <1>3, <2>1, <2>2
  <2>4. n * a - b * b >= 0 /\ n * a \in Int /\ b * b \in Int
      BY <1>1, <2>3 DEF d
  <2>5. b * b <= n * a
      BY <2>4
  <2> QED BY <2>5 DEF a, b
<1> QED BY <1>2, <1>3

Items == Seq([Stream -> Nat])

(* The sums of what the streams, and the products of two, have.            *)
LEMMA SumsOfItems ==
    ASSUME items \in Items
    PROVE  /\ Len(items) \in Nat
           /\ \A n \in 1 .. Len(items) : \A j \in Stream : items[n][j] \in Nat
           /\ \A j \in Stream :
                 /\ [n \in 1 .. Len(items) |-> items[n][j]] \in [1 .. Len(items) -> Nat]
                 /\ Summed(Sums(j), [n \in 1 .. Len(items) |-> items[n][j]], Len(items))
           /\ \A j, k \in Stream :
                 Summed(Sums2(j, k), [n \in 1 .. Len(items) |-> items[n][j] * items[n][k]],
                        Len(items))
<1> DEFINE n == Len(items)
<1>1. n \in Nat /\ \A m \in 1 .. n : items[m] \in [Stream -> Nat]
    BY DEF Items
<1>2. \A m \in 1 .. n : \A j \in Stream : items[m][j] \in Nat
    BY <1>1
<1>3. ASSUME NEW j \in Stream
      PROVE  /\ [m \in 1 .. n |-> items[m][j]] \in [1 .. n -> Nat]
             /\ Summed(Sums(j), [m \in 1 .. n |-> items[m][j]], n)
  <2> DEFINE f == [m \in 1 .. Len(items) |-> items[m][j]]
  <2>1. f \in [1 .. Len(items) -> Nat]
      BY <1>2
  <2>2. Sums(j) = SumsOf(f)
      BY DEF Sums
  <2> HIDE DEF f
  <2>3. Summed(SumsOf(f), f, Len(items))
      BY <1>1, <2>1, SumsAre
  <2> QED BY <2>1, <2>2, <2>3 DEF f
<1>4. ASSUME NEW j \in Stream, NEW k \in Stream
      PROVE  Summed(Sums2(j, k), [m \in 1 .. n |-> items[m][j] * items[m][k]], n)
  <2> DEFINE f == [m \in 1 .. Len(items) |-> items[m][j] * items[m][k]]
  <2>1. \A m \in 1 .. n : items[m][j] * items[m][k] \in Nat
      BY <1>2
  <2>2. f \in [1 .. Len(items) -> Nat]
      BY <2>1
  <2>3. Sums2(j, k) = SumsOf(f)
      BY DEF Sums2
  <2> HIDE DEF f
  <2>4. Summed(SumsOf(f), f, Len(items))
      BY <1>1, <2>2, SumsAre
  <2> QED BY <2>3, <2>4 DEF f
<1> QED BY <1>1, <1>2, <1>3, <1>4

(* A collector with the sums of the items after the a-th, up to the b-th.  *)
Holds(c, a, b) ==
    /\ c.elms = [j \in Stream |-> Sums(j)[b] - Sums(j)[a]]
    /\ c.sqrs = [j \in Stream |-> Sums2(j, j)[b] - Sums2(j, j)[a]]
    /\ c.prds = [p \in Pairs |-> Sums2(p[1], p[2])[b] - Sums2(p[1], p[2])[a]]

LEMMA NothingHeld ==
    ASSUME items \in Items, NEW a \in 0 .. Len(items)
    PROVE  /\ Holds(Clean, a, a)
           /\ \A c : \A b \in 0 .. Len(items) : Holds(c, b, b) => Holds(c, a, a)
<1>1. \A b \in 0 .. Len(items) :
          /\ \A j \in Stream : Sums(j)[b] - Sums(j)[b] = 0
          /\ \A j, k \in Stream : Sums2(j, k)[b] - Sums2(j, k)[b] = 0
    BY SumsOfItems DEF Summed
<1>2. \A p \in Pairs : p[1] \in Stream /\ p[2] \in Stream
    BY DEF Pairs
<1>3. ASSUME NEW b \in 0 .. Len(items), NEW c
      PROVE  Holds(c, b, b) <=>
                /\ c.elms = [j \in Stream |-> 0] /\ c.sqrs = [j \in Stream |-> 0]
                /\ c.prds = [p \in Pairs |-> 0]
  <2>1. [j \in Stream |-> Sums(j)[b] - Sums(j)[b]] = [j \in Stream |-> 0]
      BY <1>1
  <2>2. [j \in Stream |-> Sums2(j, j)[b] - Sums2(j, j)[b]] = [j \in Stream |-> 0]
      BY <1>1
  <2>3. [p \in Pairs |-> Sums2(p[1], p[2])[b] - Sums2(p[1], p[2])[b]] = [p \in Pairs |-> 0]
      BY <1>1, <1>2
  <2> QED BY <2>1, <2>2, <2>3 DEF Holds
<1> QED BY <1>3 DEF Clean

(* Numbers that are small enough are not wrapped.                          *)
LEMMA SmallNumber ==
    ASSUME NEW m \in Nat \ {0}, NEW x \in Nat, x < m
    PROVE  x % m = x
    OBVIOUS

LEMMA ItemHeld ==
    ASSUME items \in Items, Fits, NEW c, NEW a \in 0 .. Len(items),
           NEW b \in 0 .. Len(items) - 1, a <= b, Holds(c, a, b)
    PROVE  Holds(CollectItem(c, items[b + 1]), a, b + 1)
<1> DEFINE n == Len(items)
           x == items[b + 1]
           d == CollectItem(c, x)
<1>1. /\ n \in Nat /\ b + 1 \in 1 .. n /\ b \in 0 .. n /\ b + 1 \in 0 .. n
      /\ n \in 0 .. n /\ b <= b + 1 /\ b + 1 <= n
    BY SumsOfItems
<1>2. /\ ProductValues \in Nat \ {0} /\ AccValues \in Nat \ {0}
    BY CollectorsAssumption
<1>3. \A j \in Stream : x[j] \in Nat
    BY <1>1, SumsOfItems
(* The next sum is not too long.                                           *)
<1>4. ASSUME NEW s, NEW f, Summed(s, f, n), NEW v \in Nat, f[b + 1] = v, s[n] < AccValues
      PROVE  Acc((s[b] - s[a]) + v) = s[b + 1] - s[a]
  <2>1. /\ s[b + 1] = s[b] + v /\ s[a] <= s[b] /\ s[b + 1] <= s[n]
        /\ s[a] \in Nat /\ s[b] \in Nat /\ s[b + 1] \in Nat /\ s[n] \in Nat
      BY <1>1, <1>4 DEF Summed
  <2>2. (s[b] - s[a]) + v = s[b + 1] - s[a]
      BY <2>1
  <2>3. s[b + 1] - s[a] \in Nat /\ s[b + 1] - s[a] < AccValues
    <3> DEFINE low == s[a]
               high == s[b + 1]
               total == s[n]
    <3>1. /\ low \in Nat /\ high \in Nat /\ total \in Nat
          /\ low <= high /\ high <= total /\ total < AccValues
        BY <1>4, <2>1
    <3>2. AccValues \in Nat
        BY <1>2
    <3> HIDE DEF low, high, total
    <3>3. high - low \in Nat /\ high - low < AccValues
        BY ONLY <3>1, <3>2
    <3> QED BY <3>3 DEF low, high
  <2>4. Acc(s[b + 1] - s[a]) = s[b + 1] - s[a]
      BY ONLY <1>2, <2>3, SmallNumber DEF Acc
  <2> QED BY ONLY <2>2, <2>4
<1>5. ASSUME NEW j \in Stream, NEW k \in Stream
      PROVE  /\ Times(x[j], x[k]) = x[j] * x[k] /\ x[j] * x[k] \in Nat
             /\ Acc((Sums2(j, k)[b] - Sums2(j, k)[a]) + Times(x[j], x[k]))
                   = Sums2(j, k)[b + 1] - Sums2(j, k)[a]
  <2> DEFINE v == x[j] * x[k]
             f == [m \in 1 .. n |-> items[m][j] * items[m][k]]
             s == Sums2(j, k)
  <2>1. v \in Nat
      BY <1>3
  <2>2. v < ProductValues
    <3>1. b + 1 \in DOMAIN items
        BY <1>1 DEF Items
    <3> QED BY <3>1 DEF Fits
  <2>3. Times(x[j], x[k]) = v
      BY <1>2, <2>1, <2>2, SmallNumber DEF Times
  <2>4. Summed(s, f, n) /\ f[b + 1] = v /\ s[n] < AccValues
      BY <1>1, SumsOfItems DEF Fits, SumOf2
  <2> HIDE DEF v, f, s
  <2>5. Acc((s[b] - s[a]) + v) = s[b + 1] - s[a]
      BY <1>4, <2>1, <2>4
  <2> QED BY <2>1, <2>3, <2>5 DEF v, s
<1>6. ASSUME NEW j \in Stream
      PROVE  Acc((Sums(j)[b] - Sums(j)[a]) + x[j]) = Sums(j)[b + 1] - Sums(j)[a]
  <2> DEFINE f == [m \in 1 .. n |-> items[m][j]]
             s == Sums(j)
  <2>1. Summed(s, f, n) /\ f[b + 1] = x[j] /\ s[n] < AccValues
      BY <1>1, SumsOfItems DEF Fits, SumOf
  <2> HIDE DEF f, s
  <2>2. Acc((s[b] - s[a]) + x[j]) = s[b + 1] - s[a]
      BY <1>3, <1>4, <2>1
  <2> QED BY <2>2 DEF s
<1>7. /\ d.elms = [j \in Stream |-> Acc(c.elms[j] + x[j])]
      /\ d.sqrs = [j \in Stream |-> Acc(c.sqrs[j] + Times(x[j], x[j]))]
      /\ d.prds = [p \in Pairs |-> Acc(c.prds[p] + Times(x[p[1]], x[p[2]]))]
    BY DEF CollectItem
<1>8. \A p \in Pairs : p[1] \in Stream /\ p[2] \in Stream
    BY DEF Pairs
<1> HIDE DEF d, x
<1>9. d.elms = [j \in Stream |-> Sums(j)[b + 1] - Sums(j)[a]]
    BY <1>6, <1>7 DEF Holds
<1>10. d.sqrs = [j \in Stream |-> Sums2(j, j)[b + 1] - Sums2(j, j)[a]]
    BY <1>5, <1>7 DEF Holds
<1>11. d.prds = [p \in Pairs |-> Sums2(p[1], p[2])[b + 1] - Sums2(p[1], p[2])[a]]
    BY <1>5, <1>7, <1>8 DEF Holds
<1> QED BY <1>9, <1>10, <1>11 DEF Holds, d, x

LEMMA BothHeld ==
    ASSUME items \in Items, Fits, NEW c, NEW d, NEW m \in 0 .. Len(items),
           Holds(c, 0, m), Holds(d, m, Len(items))
    PROVE  Holds(Merged(c, d), 0, Len(items))
<1> DEFINE n == Len(items)
           e == Merged(c, d)
<1>1. n \in Nat /\ n \in 0 .. n /\ 0 \in 0 .. n /\ AccValues \in Nat \ {0}
    BY SumsOfItems, CollectorsAssumption
<1>2. ASSUME NEW s, NEW f, Summed(s, f, n), s[n] < AccValues
      PROVE  Acc((s[m] - s[0]) + (s[n] - s[m])) = s[n] - s[0]
  <2>1. s[0] = 0 /\ s[m] \in Nat /\ s[n] \in Nat
      BY <1>1, <1>2 DEF Summed
  <2>2. (s[m] - s[0]) + (s[n] - s[m]) = s[n] /\ s[n] - s[0] = s[n]
      BY <2>1
  <2> QED BY <1>1, <1>2, <2>1, <2>2, SmallNumber DEF Acc
<1>3. ASSUME NEW j \in Stream
      PROVE  Acc((Sums(j)[m] - Sums(j)[0]) + (Sums(j)[n] - Sums(j)[m]))
                = Sums(j)[n] - Sums(j)[0]
  <2>1. PICK f : Summed(Sums(j), f, n)
      BY SumsOfItems
  <2>2. Sums(j)[n] < AccValues
      BY DEF Fits, SumOf
  <2> QED BY <1>2, <2>1, <2>2
<1>4. ASSUME NEW j \in Stream, NEW k \in Stream
      PROVE  Acc((Sums2(j, k)[m] - Sums2(j, k)[0]) + (Sums2(j, k)[n] - Sums2(j, k)[m]))
                = Sums2(j, k)[n] - Sums2(j, k)[0]
  <2>1. PICK f : Summed(Sums2(j, k), f, n)
      BY SumsOfItems
  <2>2. Sums2(j, k)[n] < AccValues
      BY DEF Fits, SumOf2
  <2> QED BY <1>2, <2>1, <2>2
<1>5. /\ e.elms = [j \in Stream |-> Acc(c.elms[j] + d.elms[j])]
      /\ e.sqrs = [j \in Stream |-> Acc(c.sqrs[j] + d.sqrs[j])]
      /\ e.prds = [p \in Pairs |-> Acc(c.prds[p] + d.prds[p])]
    BY DEF Merged
<1>6. \A p \in Pairs : p[1] \in Stream /\ p[2] \in Stream
    BY DEF Pairs
<1> HIDE DEF e
<1>7. e.elms = [j \in Stream |-> Sums(j)[n] - Sums(j)[0]]
    BY <1>3, <1>5 DEF Holds
<1>8. e.sqrs = [j \in Stream |-> Sums2(j, j)[n] - Sums2(j, j)[0]]
    BY <1>4, <1>5 DEF Holds
<1>9. e.prds = [p \in Pairs |-> Sums2(p[1], p[2])[n] - Sums2(p[1], p[2])[0]]
    BY <1>4, <1>5, <1>6 DEF Holds
<1> QED BY <1>7, <1>8, <1>9 DEF Holds, e

(* The collectors have the sums of what was collected before and after the *)
(* split, and the first one those of all items when they are merged.       *)
CollectorsInv ==
    /\ items \in Items /\ split \in 0 .. Len(items) /\ collected \in 0 .. Len(items)
    /\ stage \in {"collect", "coefficients"}
    /\ stage = "coefficients" => collected = Len(items)
    /\ Fits =>
          /\ stage = "collect" =>
                /\ collected <= split => Holds(first, 0, collected) /\ Holds(second, 0, 0)
                /\ collected >= split => Holds(first, 0, split) /\ Holds(second, split, collected)
          /\ stage = "coefficients" => Holds(first, 0, Len(items))

LEMMA InitCollectorsInv == CollectorsInit => CollectorsInv
<1> SUFFICES ASSUME CollectorsInit PROVE CollectorsInv
    OBVIOUS
<1>1. items \in Items
    BY CollectorsAssumption DEF CollectorsInit, Items, Stream
<1>2. Len(items) \in Nat
    BY <1>1 DEF Items
<1>3. Holds(Clean, 0, 0)
    BY <1>1, <1>2, NothingHeld
<1> QED BY <1>1, <1>2, <1>3 DEF CollectorsInit, CollectorsInv

LEMMA StepCollectorsInv ==
    CollectorsInv /\ [CollectorsNext]_collectorVars => CollectorsInv'
<1> SUFFICES ASSUME CollectorsInv, [CollectorsNext]_collectorVars PROVE CollectorsInv'
    OBVIOUS
<1>1. /\ items \in Items /\ Len(items) \in Nat
      /\ split \in 0 .. Len(items) /\ collected \in 0 .. Len(items)
    BY SumsOfItems DEF CollectorsInv
<1>2. items' = items /\ split' = split
    BY DEF CollectorsNext, Collect, Merge, collectorVars
<1>3. /\ Fits' = Fits /\ \A c, a, b : Holds(c, a, b)' = Holds(c, a, b)
    BY <1>2 DEF Fits, Holds, Sums, Sums2, SumsOf, SumOf, SumOf2
<1>4. CASE Collect
  <2> DEFINE x == items[collected + 1]
             k == collected
  <2>1. /\ stage = "collect" /\ stage' = stage /\ k < Len(items) /\ collected' = k + 1
        /\ k \in 0 .. Len(items) - 1 /\ k \in 0 .. Len(items) /\ k + 1 \in 0 .. Len(items)
      BY <1>1, <1>4 DEF Collect
  <2>2. ASSUME Fits, NEW c, NEW a \in 0 .. Len(items), a <= k, Holds(c, a, k)
        PROVE  Holds(CollectItem(c, x), a, k + 1)
      BY <1>1, <2>1, <2>2, ItemHeld
  <2>3. CASE k < split
    <3>1. first' = CollectItem(first, x) /\ second' = second
        BY <1>4, <2>3 DEF Collect
    <3>2. /\ k + 1 <= split /\ ~(k + 1 > split) /\ k <= split /\ 0 \in 0 .. Len(items) /\ 0 <= k
          /\ k + 1 >= split => k + 1 = split
        BY <1>1, <2>3
    <3>3. ASSUME Fits
          PROVE  /\ Holds(first', 0, k + 1) /\ Holds(second', 0, 0)
                 /\ Holds(second', k + 1, k + 1)
      <4>1. Holds(first, 0, k) /\ Holds(second, 0, 0)
          BY <2>1, <3>2, <3>3 DEF CollectorsInv
      <4>2. Holds(CollectItem(first, x), 0, k + 1)
          BY <2>2, <3>2, <3>3, <4>1
      <4>3. Holds(second, k + 1, k + 1)
          BY <1>1, <2>1, <3>2, <4>1, NothingHeld
      <4> QED BY <3>1, <4>1, <4>2, <4>3
    <3>4. Fits => /\ collected' <= split => Holds(first', 0, collected') /\ Holds(second', 0, 0)
                  /\ collected' >= split =>
                        Holds(first', 0, split) /\ Holds(second', split, collected')
        BY <2>1, <3>2, <3>3
    <3> HIDE DEF x, k
    <3> QED BY <1>1, <1>2, <1>3, <2>1, <3>4 DEF CollectorsInv
  <2>4. CASE ~(k < split)
    <3>1. first' = first /\ second' = CollectItem(second, x)
        BY <1>4, <2>4 DEF Collect
    <3>2. k >= split /\ split <= k /\ ~(k + 1 <= split)
        BY <1>1, <2>4
    <3>3. ASSUME Fits
          PROVE  Holds(first', 0, split) /\ Holds(second', split, k + 1)
      <4>1. Holds(first, 0, split) /\ Holds(second, split, k)
          BY <2>1, <3>2, <3>3 DEF CollectorsInv
      <4>2. Holds(CollectItem(second, x), split, k + 1)
          BY <1>1, <2>2, <3>2, <3>3, <4>1
      <4> QED BY <3>1, <4>1, <4>2
    <3>4. Fits => /\ collected' <= split => Holds(first', 0, collected') /\ Holds(second', 0, 0)
                  /\ collected' >= split =>
                        Holds(first', 0, split) /\ Holds(second', split, collected')
        BY <2>1, <3>2, <3>3
    <3> HIDE DEF x, k
    <3> QED BY <1>1, <1>2, <1>3, <2>1, <3>4 DEF CollectorsInv
  <2> QED BY <2>3, <2>4
<1>5. CASE Merge
  <2>1. /\ stage = "collect" /\ stage' = "coefficients" /\ collected = Len(items)
        /\ collected' = collected /\ first' = Merged(first, second)
      BY <1>5 DEF Merge
  <2>2. Fits => Holds(first', 0, Len(items))
    <3>1. SUFFICES ASSUME Fits PROVE Holds(Merged(first, second), 0, Len(items))
        BY <2>1
    <3>2. Holds(first, 0, split) /\ Holds(second, split, Len(items))
        BY <1>1, <2>1, <3>1 DEF CollectorsInv
    <3> QED BY <1>1, <3>1, <3>2, BothHeld
  <2> QED BY <1>1, <1>2, <1>3, <2>1, <2>2 DEF CollectorsInv
<1>6. CASE UNCHANGED collectorVars
    BY <1>2, <1>3, <1>6 DEF collectorVars, CollectorsInv
<1> QED BY <1>4, <1>5, <1>6 DEF CollectorsNext

LEMMA WrappedDifference ==
    ASSUME NEW m \in Nat \ {0}, NEW x \in Int, x < m, -m <= x
    PROVE  x % m = IF x >= 0 THEN x ELSE x + m
    OBVIOUS

(* What fits is exact: a variance is natural and small, a covariance small *)
(* either way.                                                             *)
LEMMA ExactIsSmall ==
    ASSUME items \in Items, Fits, NEW j \in Stream, NEW k \in Stream
    PROVE  /\ Exact(j, j) \in Nat /\ Exact(j, j) < WideValues
           /\ Exact(j, k) \in Int /\ Exact(j, k) < WideValues /\ -WideValues <= Exact(j, k)
<1> DEFINE n == Len(items)
           W == WideValues
<1>1. n \in Nat /\ n \in 0 .. n /\ W \in Nat \ {0}
    BY SumsOfItems, CollectorsAssumption
<1>2. ASSUME NEW i \in Stream
      PROVE  /\ SumOf(i) \in Nat /\ SumOf2(i, i) \in Nat
             /\ SumOf(i) * SumOf(i) <= n * SumOf2(i, i) /\ n * SumOf2(i, i) < W
  <2> DEFINE f == [m \in 1 .. n |-> items[m][i]]
  <2>1. f \in [1 .. n -> Nat] /\ Summed(Sums(i), f, n)
      BY SumsOfItems
  <2>2. Summed(Sums2(i, i), [m \in 1 .. n |-> f[m] * f[m]], n)
    <3>1. [m \in 1 .. n |-> f[m] * f[m]] = [m \in 1 .. n |-> items[m][i] * items[m][i]]
        OBVIOUS
    <3>2. Summed(Sums2(i, i), [m \in 1 .. n |-> items[m][i] * items[m][i]], n)
        BY SumsOfItems
    <3> HIDE DEF f
    <3> QED BY <3>1, <3>2
  <2> HIDE DEF f
  <2>3. SumOf(i) * SumOf(i) <= n * SumOf2(i, i)
      BY <1>1, <2>1, <2>2, VarianceIsNatural DEF SumOf, SumOf2
  <2>4. SumOf(i) \in Nat /\ SumOf2(i, i) \in Nat
      BY <1>1, <2>1, <2>2 DEF Summed, SumOf, SumOf2
  <2> QED BY <2>3, <2>4 DEF Fits
<1>3. SumOf2(j, k) \in Nat /\ n * SumOf2(j, k) < W
    BY <1>1, SumsOfItems DEF Summed, SumOf2, Fits
<1> DEFINE a == SumOf(j)
           b == SumOf(k)
           aa == n * SumOf2(j, j)
           bb == n * SumOf2(k, k)
           ab == n * SumOf2(j, k)
<1>4. /\ a \in Nat /\ b \in Nat /\ a * a <= aa /\ b * b <= bb /\ aa < W /\ bb < W /\ ab < W
      /\ aa \in Nat /\ bb \in Nat /\ ab \in Nat
    BY <1>1, <1>2, <1>3
<1>5. Exact(j, j) = aa - a * a /\ Exact(j, k) = ab - a * b
    BY DEF Exact
<1> HIDE DEF a, b, aa, bb, ab, n, W
<1>6. a * b \in Nat /\ a * a \in Nat /\ b * b \in Nat
    BY <1>4
<1>7. a * b < W
  <2>1. (a - b) * (a - b) >= 0
      BY <1>4
  <2>2. (a - b) * (a - b) = a * a - 2 * (a * b) + b * b
      BY <1>4
  <2> QED BY <1>1, <1>4, <1>6, <2>1, <2>2
<1>8. /\ aa - a * a \in Nat /\ aa - a * a < W
      /\ ab - a * b \in Int /\ ab - a * b < W /\ -W <= ab - a * b
    BY <1>1, <1>4, <1>6, <1>7
<1> QED BY <1>5, <1>8 DEF W

(* What the coefficients are computed from is exact, however the items are *)
(* split between two collectors and however wide the words are, as long as *)
(* nothing, the products of two sums included, is too long for its word:   *)
(* the variances, and the covariance, plus the number of values of the     *)
(* widest word when it is negative.                                        *)
THEOREM CollectorsAreExact == CollectorsSpec => []CovarianceUpToItsSign
<1>1. CollectorsInv => CovarianceUpToItsSign
  <2> SUFFICES ASSUME CollectorsInv, stage = "coefficients", Fits, NEW p \in Pairs
               PROVE  /\ Numerator(first, Len(items), p) =
                             IF Exact(p[1], p[2]) >= 0 THEN Exact(p[1], p[2])
                             ELSE Exact(p[1], p[2]) + WideValues
                      /\ \A j \in {p[1], p[2]} :
                             Denominator(first, Len(items), j) = Exact(j, j)
      BY DEF CovarianceUpToItsSign
  <2>1. items \in Items /\ Holds(first, 0, Len(items))
      BY DEF CollectorsInv
  <2>2. p[1] \in Stream /\ p[2] \in Stream /\ WideValues \in Nat \ {0}
      BY CollectorsAssumption DEF Pairs
  <2>3. /\ \A j \in Stream : Sums(j)[0] = 0 /\ Sums(j)[Len(items)] \in Nat
        /\ \A j, k \in Stream : Sums2(j, k)[0] = 0 /\ Sums2(j, k)[Len(items)] \in Nat
      BY <2>1, SumsOfItems DEF Summed
  <2>4. /\ \A j \in Stream : first.elms[j] = SumOf(j) /\ first.sqrs[j] = SumOf2(j, j)
        /\ first.prds[p] = SumOf2(p[1], p[2])
    <3>1. \A j \in Stream : first.elms[j] = SumOf(j)
        BY <2>1, <2>3 DEF Holds, SumOf
    <3>2. \A j \in Stream : first.sqrs[j] = SumOf2(j, j)
        BY <2>1, <2>3 DEF Holds, SumOf2
    <3>3. first.prds[p] = SumOf2(p[1], p[2])
        BY <2>1, <2>2, <2>3 DEF Holds, SumOf2
    <3> QED BY <3>1, <3>2, <3>3
  <2>9. ASSUME NEW i \in Stream, NEW j \in Stream
        PROVE  SumTimesSum(first, i, j) = SumOf(i) * SumOf(j)
    <3>1. SumOf(i) * SumOf(j) \in Nat /\ SumOf(i) * SumOf(j) < AccValues
        BY <2>3 DEF Fits, SumOf
    <3>2. AccValues \in Nat \ {0}
        BY CollectorsAssumption
    <3>3. Acc(SumOf(i) * SumOf(j)) = SumOf(i) * SumOf(j)
        BY ONLY <3>1, <3>2, SmallNumber DEF Acc
    <3> QED BY <2>4, <3>3 DEF SumTimesSum
  <2>5. Numerator(first, Len(items), p) = Exact(p[1], p[2]) % WideValues
      BY <2>2, <2>4, <2>9 DEF Numerator, Exact
  <2>6. \A j \in Stream : Denominator(first, Len(items), j) = Exact(j, j) % WideValues
      BY <2>4, <2>9 DEF Denominator, Exact
  <2>7. \A j \in Stream : Exact(j, j) % WideValues = Exact(j, j)
      BY <2>1, <2>2, ExactIsSmall, SmallNumber
  <2>8. Exact(p[1], p[2]) % WideValues =
            IF Exact(p[1], p[2]) >= 0 THEN Exact(p[1], p[2]) ELSE Exact(p[1], p[2]) + WideValues
      BY <2>1, <2>2, ExactIsSmall, WrappedDifference
  <2> QED BY <2>2, <2>5, <2>6, <2>7, <2>8
<1> QED BY <1>1, InitCollectorsInv, StepCollectorsInv, PTL DEF CollectorsSpec
=============================================================================
