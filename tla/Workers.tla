------------------------------- MODULE Workers -------------------------------
(***************************************************************************)
(* The programs that add up the blocks of an input by several threads:     *)
(*   amnes_bench      baselines/cpp, a collector for each thread,          *)
(*   ss_eigenlib_th   baselines/outer_lib, a matrix for each thread,       *)
(*   server           coyote_integration/host_rdma with CORR_SW, whose     *)
(*                    chunks arrive while the threads are at work, part by *)
(*                    part as they are copied: the first is the word that  *)
(*                    announces data, the last the word that is polled.    *)
(* In each repetition the threads are started, joined, and their partial   *)
(* results merged.  A result is the sequence of the blocks added up, each  *)
(* with the repetition its parts were received in; what is in memory from  *)
(* the start counts as received in repetition 1.                           *)
(***************************************************************************)
EXTENDS Integers, SequencesExt

CONSTANTS Programs, BlockCounts, ThreadCounts, MaxReps, Parts

ASSUME WorkersAssumption ==
    /\ Programs \subseteq {"amnes_bench", "ss_eigenlib_th", "server"}
    /\ BlockCounts \subseteq Nat \ {0} /\ ThreadCounts \subseteq Nat
    /\ MaxReps \in Nat \ {0} /\ Parts \in Nat \ {0, 1}

VARIABLES
    program, num_blocks, num_threads,   \* fixed at the start
    r, pc, spawned, overall,            \* main; spawned threads are 0 .. spawned - 1
    at, collectors,                     \* blocks a thread is through with; partial results
    reading, copy,                      \* server: part to copy next, 0 while polling; M1_th
    memory, received, landing           \* server: repetition each part is of; chunks landed,
                                        \* and parts of the one that is landing

chosen     == <<program, num_blocks, num_threads>>
mainVars   == <<r, pc, spawned, overall>>
threadVars == <<at, collectors, reading, copy>>
memoryVars == <<memory, received, landing>>
workerVars == <<chosen, mainVars, threadVars, memoryVars>>

Lesser(a, b) == IF a < b THEN a ELSE b
Threads  == 0 .. num_threads - 1
Blocks   == 0 .. num_blocks - 1
OnServer == program = "server"

Part == 1 .. Parts
AllOf(rep) == [k \in Part |-> rep]

WorkersInit ==
    /\ program \in Programs /\ num_blocks \in BlockCounts
    /\ num_threads \in IF OnServer THEN ThreadCounts
                       ELSE {Lesser(num_blocks, n) : n \in ThreadCounts}
    /\ r = 0 /\ pc = "spawn" /\ spawned = 0
    /\ at = [t \in Threads |-> 0] /\ collectors = [t \in Threads |-> << >>]
    /\ overall = << >>
    /\ reading = [t \in Threads |-> 0] /\ copy = [t \in Threads |-> AllOf(0)]
    /\ memory = [b \in Blocks |-> AllOf(IF OnServer THEN 0 ELSE 1)]
    /\ received = 0 /\ landing = 0

(* (Operators named "Bug..." are deliberate slips that model checking has  *)
(* to catch when they stand in for the operator after them.)               *)
BugRemainderDropped(i) == i * (num_blocks \div num_threads)
Offset(i) == (i * num_blocks) \div num_threads

(* The blocks of a thread, in order: a stretch of them, or, on the server, *)
(* every num_threads-th chunk, as many as all threads can have.            *)
Share(i) ==
    IF OnServer
    THEN [n \in 1 .. num_blocks \div num_threads |-> (n - 1) * num_threads + i]
    ELSE [n \in 1 .. Offset(i + 1) - Offset(i) |-> Offset(i) + n - 1]

(* A block as it is in memory.                                             *)
Content(b) == <<b, memory[b]>>
-----------------------------------------------------------------------------
Spawn ==
    /\ pc = "spawn" /\ spawned < num_threads
    /\ spawned' = spawned + 1
    /\ UNCHANGED <<chosen, r, pc, overall, threadVars, memoryVars>>

Working(t) == t < spawned /\ at[t] < Len(Share(t))
NextBlock(t) == Share(t)[at[t] + 1]

AddUp(t, x) ==
    /\ at' = [at EXCEPT ![t] = @ + 1]
    /\ collectors' = [collectors EXCEPT ![t] = Append(@, x)]

(* amnes_bench collects a block item by item; ss_eigenlib_th assigns the   *)
(* product of its whole share to its matrix.                               *)
CollectBlock(t) ==
    /\ program = "amnes_bench"
    /\ AddUp(t, Content(NextBlock(t)))
    /\ UNCHANGED <<reading, copy>>
MatrixProduct(t) ==
    /\ program = "ss_eigenlib_th"
    /\ at' = [at EXCEPT ![t] = Len(Share(t))]
    /\ collectors' = [collectors EXCEPT ![t] = [n \in DOMAIN Share(t) |-> Content(Share(t)[n])]]
    /\ UNCHANGED <<reading, copy>>

(* The server waits until the last word of the chunk is not 0, then copies *)
(* the chunk, while memory may be written, and adds up the copy.           *)
BugDoesNotWait(b) == TRUE
BugFirstWordOfNext(b) == b + 1 \in Blocks /\ memory[b + 1][1] # 0
LastWordSet(b) == memory[b][Parts] # 0
PollChunk(t) ==
    /\ OnServer /\ reading[t] = 0 /\ LastWordSet(NextBlock(t))
    /\ reading' = [reading EXCEPT ![t] = 1]
    /\ UNCHANGED <<at, collectors, copy>>
CopyPart(t) ==
    LET k == reading[t]
        M1_th == [copy[t] EXCEPT ![k] = memory[NextBlock(t)][k]]
    IN  /\ OnServer /\ k # 0
        /\ reading' = [reading EXCEPT ![t] = (k + 1) % (Parts + 1)]
        /\ IF k = Parts
           THEN AddUp(t, <<NextBlock(t), M1_th>>) /\ copy' = [copy EXCEPT ![t] = AllOf(0)]
           ELSE copy' = [copy EXCEPT ![t] = M1_th] /\ UNCHANGED <<at, collectors>>

Work(t) ==
    /\ Working(t)
    /\ CollectBlock(t) \/ MatrixProduct(t) \/ PollChunk(t) \/ CopyPart(t)
    /\ UNCHANGED <<chosen, mainVars, memoryVars>>

(* The server's main thread polls the first word, then counts completions. *)
Started ==
    /\ pc = "spawn" /\ spawned = num_threads
    /\ OnServer => memory[0][1] # 0 /\ received = num_blocks
    /\ pc' = "join"
    /\ UNCHANGED <<chosen, r, spawned, overall, threadVars, memoryVars>>

AllJoined == \A t \in Threads : at[t] = Len(Share(t))
JoinAndMerge ==
    /\ pc = "join" /\ AllJoined
    /\ overall' = overall \o FlattenSeq([i \in 1 .. num_threads |-> collectors[i - 1]])
    /\ pc' = "coefficients"
    /\ UNCHANGED <<chosen, r, spawned, threadVars, memoryVars>>

(* The results are cleared, though not the matrices that will be assigned  *)
(* to; and on the server, after ibvClear and ibvSync, the first word.      *)
BugKeepsPartial == collectors
Cleaned == IF program = "ss_eigenlib_th" THEN collectors ELSE [t \in Threads |-> << >>]
NextRepetition ==
    /\ r' = r + 1 /\ pc' = IF r' = MaxReps THEN "end" ELSE "spawn"
    /\ spawned' = 0 /\ at' = [t \in Threads |-> 0]
    /\ collectors' = Cleaned /\ overall' = << >>
    /\ UNCHANGED <<chosen, reading, copy>>
Finish ==
    /\ pc = "coefficients" /\ ~OnServer
    /\ NextRepetition /\ UNCHANGED memoryVars
Sync ==
    /\ pc = "coefficients" /\ OnServer
    /\ pc' = "synced" /\ received' = 0
    /\ UNCHANGED <<chosen, r, spawned, overall, threadVars, memory, landing>>
Erase ==
    /\ pc = "synced"
    /\ memory' = [memory EXCEPT ![0][1] = 0]
    /\ NextRepetition /\ UNCHANGED <<received, landing>>

(* The transfers of the master land in order, each from its first word to  *)
(* its last, once both are past the sync.                                  *)
Sending == IF pc = "synced" THEN r + 2 ELSE r + 1
LandPart ==
    /\ OnServer /\ pc \notin {"coefficients", "end"}
    /\ received < num_blocks /\ Sending <= MaxReps
    /\ memory' = [memory EXCEPT ![received][landing + 1] = Sending]
    /\ landing' = (landing + 1) % Parts
    /\ received' = IF landing' = 0 THEN received + 1 ELSE received
    /\ UNCHANGED <<chosen, mainVars, threadVars>>

Main == Spawn \/ Started \/ JoinAndMerge \/ Finish \/ Sync \/ Erase
WorkersNext == Main \/ LandPart \/ \E t \in Threads : Work(t)
WorkersSpec == WorkersInit /\ [][WorkersNext]_workerVars
-----------------------------------------------------------------------------
(* The blocks a repetition should add up: all of them, by one thread at    *)
(* least; on the server, those of the rounds in which every thread has one *)
(* (host_rdma/correlation.hpp:39: the others are left out).                *)
Covered ==
    IF num_threads = 0 THEN {}
    ELSE IF OnServer THEN 0 .. (num_blocks \div num_threads) * num_threads - 1 ELSE Blocks

(* When the coefficients are computed, each block has been added up once,  *)
(* whatever the threads' order: none twice, none left over from the        *)
(* repetition before, none missed, and on the server none before it had    *)
(* ever been received.                                                     *)
EveryBlockOnce ==
    pc = "coefficients" =>
        /\ Len(overall) = Cardinality(Covered)
        /\ {overall[n][1] : n \in DOMAIN overall} = Covered
        /\ r = 0 => \A n \in DOMAIN overall : overall[n][2] = AllOf(1)

(* Nobody clears the words the server's threads poll                       *)
(* (host_rdma/correlation.hpp:52), and a chunk may land while it is copied *)
(* (:58): every part of what they add up is of this repetition or of the   *)
(* one before, and one chunk may have parts of both; but none is older,    *)
(* and none of a repetition to come.  Only the first word of chunk 0 may   *)
(* be missing, erased (host_rdma/main.cpp:393) for this repetition.        *)
AtMostOneRepetitionOld ==
    OnServer =>
        \A t \in Threads : \A n \in DOMAIN collectors[t] : \A k \in Part :
            LET b == collectors[t][n][1]  rep == collectors[t][n][2][k] IN
            \/ rep \in {r, r + 1} \ {0}
            \/ b = 0 /\ k = 1 /\ rep = 0 /\ r > 0

(* Every repetition ends; on the server, unless its first word is erased   *)
(* when it had landed already.                                             *)
AnnouncementErased == OnServer /\ memory[0][1] = 0 /\ (received > 0 \/ landing > 0)
WorkersEnded == pc = "end" \/ AnnouncementErased
=============================================================================
