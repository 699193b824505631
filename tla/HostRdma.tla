------------------------------- MODULE HostRdma -------------------------------
(***************************************************************************)
(* The measurement loop of coyote_integration/host_rdma/main.cpp with      *)
(* CORR_FPGA, writing (oper): a master posts the transfers of a batch, a   *)
(* server polls its memory for the first word of the data, waits for the   *)
(* completions, polls for the final word of the results, and both meet in  *)
(* ibvSync.  Network, kernel and DMA engine are external: transfers land   *)
(* in the order they are posted, and a whole batch is answered later on.   *)
(* A word of memory stands for the repetition whose data or results are in *)
(* it, and is 0 when the word is.                                          *)
(***************************************************************************)
EXTENDS Integers, Sequences

CONSTANTS
    Reps,       \* n_reps
    Transfers   \* n_transfers of a repetition

ASSUME HostAssumption == Reps \in Nat \ {0} /\ Transfers \in Nat \ {0}

VARIABLES
    master, rep_m, posted,  \* what the master does, in which repetition
    server, rep_s,          \* and the server
    stalled,                \* SIGINT came to the server
    wire,                   \* transfers posted and not landed
    landed,                 \* transfers landed in all
    done,                   \* ibvDone() of the server
    ptrMem,                 \* the first word of the data
    lastRst,                \* the final word of the results
    due                     \* batches landed and not yet answered

vars == <<master, rep_m, posted, server, rep_s, stalled,
          wire, landed, done, ptrMem, lastRst, due>>

(* After the two ibvSync before the loops; the server's words are cleared. *)
Init ==
    /\ master = "post" /\ rep_m = 1 /\ posted = 0
    /\ server = "start" /\ rep_s = 1 /\ stalled = FALSE
    /\ wire = << >> /\ landed = 0 /\ done = 0
    /\ ptrMem = 0 /\ lastRst = 0 /\ due = << >>
-----------------------------------------------------------------------------
(* The master posts a repetition's transfers, and does not wait for them   *)
(* to complete: that loop is commented out.                                *)
Post ==
    /\ master = "post" /\ posted < Transfers
    /\ posted' = posted + 1
    /\ wire' = Append(wire, rep_m)
    /\ UNCHANGED <<master, rep_m, server, rep_s, stalled, landed, done, ptrMem,
                   lastRst, due>>

(* Its ibvClear concerns its own completions only. *)
PostedAll ==
    /\ master = "post" /\ posted = Transfers
    /\ master' = "sync" /\ posted' = 0
    /\ UNCHANGED <<rep_m, server, rep_s, stalled, wire, landed, done, ptrMem,
                   lastRst, due>>

(* The server's polls and waits. *)
(* (An operator named "Bug..." is a deliberate slip that model checking    *)
(* has to catch when it stands in for the operator after it.)              *)
BugWaitsForOneMore == done > Transfers
AllDone == done >= Transfers

PollData ==
    /\ server = "start" /\ ptrMem # 0
    /\ server' = "wait"
    /\ UNCHANGED <<master, rep_m, posted, rep_s, stalled, wire, landed, done,
                   ptrMem, lastRst, due>>

WaitDone ==
    /\ server = "wait"
    /\ \/ AllDone /\ server' = "result"
       \/ ~AllDone /\ stalled /\ server' = "thrown"
    /\ UNCHANGED <<master, rep_m, posted, rep_s, stalled, wire, landed, done,
                   ptrMem, lastRst, due>>

PollResult ==
    /\ server = "result" /\ lastRst # 0
    /\ server' = "clear"
    /\ UNCHANGED <<master, rep_m, posted, rep_s, stalled, wire, landed, done,
                   ptrMem, lastRst, due>>

BugKeepsCompletions ==
    /\ server = "clear" /\ server' = "sync"
    /\ UNCHANGED <<master, rep_m, posted, rep_s, stalled, wire, landed, done,
                   ptrMem, lastRst, due>>
Clear ==
    /\ server = "clear"
    /\ done' = 0 /\ server' = "sync"
    /\ UNCHANGED <<master, rep_m, posted, rep_s, stalled, wire, landed, ptrMem,
                   lastRst, due>>

(* External: ibvSync lets both go on when both have come to it. *)
BugMasterRunsAhead == master = "sync"
BothAtSync == master = "sync" /\ server = "sync"

Sync ==
    /\ BothAtSync
    /\ IF rep_m < Reps THEN rep_m' = rep_m + 1 /\ master' = "post"
                       ELSE rep_m' = rep_m /\ master' = "end"
    /\ server' = IF server = "sync" THEN "erase" ELSE server
    /\ UNCHANGED <<posted, rep_s, stalled, wire, landed, done, ptrMem, lastRst, due>>

(* Only then the server clears the word that announces data. *)
Erase ==
    /\ server = "erase"
    /\ ptrMem' = 0
    /\ IF rep_s < Reps THEN rep_s' = rep_s + 1 /\ server' = "start"
                       ELSE rep_s' = rep_s /\ server' = "end"
    /\ UNCHANGED <<master, rep_m, posted, stalled, wire, landed, done, lastRst, due>>

Interrupt ==
    /\ ~stalled /\ stalled' = TRUE
    /\ UNCHANGED <<master, rep_m, posted, server, rep_s, wire, landed, done,
                   ptrMem, lastRst, due>>
-----------------------------------------------------------------------------
(* External: a transfer lands; the first of a batch brings the first word, *)
(* the final one makes the kernel answer it.                               *)
Land ==
    /\ wire # << >>
    /\ wire' = Tail(wire) /\ landed' = landed + 1 /\ done' = done + 1
    /\ ptrMem' = IF landed % Transfers = 0 THEN Head(wire) ELSE ptrMem
    /\ due' = IF landed' % Transfers = 0 THEN Append(due, Head(wire)) ELSE due
    /\ UNCHANGED <<master, rep_m, posted, server, rep_s, stalled, lastRst>>

(* External: the results are written.  Their final coefficient may be 0.0. *)
WriteResult ==
    /\ due # << >>
    /\ due' = Tail(due)
    /\ lastRst' \in {Head(due), 0}
    /\ UNCHANGED <<master, rep_m, posted, server, rep_s, stalled, wire, landed,
                   done, ptrMem>>

(* A loop whose condition holds goes round, for ever if nothing comes to   *)
(* end it; and a program that has returned or thrown is over.              *)
Poll ==
    /\ \/ server = "start" /\ ptrMem = 0
       \/ server = "wait" /\ ~AllDone /\ ~stalled
       \/ server = "result" /\ lastRst = 0
    /\ UNCHANGED vars

Over ==
    /\ server \in {"end", "thrown"} /\ master \in {"sync", "end"}
    /\ UNCHANGED vars

Master == Post \/ PostedAll
Server == PollData \/ WaitDone \/ PollResult \/ Clear \/ Erase
Next == Master \/ Server \/ Sync \/ Interrupt \/ Land \/ WriteResult
             \/ Poll \/ Over

Spec == Init /\ [][Next]_vars
FairSpec == Spec /\ WF_vars(Master) /\ WF_vars(Server) /\ WF_vars(Sync)
                 /\ WF_vars(Land) /\ WF_vars(WriteResult)
-----------------------------------------------------------------------------
(* Types of the variables. *)
HostTypeOK ==
    /\ master \in {"post", "sync", "end"}
    /\ server \in {"start", "wait", "result", "clear", "sync", "erase", "end", "thrown"}
    /\ rep_m \in 1 .. Reps /\ rep_s \in 1 .. Reps /\ posted \in 0 .. Transfers
    /\ stalled \in BOOLEAN /\ done \in 0 .. Transfers
    /\ wire \in Seq(1 .. Reps) /\ due \in Seq(1 .. Reps)
    /\ landed \in 0 .. Reps * Transfers
    /\ ptrMem \in 0 .. Reps /\ lastRst \in 0 .. Reps

(* main.cpp:338 waits for this repetition's transfers and no others: when  *)
(* the server goes on to the results, the batch is there as a whole.       *)
WholeBatchHasLanded ==
    server \in {"result", "clear", "sync", "erase", "end"} => landed >= rep_s * Transfers

(* The transfers of a repetition are never in flight, nor their first word *)
(* in memory, while the server is busy with an earlier one: it has at most *)
(* to erase the announcement.                                              *)
DataWaitsForTheServer ==
    \A r \in {ptrMem} \cup {wire[i] : i \in 1 .. Len(wire)} :
        r <= rep_s \/ (r = rep_s + 1 /\ server = "erase")

(* What can go wrong: an announcement of the next repetition is erased, or *)
(* the final coefficient is 0.0.                                           *)
AnnouncementErased == server = "start" /\ ptrMem = 0 /\ landed > (rep_s - 1) * Transfers
ZeroAwaited == server = "result" /\ lastRst = 0 /\ wire = << >> /\ due = << >>

(* All repetitions come to their end, if none of that happens.             *)
RepetitionsEnd ==
    <>(server = "end" \/ stalled \/ AnnouncementErased \/ ZeroAwaited)

(* Each repetition of the server is over when the results of that          *)
(* repetition are there.  (host/main.cpp:227 "Reset result data", at the   *)
(* start of each repetition, is what this program does only once.)         *)
ServerTakesItsOwnResults ==
    [][server = "result" /\ server' = "clear" => lastRst = rep_s]_vars
=============================================================================
