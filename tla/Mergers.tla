------------------------------- MODULE Mergers -------------------------------
(***************************************************************************)
(* The functions of hls/axi_utils.hpp and hls/stream.hpp that split one    *)
(* stream into two or make one of two.  A splitter and a merger are set up *)
(* between a source and a sink; one step is one invocation of either:      *)
(*                                                                         *)
(*   source, dests -> splitter -> input[0], input[1] -> merger -> merged   *)
(*                                origins ------------>                    *)
(***************************************************************************)
EXTENDS Integers, SequencesExt

CONSTANTS
    Mergings,     \* the mergers to be set up, of those listed in MergerKinds
    PackageJobs,  \* sequences of [dest, length], what may be sent
    MergeDepth    \* words a stream holds

MergerKinds == {"stream_pkg_merger", "stream_merger_origin", "stream_merger",
                "fair_merger", "fair_pkg_merger", "concat", "interleave", "stream_fold"}

ASSUME MergerAssumption ==
    /\ Mergings \subseteq MergerKinds /\ MergeDepth \in Nat \ {0}
    /\ PackageJobs \subseteq Seq([dest : {0, 1}, length : Nat \ {0}])

VARIABLES
    merging, plan,          \* chosen at the start
    source, dests,          \* streams into the splitter
    spState,                \* its state
    inputs, origins,        \* streams into the merger
    mgState, merge_pref,    \* its state; idx is 1 when merge_pref is FALSE
    merged,                 \* what came out
    passedBy                \* history: inputs that waited as another's word passed

mergeVars == <<merging, plan, source, dests, spState, inputs, origins,
               mgState, merge_pref, merged, passedBy>>

(* A word knows its package, its place in it, and where it is sent.        *)
PlannedWords ==
    FlattenSeq([p \in 1 .. Len(plan) |->
        [k \in 1 .. plan[p].length |->
            [package |-> p, place |-> k, dest |-> plan[p].dest,
             last |-> k = plan[p].length]]])

(* stream_merger with origins wants one for each word.                     *)
PlannedOrigins ==
    IF merging = "stream_merger_origin"
    THEN [i \in 1 .. Len(PlannedWords) |-> PlannedWords[i].dest]
    ELSE [p \in 1 .. Len(plan) |-> plan[p].dest]

MergeInit ==
    /\ merging \in Mergings /\ plan \in PackageJobs
    /\ source = PlannedWords /\ dests = [p \in 1 .. Len(plan) |-> plan[p].dest]
    /\ spState = "IDLE" /\ inputs = [i \in {0, 1} |-> << >>] /\ origins = PlannedOrigins
    /\ mgState = "IDLE" /\ merge_pref = TRUE /\ merged = << >> /\ passedBy = {}

Forwarding(i) == IF i = 0 THEN "FWD0" ELSE "FWD1"
-----------------------------------------------------------------------------
(* (Operators named "Bug..." are deliberate slips that model checking has  *)
(* to catch when they stand in for the operator after them.)               *)
BugNeverIdle(w, i) == Forwarding(i)
BugAfterEveryWord(w, i) == "IDLE"
AfterWord(w, i) == IF w.last THEN "IDLE" ELSE Forwarding(i)

(* stream_pkg_splitter: a destination, with the first word if it is there, *)
(* then the rest of the package.                                           *)
Deliver(i) ==
    /\ source # << >> /\ Len(inputs[i]) < MergeDepth
    /\ source' = Tail(source)
    /\ inputs' = [inputs EXCEPT ![i] = Append(@, Head(source))]
    /\ spState' = AfterWord(Head(source), i)

SplitPackages ==
    \/ /\ spState = "IDLE" /\ dests # << >>
       /\ dests' = Tail(dests)
       /\ IF source # << >> THEN Deliver(Head(dests))
          ELSE spState' = Forwarding(Head(dests)) /\ UNCHANGED <<source, inputs>>
    \/ /\ \E i \in {0, 1} : spState = Forwarding(i) /\ Deliver(i)
       /\ UNCHANGED dests

(* stream_split: each word to all streams.                                 *)
SplitToAll ==
    /\ source # << >> /\ \A i \in {0, 1} : Len(inputs[i]) < MergeDepth
    /\ source' = Tail(source)
    /\ inputs' = [i \in {0, 1} |-> Append(inputs[i], Head(source))]
    /\ UNCHANGED <<dests, spState>>

Split ==
    /\ IF merging = "stream_fold" THEN SplitToAll ELSE SplitPackages
    /\ UNCHANGED <<merging, plan, origins, mgState, merge_pref, merged, passedBy>>
-----------------------------------------------------------------------------
(* What every merger does with a word.                                     *)
Ready(i) == inputs[i] # << >>
Take(i) ==
    /\ Ready(i)
    /\ inputs' = [inputs EXCEPT ![i] = Tail(@)]
    /\ merged' = Append(merged, Head(inputs[i]))
    /\ passedBy' = (passedBy \ {i}) \cup {j \in {1 - i} : Ready(j)}
WordOf(i) == Head(inputs[i])
Waits == UNCHANGED <<inputs, merged, passedBy>>

StreamMerger ==
    /\ Take(0) \/ (~Ready(0) /\ Take(1))
    /\ UNCHANGED <<origins, mgState, merge_pref>>

(* The preference moves on when the preferred input was served.            *)
BugPreferenceStays == merge_pref
NextPreference == ~merge_pref
FairMerger ==
    LET i == IF merge_pref THEN 0 ELSE 1 IN
    /\ \/ Take(i) /\ merge_pref' = NextPreference
       \/ ~Ready(i) /\ Take(1 - i) /\ UNCHANGED merge_pref
    /\ UNCHANGED <<origins, mgState>>

(* The origin of the next word or package, with its word if it is there.   *)
BugOriginReread == origins
OriginsLeft == Tail(origins)
NextOrigin(packages, w, i) == IF packages THEN AfterWord(w, i) ELSE "IDLE"
ByOrigin(packages) ==
    \/ /\ mgState = "IDLE" /\ origins # << >>
       /\ origins' = OriginsLeft
       /\ LET i == Head(origins) IN
          IF Ready(i) THEN Take(i) /\ mgState' = NextOrigin(packages, WordOf(i), i)
                      ELSE Waits /\ mgState' = Forwarding(i)
       /\ UNCHANGED merge_pref
    \/ /\ \E i \in {0, 1} : /\ mgState = Forwarding(i) /\ Take(i)
                            /\ mgState' = NextOrigin(packages, WordOf(i), i)
       /\ UNCHANGED <<origins, merge_pref>>

StreamMergerOrigin == ByOrigin(FALSE)
StreamPkgMerger    == ByOrigin(TRUE)

(* A package that begins at either input goes on at input 1, unless input  *)
(* 1 was preferred and had none.                                           *)
FairPkgMerger ==
    /\ \/ /\ mgState = "IDLE" /\ merge_pref
          /\ \/ Take(0) /\ mgState' = AfterWord(WordOf(0), 1)
             \/ ~Ready(0) /\ Take(1) /\ mgState' = AfterWord(WordOf(1), 1)
          /\ UNCHANGED merge_pref
       \/ /\ mgState = "IDLE" /\ ~merge_pref
          /\ \/ Take(1) /\ mgState' = AfterWord(WordOf(1), 1)
             \/ ~Ready(1) /\ Take(0) /\ mgState' = AfterWord(WordOf(0), 0)
          /\ UNCHANGED merge_pref
       \/ \E i \in {0, 1} :
             /\ mgState = Forwarding(i) /\ Take(i)
             /\ mgState' = AfterWord(WordOf(i), i)
             /\ merge_pref' = IF WordOf(i).last THEN i = 1 ELSE merge_pref
    /\ UNCHANGED origins

(* StreamConcatenator, StreamInterleaver: one stream after the other, by   *)
(* the package or by the word.                                             *)
RoundRobin(packages) ==
    LET idx == IF merge_pref THEN 0 ELSE 1 IN
    /\ Take(idx)
    /\ merge_pref' = IF packages => WordOf(idx).last THEN ~merge_pref ELSE merge_pref
    /\ UNCHANGED <<origins, mgState>>
Concatenator == RoundRobin(TRUE)
Interleaver  == RoundRobin(FALSE)

(* stream_fold and stream_merge: a word of each stream at once.  Folded    *)
(* here are words that ought to be one and the same.                       *)
AllReady == \A i \in {0, 1} : Ready(i)
StreamFold ==
    /\ AllReady
    /\ inputs' = [i \in {0, 1} |-> Tail(inputs[i])]
    /\ merged' = Append(merged, IF WordOf(0) = WordOf(1) THEN WordOf(0) ELSE "differ")
    /\ UNCHANGED <<origins, mgState, merge_pref, passedBy>>

Merge ==
    /\ CASE merging = "stream_merger"        -> StreamMerger
         [] merging = "stream_merger_origin" -> StreamMergerOrigin
         [] merging = "stream_pkg_merger"    -> StreamPkgMerger
         [] merging = "fair_merger"          -> FairMerger
         [] merging = "fair_pkg_merger"      -> FairPkgMerger
         [] merging = "concat"               -> Concatenator
         [] merging = "interleave"           -> Interleaver
         [] merging = "stream_fold"          -> StreamFold
    /\ UNCHANGED <<merging, plan, source, dests, spState>>

MergeNext == Split \/ Merge
MergeSpec == MergeInit /\ [][MergeNext]_mergeVars
-----------------------------------------------------------------------------
(* Whatever the merger, the words of one input neither get lost nor        *)
(* doubled nor overtake each other.  (From is SelectSeq, written as a      *)
(* recursive function so that it can be reasoned about.)                   *)
From(i, words) ==
    LET upTo[k \in 0 .. Len(words)] ==
            IF k = 0 THEN << >>
            ELSE IF words[k].dest = i THEN Append(upTo[k - 1], words[k])
            ELSE upTo[k - 1]
    IN  upTo[Len(words)]
EachInputInOrder ==
    merging # "stream_fold" =>
        \A i \in {0, 1} : IsPrefix(From(i, merged), From(i, PlannedWords))

(* Mergers that are told the origins undo the splitter, stream_fold undoes *)
(* stream_split, and the concatenator does when packages alternate.        *)
Alternating == \A p \in 1 .. Len(plan) : plan[p].dest = (p + 1) % 2
OrderIsRestored ==
    \/ merging \in {"stream_pkg_merger", "stream_merger_origin", "stream_fold"}
    \/ merging = "concat" /\ Alternating
    => IsPrefix(merged, PlannedWords)

(* Mergers of packages never let a word in between two of one package.     *)
(* fair_pkg_merger does, whenever a package of several words begins at     *)
(* input 0 (axi_utils.hpp:648): the next word is one of input 1.           *)
PackagesStayWhole ==
    merging \in {"stream_pkg_merger", "concat", "fair_pkg_merger"} =>
        \A i \in 1 .. Len(merged) - 1 :
            \/ merged[i].last
            \/ merged[i + 1].package = merged[i].package
            \/ merging = "fair_pkg_merger" /\ merged[i].dest = 0 /\ merged[i + 1].dest = 1

(* fair_merger lets no input be passed by twice.                           *)
NobodyIsPassedByTwice ==
    [][merging = "fair_merger" /\ merged' # merged
         => \A i \in passedBy : Len(inputs'[i]) < Len(inputs[i])]_mergeVars

(* Every word comes out; with fair_pkg_merger, only those a torn package   *)
(* does not hold up, and with a round robin, only what its turn allows.    *)
WordsArrive ==
    merging \notin {"fair_pkg_merger", "concat", "interleave"} ~>
        Len(merged) = Len(PlannedWords)
=============================================================================
