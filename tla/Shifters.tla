------------------------------- MODULE Shifters -------------------------------
(***************************************************************************)
(* The functions of hls/axi_utils that change the words of a package: the  *)
(* shifters and the width converters, one invocation a step.  They are set *)
(* up as a chain in which each is undone by a later one:                   *)
(*                                                                         *)
(*   input -> lshiftWordByOctet -> shifted -> convertStreamToHalfWidth     *)
(*         -> halves -> convertStreamToDoubleWidth -> doubled              *)
(*         -> rshiftWordByOctet -> output                                  *)
(*                                                                         *)
(* A word is a function from its octets; an octet whose keep bit is 0 is   *)
(* NoByte.  What a package carries are octets <<package, place>>.          *)
(***************************************************************************)
EXTENDS Integers, FiniteSets, SequencesExt

CONSTANTS
    Octets,     \* octets of a word, D/8, even
    KeepBits,   \* widest keep there is, 64
    Offsets,    \* the offsets a chain may be set up with
    Jobs,       \* the sequences of package lengths that may be sent
    ShiftDepth  \* words a stream holds

ASSUME ShifterAssumption ==
    /\ Octets \in Nat \ {0} /\ Octets % 2 = 0 /\ KeepBits \in Nat /\ KeepBits >= Octets
    /\ Offsets \subseteq 0 .. Octets - 1 /\ Jobs \subseteq Seq(Nat \ {0})
    /\ ShiftDepth \in Nat \ {0}

VARIABLES
    offset, job,                        \* chosen at the start
    input, shifted, halves, doubled, output,    \* the streams
    ls_firstWord, ls_writeRemainder, lsPrev,    \* lshiftWordByOctet
    hwState, hwWord,                            \* convertStreamToHalfWidth
    even, temp,                                 \* convertStreamToDoubleWidth
    rsState, rs_firstWord, rsPrev               \* rshiftWordByOctet

lsVars == <<ls_firstWord, ls_writeRemainder, lsPrev>>
hwVars == <<hwState, hwWord>>
dwVars == <<even, temp>>
rsVars == <<rsState, rs_firstWord, rsPrev>>
shiftVars == <<offset, job, input, shifted, halves, doubled, output,
               lsVars, hwVars, dwVars, rsVars>>

NoByte == <<0, 1>>
Zero   == <<0, 0>>
Blank  == [i \in 0 .. Octets - 1 |-> NoByte]
Zeroes == [i \in 0 .. Octets - 1 |-> Zero]
Keep(data) == {i \in DOMAIN data : data[i] # NoByte}

(* keep bits from a length, and a length from keep bits.                   *)
LenToKeep(length) == 0 .. (IF length \in 1 .. KeepBits - 1 THEN length ELSE KeepBits) - 1
KeepToLen(keep)   == CHOOSE length \in 1 .. KeepBits : keep = 0 .. length - 1

(* The words of package p, sent with keep bits as lenToKeep gives them.    *)
PackageWords(p, length) ==
    LET n == (length + Octets - 1) \div Octets IN
    [k \in 1 .. n |->
        [data |-> [i \in 0 .. Octets - 1 |->
                     IF i \in LenToKeep(length - (k - 1) * Octets)
                     THEN <<p, (k - 1) * Octets + i>> ELSE NoByte],
         last |-> k = n]]

AllWords == FlattenSeq([p \in 1 .. Len(job) |-> PackageWords(p, job[p])])
-----------------------------------------------------------------------------
ShiftInit ==
    /\ offset \in Offsets /\ job \in Jobs
    /\ input = AllWords
    /\ shifted = << >> /\ halves = << >> /\ doubled = << >> /\ output = << >>
    /\ ls_firstWord = TRUE /\ ls_writeRemainder = FALSE /\ lsPrev = Blank
    /\ hwState = "FIRST" /\ hwWord = [data |-> Blank, last |-> FALSE]
    /\ even = 0 /\ temp = Blank
    /\ rsState = "PKG" /\ rs_firstWord = TRUE /\ rsPrev = Blank

Room(stream) == Len(stream) < ShiftDepth
Word(data, last) == [data |-> data, last |-> last]

(* The n upper-most octets of a make room: a without its n lower octets,   *)
(* then the n lower octets of b.                                           *)
Joined(a, b, n) ==
    [i \in 0 .. Octets - 1 |-> IF i < Octets - n THEN a[i + n] ELSE b[i - (Octets - n)]]
NothingFrom(data, n) == \A i \in n .. Octets - 1 : data[i] = NoByte

(* (Operators named "Bug..." are deliberate slips that model checking has  *)
(* to catch when they stand in for the operator after them.)               *)
BugRemainderForgotten(send) == FALSE
RemainderLeft(send) == ~send.last

LShift ==
    /\ Room(shifted)
    /\ \/ /\ ls_writeRemainder
          /\ shifted' = Append(shifted, Word(Joined(lsPrev, Blank, Octets - offset), TRUE))
          /\ ls_writeRemainder' = FALSE
          /\ UNCHANGED <<input, ls_firstWord, lsPrev>>
       \/ /\ ~ls_writeRemainder /\ input # << >>
          /\ input' = Tail(input)
          /\ LET w    == Head(input)
                 send == Word(Joined(IF ls_firstWord THEN Zeroes ELSE lsPrev,
                                     w.data, Octets - offset),
                              NothingFrom(w.data, Octets - offset))
             IN IF offset = 0
                THEN shifted' = Append(shifted, w) /\ UNCHANGED lsVars
                ELSE /\ shifted' = Append(shifted, send)
                     /\ lsPrev' = w.data
                     /\ ls_firstWord' = w.last
                     /\ ls_writeRemainder' = (w.last /\ RemainderLeft(send))
    /\ UNCHANGED <<offset, job, halves, doubled, output, hwVars, dwVars, rsVars>>

(* A half is the final one when nothing is kept above it.                  *)
Half(data, h) == [i \in 0 .. Octets \div 2 - 1 |-> data[i + h * (Octets \div 2)]]

BugHalfLast(w) == w.last
FirstHalfIsLast(w) == w.data[Octets \div 2] = NoByte
ToHalfWidth ==
    /\ Room(halves)
    /\ \/ /\ hwState = "FIRST" /\ shifted # << >>
          /\ LET w == Head(shifted) IN
             /\ hwWord' = w
             /\ halves' = Append(halves, Word(Half(w.data, 0), FirstHalfIsLast(w)))
             /\ hwState' = IF w.data[Octets \div 2] # NoByte THEN "SECOND" ELSE "FIRST"
          /\ shifted' = Tail(shifted)
       \/ /\ hwState = "SECOND"
          /\ halves' = Append(halves, Word(Half(hwWord.data, 1), hwWord.last))
          /\ hwState' = "FIRST" /\ UNCHANGED <<hwWord, shifted>>
    /\ UNCHANGED <<offset, job, input, doubled, output, lsVars, dwVars, rsVars>>

(* A half goes to its place in temp; the lower one clears the upper.       *)
Placed(half) ==
    [i \in 0 .. Octets - 1 |->
        IF i >= Octets \div 2
        THEN IF even = 1 THEN half[i - Octets \div 2] ELSE NoByte
        ELSE IF even = 1 THEN temp[i] ELSE half[i]]

ToDoubleWidth ==
    /\ halves # << >> /\ Room(doubled)
    /\ halves' = Tail(halves)
    /\ LET half == Head(halves) IN
       /\ temp' = Placed(half.data)
       /\ IF even = 1 \/ half.last
          THEN doubled' = Append(doubled, Word(temp', half.last)) /\ even' = 0
          ELSE even' = 1 /\ UNCHANGED doubled
    /\ UNCHANGED <<offset, job, input, shifted, output, lsVars, hwVars, rsVars>>

(* With offset 0 the first word of a package is kept back for a later word *)
(* that never carries it on; and a remainder is made with a range of bits  *)
(* that is upside down, which may clear the top of the word or nothing.    *)
BugAlwaysRemainder(w, send) == w.last
NeedsRemainder(w, send) == w.last /\ ~send.last
RShift ==
    /\ \/ /\ rsState = "PKG" /\ doubled # << >>
          /\ doubled' = Tail(doubled)
          /\ LET w    == Head(doubled)
                 send == IF rs_firstWord THEN Word(Blank, FALSE)
                         ELSE IF offset = 0 THEN w
                         ELSE Word(Joined(rsPrev, w.data, offset),
                                   NothingFrom(w.data, offset))
             IN /\ output' = IF rs_firstWord THEN output ELSE Append(output, send)
                /\ rsPrev' = w.data /\ rs_firstWord' = w.last
                /\ rsState' = IF NeedsRemainder(w, send) THEN "REMAINDER" ELSE "PKG"
       \/ /\ rsState = "REMAINDER"
          /\ \E top \in IF offset = 0 THEN {NoByte, rsPrev[Octets - 1]} ELSE {NoByte} :
                output' = Append(output,
                    Word([Joined(rsPrev, Blank, offset) EXCEPT ![Octets - 1] = top], TRUE))
          /\ rsState' = "PKG" /\ UNCHANGED <<rsPrev, rs_firstWord, doubled>>
    /\ UNCHANGED <<offset, job, input, shifted, halves, lsVars, hwVars, dwVars>>

ShiftNext == LShift \/ ToHalfWidth \/ ToDoubleWidth \/ RShift
ShiftSpec == ShiftInit /\ [][ShiftNext]_shiftVars
-----------------------------------------------------------------------------
(* The octets of a sequence of words, by package; what is left unfinished  *)
(* comes last.                                                             *)
AddedTo(packages, w) ==
    LET n    == Len(packages)
        more == [packages EXCEPT ![n] =
                    @ \o [i \in 1 .. KeepToLen(Keep(w.data)) |-> w.data[i - 1]]]
    IN IF w.last THEN Append(more, << >>) ELSE more
Packages(words) ==
    LET upTo[n \in 0 .. Len(words)] ==
            IF n = 0 THEN << << >> >> ELSE AddedTo(upTo[n - 1], words[n])
    IN  upTo[Len(words)]

(* Each function relies on what it reads: only the last word of a package  *)
(* is not full, none is empty, and the octets of a word have no gap.  The  *)
(* functions before it have to keep it so.                                 *)
WellFormed(stream) ==
    \A i \in 1 .. Len(stream) :
        LET w == stream[i] IN
        /\ \E n \in 1 .. Cardinality(DOMAIN w.data) : Keep(w.data) = 0 .. n - 1
        /\ ~w.last => Keep(w.data) = DOMAIN w.data
WordsAreWellFormed ==
    \A stream \in {shifted, halves, doubled, output} : WellFormed(stream)

(* rshiftWordByOctet with offset 0 drops the first word of a package of    *)
(* several (axi_utils.hpp:384) and may cut the top off a single one (:420).*)
Transparent == offset # 0 \/ \A p \in 1 .. Len(job) : job[p] < Octets

(* The chain gives back what went in, package by package: all that came    *)
(* out is a beginning of it,                                               *)
BytesComeThrough ==
    Transparent =>
        LET got == Packages(output)  sent == Packages(AllWords)  n == Len(got) IN
        n <= Len(sent) /\ Front(got) = SubSeq(sent, 1, n - 1) /\ IsPrefix(got[n], sent[n])

(* and it all comes out, whichever stream is full meanwhile.               *)
BytesArrive == <>(Transparent => Packages(output) = Packages(AllWords))
=============================================================================
