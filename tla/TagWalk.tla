------------------------------ MODULE TagWalk ------------------------------
(***************************************************************************)
(* The packed ring algebra checked against counting: a walk starts at any  *)
(* allocated code and takes successor steps, steps counts them.  The       *)
(* helpers the pipeline relies on (prfSeqDistance, ROB::isOlder) must      *)
(* agree with that count.                                                  *)
(***************************************************************************)
EXTENDS EpochRing

CONSTANTS
    Cap,    \* number of slots of the ring (ROB_CAP or PRF_CAP)
    Span    \* number of codes of the index field (its mask + 1)

(* static_assert(ROB_CAP >= 2); the slot field holds 0 .. ROB_CAP - 1.     *)
ASSUME RingAssumption ==
    /\ Cap \in Nat
    /\ Span \in Nat
    /\ Cap >= 2
    /\ Cap <= Span

VARIABLES
    from,   \* where the walk started
    to,     \* where it is
    steps   \* how many successor steps it has taken

vars == <<from, to, steps>>

Init ==
    /\ from \in Codes(Cap, Span)
    /\ to = from
    /\ steps = 0

(* One robNextTag / prfSeqNext; a full turn of the code space ends it.     *)
Advance ==
    /\ steps < 2 * Cap - 1
    /\ to' = RingNext(to, Cap, Span)
    /\ steps' = steps + 1
    /\ UNCHANGED from

Next == Advance

Spec == Init /\ [][Next]_vars

(* The walk stays on allocated codes: the successor never lands on a hole  *)
(* of a capacity that is not a power of two.                               *)
TypeOK ==
    /\ from \in Codes(Cap, Span)
    /\ to \in Codes(Cap, Span)
    /\ steps \in 0 .. 2 * Cap - 1

(* prfSeqDistance is the number of successor steps between two codes, for  *)
(* every pair of codes, across the epoch flip and the holes.               *)
DistanceCountsSteps == RingDistance(from, to, Cap, Span) = steps

(* ROB::isOlder orders exactly the codes less than one capacity apart: the *)
(* start is older for 1 .. Cap-1 steps, younger for more than Cap, and at  *)
(* 0 and Cap steps, where both share a slot, neither is older.             *)
AgeWindow ==
    /\ RingOlder(from, to, Span) <=> steps \in 1 .. Cap - 1
    /\ RingOlder(to, from, Span) <=> steps \in Cap + 1 .. 2 * Cap - 1

=============================================================================
