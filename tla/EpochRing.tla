----------------------------- MODULE EpochRing -----------------------------
(***************************************************************************)
(* Packed ring positions {1-bit epoch, index}: the ROB tags and the        *)
(* free-list sequence numbers of src/src/include/common.hpp.               *)
(*                                                                         *)
(* A ring of cap slots is addressed by codes below 2*span, where span is   *)
(* the power of two that the index field can hold (ROB_INDEX_MASK + 1 or   *)
(* PRF_INDEX_MASK + 1).  The index of a code is its low field, its epoch   *)
(* the top bit; when cap < span the codes with an index of cap or more are *)
(* holes that are never allocated.  Masking a code below 2*span with       *)
(* span - 1 is written as a comparison, which keeps everything linear.     *)
(***************************************************************************)
EXTENDS Integers

(* The slot and the epoch of a packed code.                                *)
SlotOf(t, span) == IF t >= span THEN t - span ELSE t

EpochOf(t, span) == IF t >= span THEN 1 ELSE 0

(* The codes that are allocated.                                           *)
Codes(cap, span) == {t \in 0 .. 2 * span - 1 : SlotOf(t, span) < cap}

(* Mutants of RingNext: the power-of-two counter used for every capacity,  *)
(* and a wrap that forgets to flip the epoch.                              *)
RingNext_masked(t, cap, span) == IF t = 2 * span - 1 THEN 0 ELSE t + 1

RingNext_keepsEpoch(t, cap, span) ==
    IF SlotOf(t, span) = cap - 1 THEN t - (cap - 1) ELSE t + 1

(* Successor: the slot advances to cap - 1, then the epoch flips and the   *)
(* slot restarts at 0.                                                     *)
RingNext(t, cap, span) ==
    IF SlotOf(t, span) = cap - 1
      THEN IF EpochOf(t, span) = 0 THEN span ELSE 0
      ELSE t + 1

(* How many successor steps lead from one code to another.                 *)
RingDistance(from, to, cap, span) ==
    LET indexDistance == SlotOf(to, span) - SlotOf(from, span)
        distance == indexDistance
                      + cap * (EpochOf(to, span) - EpochOf(from, span))
    IN  IF distance < 0 THEN distance + 2 * cap ELSE distance

(* Mutant of RingOlder: the epochs are not compared.                       *)
RingOlder_slotOnly(a, b, span) == SlotOf(a, span) < SlotOf(b, span)

(* Age comparison of two codes: across epochs the larger slot is older,    *)
(* within an epoch the smaller one.                                        *)
RingOlder(a, b, span) ==
    IF EpochOf(a, span) # EpochOf(b, span)
      THEN SlotOf(a, span) > SlotOf(b, span)
      ELSE SlotOf(a, span) < SlotOf(b, span)

=============================================================================
