-------------------------- MODULE EpochRingLemmas --------------------------
(***************************************************************************)
(* The algebra of packed ring positions, for every capacity of at least    *)
(* two and every index field that can hold it.  The distance from a fixed  *)
(* code orders the codes like a counter modulo 2 * cap.                    *)
(***************************************************************************)
EXTENDS EpochRing, TLAPS

(* The successor of an allocated code is allocated (robNextTag).           *)
LEMMA NextIsCode ==
    ASSUME NEW cap \in Nat, NEW span \in Nat, cap >= 2, cap <= span,
           NEW t \in Codes(cap, span)
    PROVE  RingNext(t, cap, span) \in Codes(cap, span)
BY DEF Codes, RingNext, SlotOf, EpochOf

(* A distance is a count below 2 * cap, zero exactly between a code and    *)
(* itself (prfSeqDistance).                                                *)
LEMMA DistanceRange ==
    ASSUME NEW cap \in Nat, NEW span \in Nat, cap >= 2, cap <= span,
           NEW f \in Codes(cap, span), NEW t \in Codes(cap, span)
    PROVE  /\ RingDistance(f, t, cap, span) \in 0 .. 2 * cap - 1
           /\ RingDistance(f, t, cap, span) = 0 <=> f = t
BY DEF Codes, RingDistance, SlotOf, EpochOf

(* Codes at the same distance from a code are equal.                       *)
LEMMA DistanceInjective ==
    ASSUME NEW cap \in Nat, NEW span \in Nat, cap >= 2, cap <= span,
           NEW f \in Codes(cap, span), NEW a \in Codes(cap, span),
           NEW b \in Codes(cap, span),
           RingDistance(f, a, cap, span) = RingDistance(f, b, cap, span)
    PROVE  a = b
BY DEF Codes, RingDistance, SlotOf, EpochOf

(* One successor step adds one to the distance from any start, except at   *)
(* the last code of the turn (robNextTag, prfSeqNext).                     *)
LEMMA NextAddsOne ==
    ASSUME NEW cap \in Nat, NEW span \in Nat, cap >= 2, cap <= span,
           NEW f \in Codes(cap, span), NEW t \in Codes(cap, span),
           RingDistance(f, t, cap, span) < 2 * cap - 1
    PROVE  RingDistance(f, RingNext(t, cap, span), cap, span)
             = RingDistance(f, t, cap, span) + 1
BY DEF Codes, RingNext, RingDistance, SlotOf, EpochOf

(* Moving the start one step forward takes one from the distance to every  *)
(* code but the start itself.                                              *)
LEMMA NextOfStart ==
    ASSUME NEW cap \in Nat, NEW span \in Nat, cap >= 2, cap <= span,
           NEW f \in Codes(cap, span), NEW t \in Codes(cap, span)
    PROVE  RingDistance(RingNext(f, cap, span), t, cap, span)
             = IF f = t THEN 2 * cap - 1
                        ELSE RingDistance(f, t, cap, span) - 1
BY DEF Codes, RingNext, RingDistance, SlotOf, EpochOf

(* The age comparison is the distance being inside one capacity            *)
(* (ROB::isOlder).                                                         *)
LEMMA OlderIsNear ==
    ASSUME NEW cap \in Nat, NEW span \in Nat, cap >= 2, cap <= span,
           NEW a \in Codes(cap, span), NEW b \in Codes(cap, span)
    PROVE  /\ RingOlder(a, b, span)
                <=> RingDistance(a, b, cap, span) \in 1 .. cap - 1
           /\ RingOlder(b, a, span)
                <=> RingDistance(a, b, cap, span) \in cap + 1 .. 2 * cap - 1
BY DEF Codes, RingOlder, RingDistance, SlotOf, EpochOf

(* Seen from a third code, the age comparison of two codes less than one   *)
(* capacity apart compares their distances.                                *)
LEMMA OlderIsCloser ==
    ASSUME NEW cap \in Nat, NEW span \in Nat, cap >= 2, cap <= span,
           NEW f \in Codes(cap, span), NEW a \in Codes(cap, span),
           NEW b \in Codes(cap, span),
           RingDistance(f, a, cap, span) < cap,
           RingDistance(f, b, cap, span) < cap
    PROVE  RingOlder(a, b, span)
             <=> RingDistance(f, a, cap, span) < RingDistance(f, b, cap, span)
BY DEF Codes, RingOlder, RingDistance, SlotOf, EpochOf

(* Codes less than one capacity from a start never share a slot.           *)
LEMMA SlotsDistinct ==
    ASSUME NEW cap \in Nat, NEW span \in Nat, cap >= 2, cap <= span,
           NEW f \in Codes(cap, span), NEW a \in Codes(cap, span),
           NEW b \in Codes(cap, span),
           SlotOf(a, span) = SlotOf(b, span),
           RingDistance(f, a, cap, span) < cap,
           RingDistance(f, b, cap, span) < cap
    PROVE  a = b
BY DEF Codes, RingDistance, SlotOf, EpochOf

(* A code shares the start's slot exactly when it is no or one capacity    *)
(* away, which is what ROB::isFull and isEmpty test.                       *)
LEMMA SlotWraps ==
    ASSUME NEW cap \in Nat, NEW span \in Nat, cap >= 2, cap <= span,
           NEW f \in Codes(cap, span), NEW t \in Codes(cap, span)
    PROVE  SlotOf(t, span) = SlotOf(f, span)
             <=> RingDistance(f, t, cap, span) \in {0, cap}
BY DEF Codes, RingDistance, SlotOf, EpochOf

(* Distances add up, modulo the number of codes.                           *)
LEMMA DistancesAdd ==
    ASSUME NEW cap \in Nat, NEW span \in Nat, cap >= 2, cap <= span,
           NEW a \in Codes(cap, span), NEW b \in Codes(cap, span),
           NEW c \in Codes(cap, span)
    PROVE  RingDistance(a, b, cap, span) + RingDistance(b, c, cap, span)
             \in {RingDistance(a, c, cap, span),
                  RingDistance(a, c, cap, span) + 2 * cap}
BY DEF Codes, RingDistance, SlotOf, EpochOf

(* There is a code at every distance before a given one.                   *)
LEMMA CodeBefore ==
    ASSUME NEW cap \in Nat, NEW span \in Nat, cap >= 2, cap <= span,
           NEW t \in Codes(cap, span), NEW n \in 0 .. 2 * cap - 1
    PROVE  \E x \in Codes(cap, span) : RingDistance(x, t, cap, span) = n
<1> DEFINE s == SlotOf(t, span)
           other == IF t >= span THEN t - span ELSE t + span
           x == IF s >= n THEN t - n
                ELSE IF s + cap >= n THEN other - n + cap
                ELSE t - n + 2 * cap
<1>1. x \in Codes(cap, span)
  BY DEF Codes, SlotOf
<1>2. RingDistance(x, t, cap, span) = n
  BY DEF Codes, RingDistance, SlotOf, EpochOf
<1> QED BY <1>1, <1>2

=============================================================================
