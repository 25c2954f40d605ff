----------------------------- MODULE LSQProofs -----------------------------
(***************************************************************************)
(* Proofs about the load and store queues, for every size of the ROB and   *)
(* the queues, every set of addresses and every program: the queues agree  *)
(* with the ROB, and memory is written in program order, through any       *)
(* overlap of issue, completion, commit, retirement, drain and squash.     *)
(*                                                                         *)
(* The first half is about rings only: what a push, a flush, a commit and  *)
(* a pop do to a queue whose entries follow the ROB.  A clock cycle is one *)
(* of the first two, if any, followed by the others.                       *)
(***************************************************************************)
EXTENDS LSQ, EpochRingLemmas, FiniteSetTheorems, WellFoundedInduction

-----------------------------------------------------------------------------
(* The window of the ROB.                                                  *)

dist(h, t) == RingDistance(h, t, RobCap, RobSpan)

(* The tags from h up to, and without, n.                                  *)
Between(h, n) == {t \in RobTags : dist(h, t) < dist(h, n)}

(* The age of a tag is a count below two turns of the ROB, zero for the    *)
(* head only, and identifies the tag.                                      *)
LEMMA DistFacts ==
    ASSUME NEW h \in RobTags, NEW a \in RobTags
    PROVE  /\ dist(h, a) \in 0 .. 2 * RobCap - 1
           /\ dist(h, a) = 0 <=> h = a
           /\ \A b \in RobTags : dist(h, a) = dist(h, b) => a = b
BY RobAssumption, DistanceRange, DistanceInjective DEF RobTags, dist

(* The successor of a tag is one younger, except after a whole turn        *)
(* (ROB::updateNextTag).                                                   *)
LEMMA DistNext ==
    ASSUME NEW h \in RobTags, NEW a \in RobTags
    PROVE  /\ robNextTag(a) \in RobTags
           /\ dist(h, a) < 2 * RobCap - 1
                => dist(h, robNextTag(a)) = dist(h, a) + 1
BY RobAssumption, NextIsCode, NextAddsOne DEF RobTags, dist, robNextTag

(* A commit makes every other tag one older (ROB::pop).                    *)
LEMMA DistPop ==
    ASSUME NEW h \in RobTags, NEW a \in RobTags
    PROVE  dist(robNextTag(h), a)
             = IF h = a THEN 2 * RobCap - 1 ELSE dist(h, a) - 1
BY RobAssumption, NextOfStart DEF RobTags, dist, robNextTag

(* ROB::isOlder is the distance being inside one turn.                     *)
LEMMA OlderNear ==
    ASSUME NEW a \in RobTags, NEW b \in RobTags
    PROVE  /\ isOlder(a, b) <=> dist(a, b) \in 1 .. RobCap - 1
           /\ isOlder(b, a) <=> dist(a, b) \in RobCap + 1 .. 2 * RobCap - 1
BY RobAssumption, OlderIsNear DEF RobTags, dist, isOlder

(* Inside one turn ROB::isOlder compares ages.                             *)
LEMMA DistOlder ==
    ASSUME NEW h \in RobTags, NEW a \in RobTags, NEW b \in RobTags,
           dist(h, a) < RobCap, dist(h, b) < RobCap
    PROVE  isOlder(a, b) <=> dist(h, a) < dist(h, b)
BY RobAssumption, OlderIsCloser DEF RobTags, dist, isOlder

(* Inside one turn no two tags share a slot.                               *)
LEMMA DistSlot ==
    ASSUME NEW h \in RobTags, NEW a \in RobTags, NEW b \in RobTags,
           dist(h, a) < RobCap, dist(h, b) < RobCap,
           robSlot(a) = robSlot(b)
    PROVE  a = b
BY RobAssumption, SlotsDistinct DEF RobTags, dist, robSlot

(* ROB::isFull and ROB::isEmpty are the window being a whole turn or       *)
(* nothing, and slots index the queue.                                     *)
LEMMA SlotFacts ==
    ASSUME NEW h \in RobTags, NEW a \in RobTags
    PROVE  /\ robSlot(a) \in RobSlots
           /\ robSlot(a) = robSlot(h) <=> dist(h, a) \in {0, RobCap}
<1>1. robSlot(a) \in RobSlots
  BY RobAssumption DEF RobTags, Codes, RobSlots, robSlot, SlotOf
<1>2. robSlot(a) = robSlot(h) <=> dist(h, a) \in {0, RobCap}
  BY RobAssumption, SlotWraps DEF RobTags, dist, robSlot
<1> QED BY <1>1, <1>2

(* Distances add up, modulo two turns.                                     *)
LEMMA DistAdd ==
    ASSUME NEW a \in RobTags, NEW b \in RobTags, NEW c \in RobTags
    PROVE  dist(a, b) + dist(b, c) \in {dist(a, c), dist(a, c) + 2 * RobCap}
BY RobAssumption, DistancesAdd DEF RobTags, dist

(* A push adds the next tag to the window.                                 *)
LEMMA WindowPush ==
    ASSUME NEW h \in RobTags, NEW n \in RobTags, dist(h, n) < RobCap
    PROVE  /\ robNextTag(n) \in RobTags
           /\ dist(h, robNextTag(n)) = dist(h, n) + 1
           /\ Between(h, robNextTag(n)) = Between(h, n) \cup {n}
           /\ n \notin Between(h, n)
<1>1. /\ robNextTag(n) \in RobTags /\ dist(h, n) \in Nat
      /\ dist(h, robNextTag(n)) = dist(h, n) + 1
      /\ RobCap \in Nat
  BY DistFacts, DistNext, RobAssumption
<1>2. \A t \in RobTags : dist(h, t) \in Nat /\ (dist(h, t) = dist(h, n) => t = n)
  BY DistFacts
<1> QED BY <1>1, <1>2 DEF Between

(* A squash keeps the tags up to its target.                               *)
LEMMA WindowSquash ==
    ASSUME NEW h \in RobTags, NEW n \in RobTags, dist(h, n) <= RobCap,
           NEW s \in Between(h, n)
    PROVE  /\ s \in RobTags /\ robNextTag(s) \in RobTags
           /\ dist(h, robNextTag(s)) = dist(h, s) + 1
           /\ dist(h, robNextTag(s)) <= dist(h, n)
           /\ Between(h, robNextTag(s))
                = {t \in Between(h, n) : dist(h, t) <= dist(h, s)}
<1>1. /\ s \in RobTags /\ dist(h, s) < dist(h, n) /\ RobCap \in Nat
      /\ dist(h, s) \in Nat /\ dist(h, n) \in Nat
  BY DistFacts, RobAssumption DEF Between
<1>2. robNextTag(s) \in RobTags /\ dist(h, robNextTag(s)) = dist(h, s) + 1
  BY <1>1, DistNext
<1>3. \A t \in RobTags : dist(h, t) \in Nat
  BY DistFacts
<1> QED BY <1>1, <1>2, <1>3 DEF Between

(* A commit takes the head out of the window and makes the others one      *)
(* older.                                                                  *)
LEMMA WindowPop ==
    ASSUME NEW h \in RobTags, NEW n \in RobTags, h # n
    PROVE  /\ robNextTag(h) \in RobTags
           /\ dist(robNextTag(h), n) = dist(h, n) - 1
           /\ Between(robNextTag(h), n) = Between(h, n) \ {h}
           /\ h \in Between(h, n)
           /\ \A t \in RobTags \ {h} : dist(robNextTag(h), t) = dist(h, t) - 1
<1>1. robNextTag(h) \in RobTags /\ RobCap \in Nat
  BY DistNext, RobAssumption
<1>2. \A t \in RobTags :
         /\ dist(h, t) \in 0 .. 2 * RobCap - 1
         /\ dist(h, t) = 0 <=> h = t
         /\ dist(robNextTag(h), t)
              = IF h = t THEN 2 * RobCap - 1 ELSE dist(h, t) - 1
  BY DistFacts, DistPop
<1>3. \A t \in RobTags : t \in Between(robNextTag(h), n)
                            <=> (t \in Between(h, n) /\ t # h)
  BY <1>1, <1>2 DEF Between
<1>4. Between(robNextTag(h), n) = Between(h, n) \ {h}
  BY <1>3 DEF Between
<1> QED BY <1>1, <1>2, <1>4 DEF Between

-----------------------------------------------------------------------------
(* A queue ring of cap slots with head q, one slot kept free.              *)

pos(i, q, cap) == (i - q + cap) % cap

after(i, cap) == (i + 1) % cap

prior(i, cap) == (i - 1 + cap) % cap

held(q, e, cap) == {i \in 0 .. cap - 1 : pos(i, q, cap) < pos(e, q, cap)}

(* Positions are counts from the head that identify a slot; the slot after *)
(* the last position is the head.                                          *)
LEMMA PosFacts ==
    ASSUME NEW cap \in Nat, cap >= 2, NEW q \in 0 .. cap - 1,
           NEW i \in 0 .. cap - 1
    PROVE  /\ pos(i, q, cap) = IF i >= q THEN i - q ELSE i - q + cap
           /\ pos(i, q, cap) \in 0 .. cap - 1
           /\ pos(i, q, cap) = 0 <=> i = q
           /\ \A j \in 0 .. cap - 1 : pos(i, q, cap) = pos(j, q, cap) => i = j
<1>1. \A j \in 0 .. cap - 1 :
         pos(j, q, cap) = IF j >= q THEN j - q ELSE j - q + cap
  <2> TAKE j \in 0 .. cap - 1
  <2>1. j - q + cap \in 0 .. 2 * cap - 1
    OBVIOUS
  <2>2. \A a \in 0 .. 2 * cap - 1 : a % cap = IF a < cap THEN a ELSE a - cap
    OBVIOUS
  <2> QED BY <2>1, <2>2 DEF pos
<1> QED BY <1>1

(* The slot after and the slot before.                                     *)
LEMMA StepFacts ==
    ASSUME NEW cap \in Nat, cap >= 2, NEW q \in 0 .. cap - 1,
           NEW i \in 0 .. cap - 1
    PROVE  /\ after(i, cap) \in 0 .. cap - 1 /\ prior(i, cap) \in 0 .. cap - 1
           /\ prior(after(i, cap), cap) = i
           /\ after(prior(i, cap), cap) = i
           /\ after(i, cap) # q =>
                pos(after(i, cap), q, cap) = pos(i, q, cap) + 1
           /\ i # q => pos(prior(i, cap), q, cap) = pos(i, q, cap) - 1
           /\ i # q => pos(i, after(q, cap), cap) = pos(i, q, cap) - 1
<1>1. \A a \in 0 .. 2 * cap - 1 : a % cap = IF a < cap THEN a ELSE a - cap
  OBVIOUS
<1>2. \A j \in 0 .. cap - 1 :
         /\ after(j, cap) = IF j = cap - 1 THEN 0 ELSE j + 1
         /\ prior(j, cap) = IF j = 0 THEN cap - 1 ELSE j - 1
  <2> TAKE j \in 0 .. cap - 1
  <2>1. j + 1 \in 0 .. 2 * cap - 1 /\ j - 1 + cap \in 0 .. 2 * cap - 1
    OBVIOUS
  <2> QED BY <1>1, <2>1 DEF after, prior
<1>3. \A j, k \in 0 .. cap - 1 :
         pos(j, k, cap) = IF j >= k THEN j - k ELSE j - k + cap
  BY PosFacts
<1>4. after(i, cap) \in 0 .. cap - 1 /\ prior(i, cap) \in 0 .. cap - 1
      /\ after(q, cap) \in 0 .. cap - 1
  BY <1>2
<1>5. prior(after(i, cap), cap) = i /\ after(prior(i, cap), cap) = i
  BY <1>2, <1>4
<1>6. after(i, cap) # q => pos(after(i, cap), q, cap) = pos(i, q, cap) + 1
  <2> DEFINE k == after(i, cap)
  <2>1. k \in 0 .. cap - 1 /\ k = (IF i = cap - 1 THEN 0 ELSE i + 1)
    BY <1>2, <1>4
  <2>2. /\ pos(k, q, cap) = IF k >= q THEN k - q ELSE k - q + cap
        /\ pos(i, q, cap) = IF i >= q THEN i - q ELSE i - q + cap
    BY <1>3, <2>1
  <2> HIDE DEF k
  <2>3. k # q => pos(k, q, cap) = pos(i, q, cap) + 1
    BY <2>1, <2>2
  <2> QED BY <2>3 DEF k
<1>7. i # q => pos(prior(i, cap), q, cap) = pos(i, q, cap) - 1
  <2> DEFINE k == prior(i, cap)
  <2>1. k \in 0 .. cap - 1 /\ k = (IF i = 0 THEN cap - 1 ELSE i - 1)
    BY <1>2, <1>4
  <2>2. /\ pos(k, q, cap) = IF k >= q THEN k - q ELSE k - q + cap
        /\ pos(i, q, cap) = IF i >= q THEN i - q ELSE i - q + cap
    BY <1>3, <2>1
  <2> HIDE DEF k
  <2>3. i # q => pos(k, q, cap) = pos(i, q, cap) - 1
    BY <2>1, <2>2
  <2> QED BY <2>3 DEF k
<1>8. i # q => pos(i, after(q, cap), cap) = pos(i, q, cap) - 1
  BY <1>2, <1>3, <1>4
<1> QED BY <1>4, <1>5, <1>6, <1>7, <1>8

(* A push adds the slot at the tail.                                       *)
LEMMA HeldPush ==
    ASSUME NEW cap \in Nat, cap >= 2, NEW q \in 0 .. cap - 1,
           NEW e \in 0 .. cap - 1, after(e, cap) # q
    PROVE  /\ held(q, after(e, cap), cap) = held(q, e, cap) \cup {e}
           /\ e \notin held(q, e, cap)
           /\ pos(after(e, cap), q, cap) = pos(e, q, cap) + 1
<1>1. pos(after(e, cap), q, cap) = pos(e, q, cap) + 1
  BY StepFacts
<1>2. ASSUME NEW i \in 0 .. cap - 1
      PROVE  pos(i, q, cap) \in Nat /\ (pos(i, q, cap) = pos(e, q, cap) => i = e)
  <2>1. pos(i, q, cap) \in 0 .. cap - 1
    BY PosFacts
  <2>2. \A j \in 0 .. cap - 1 : pos(i, q, cap) = pos(j, q, cap) => i = j
    BY PosFacts
  <2> QED BY <2>1, <2>2
<1> QED BY <1>1, <1>2 DEF held

(* A flush to an earlier tail keeps the slots before it.                   *)
LEMMA HeldFlush ==
    ASSUME NEW cap \in Nat, cap >= 2, NEW q \in 0 .. cap - 1,
           NEW e \in 0 .. cap - 1, NEW s \in 0 .. cap - 1,
           pos(s, q, cap) <= pos(e, q, cap)
    PROVE  held(q, s, cap) = {i \in held(q, e, cap) : pos(i, q, cap) < pos(s, q, cap)}
<1>1. ASSUME NEW i \in 0 .. cap - 1 PROVE pos(i, q, cap) \in Nat
  <2>1. pos(i, q, cap) \in 0 .. cap - 1
    BY PosFacts
  <2> QED BY <2>1
<1> QED BY <1>1 DEF held

(* A pop removes the slot at the head.                                     *)
LEMMA HeldPop ==
    ASSUME NEW cap \in Nat, cap >= 2, NEW q \in 0 .. cap - 1,
           NEW e \in 0 .. cap - 1, q # e
    PROVE  /\ after(q, cap) \in 0 .. cap - 1
           /\ held(after(q, cap), e, cap) = held(q, e, cap) \ {q}
           /\ q \in held(q, e, cap)
           /\ \A i \in (0 .. cap - 1) \ {q} :
                pos(i, after(q, cap), cap) = pos(i, q, cap) - 1
<1>1. after(q, cap) \in 0 .. cap - 1
  BY StepFacts
<1>2. \A i \in (0 .. cap - 1) \ {q} :
         pos(i, after(q, cap), cap) = pos(i, q, cap) - 1
  BY StepFacts
<1>3. \A i \in 0 .. cap - 1 :
         pos(i, q, cap) \in 0 .. cap - 1 /\ (pos(i, q, cap) = 0 <=> i = q)
  BY PosFacts
<1>4. prior(after(q, cap), cap) = q /\ after(prior(q, cap), cap) = q
  BY StepFacts
<1>5. pos(q, after(q, cap), cap) = cap - 1
  <2>1. pos(q, after(q, cap), cap) \in 0 .. cap - 1
    BY <1>1, PosFacts
  <2>2. \A a \in 0 .. 2 * cap - 1 : a % cap = IF a < cap THEN a ELSE a - cap
    OBVIOUS
  <2>3. after(q, cap) = IF q = cap - 1 THEN 0 ELSE q + 1
    BY <2>2 DEF after
  <2>4. pos(q, after(q, cap), cap) =
          IF q >= after(q, cap) THEN q - after(q, cap) ELSE q - after(q, cap) + cap
    BY <1>1, PosFacts
  <2> QED BY <2>3, <2>4
<1>6. \A i \in 0 .. cap - 1 : i \in held(after(q, cap), e, cap)
                                 <=> (i \in held(q, e, cap) /\ i # q)
  BY <1>2, <1>3, <1>5 DEF held
<1>7. held(after(q, cap), e, cap) = held(q, e, cap) \ {q}
  BY <1>6 DEF held
<1>8. q \in held(q, e, cap)
  BY <1>3 DEF held
<1> QED BY <1>1, <1>2, <1>7, <1>8

-----------------------------------------------------------------------------
(* A queue that follows the ROB.  h and n are the ROB's head and next tag, *)
(* q and e the queue's head and tail; tag[i] is the tag in slot i, gone    *)
(* are the slots whose instruction has left the ROB, mine the tags of the  *)
(* ROB that belong in the queue, snap[t] the tail that t has recorded.     *)

Follows(h, n, q, e, cap, tag, gone, mine, snap) ==
    /\ mine \subseteq Between(h, n)
    /\ \A t \in Between(h, n) :
         /\ snap[t] \in 0 .. cap - 1
         /\ pos(snap[t], q, cap) <= pos(e, q, cap)
    /\ \A t \in Between(h, n), i \in held(q, e, cap) :
         pos(i, q, cap) < pos(snap[t], q, cap)
           <=> (i \in gone \/ dist(h, tag[i]) <= dist(h, t))
    /\ \A t \in mine : /\ prior(snap[t], cap) \in held(q, e, cap) \ gone
                       /\ tag[prior(snap[t], cap)] = t
    /\ \A i \in held(q, e, cap) \ gone : /\ tag[i] \in mine
                                         /\ prior(snap[tag[i]], cap) = i

(* Only what the queue holds matters.                                      *)
LEMMA FollowsKeep ==
    ASSUME NEW h, NEW n, NEW q, NEW e, NEW cap,
           NEW tag, NEW gone, NEW mine, NEW snap,
           Follows(h, n, q, e, cap, tag, gone, mine, snap),
           NEW tag2, NEW gone2, NEW snap2,
           \A i \in held(q, e, cap) :
             tag2[i] = tag[i] /\ (i \in gone2 <=> i \in gone),
           \A t \in Between(h, n) : snap2[t] = snap[t]
    PROVE  Follows(h, n, q, e, cap, tag2, gone2, mine, snap2)
<1>1. \A t \in mine : snap2[t] = snap[t]
  BY DEF Follows
<1>2. \A i \in held(q, e, cap) \ gone2 :
         tag2[i] \in mine /\ prior(snap2[tag2[i]], cap) = i
  BY <1>1 DEF Follows
<1>3. \A t \in mine : /\ prior(snap2[t], cap) \in held(q, e, cap) \ gone2
                       /\ tag2[prior(snap2[t], cap)] = t
  BY <1>1 DEF Follows
<1>4. \A t \in Between(h, n), i \in held(q, e, cap) :
         pos(i, q, cap) < pos(snap2[t], q, cap)
           <=> (i \in gone2 \/ dist(h, tag2[i]) <= dist(h, t))
  BY DEF Follows
<1> QED BY <1>2, <1>3, <1>4 DEF Follows

(* An issue: the new instruction is younger than all others, and takes the *)
(* slot at the tail if it belongs in the queue (pushLoad, pushStore).      *)
LEMMA FollowsPush ==
    ASSUME NEW h \in RobTags, NEW n \in RobTags, dist(h, n) < RobCap,
           NEW cap \in Nat, cap >= 2,
           NEW q \in 0 .. cap - 1, NEW e \in 0 .. cap - 1,
           NEW tag, NEW gone, NEW mine, NEW snap,
           Follows(h, n, q, e, cap, tag, gone, mine, snap),
           NEW add \in BOOLEAN, NEW e2,
           add => e2 = after(e, cap),
           ~add => e2 = e,
           add => after(e, cap) # q,
           NEW tag2, NEW gone2, NEW snap2, NEW mine2,
           \A i \in held(q, e, cap) :
             tag2[i] = tag[i] /\ (i \in gone2 <=> i \in gone),
           add => tag2[e] = n /\ e \notin gone2,
           \A t \in Between(h, n) : snap2[t] = snap[t],
           snap2[n] = e2,
           \A t : t \in mine2 <=> (t \in mine \/ (add /\ t = n))
    PROVE  Follows(h, robNextTag(n), q, e2, cap, tag2, gone2, mine2, snap2)
<1> DEFINE B == Between(h, n)
           H == held(q, e, cap)
           B2 == Between(h, robNextTag(n))
           H2 == held(q, e2, cap)
<1>1. B2 = B \cup {n} /\ n \notin B
  BY WindowPush
<1>2. /\ e2 \in 0 .. cap - 1
      /\ H2 = H \cup (IF add THEN {e} ELSE {})
      /\ add => e \notin H
      /\ pos(e2, q, cap) = pos(e, q, cap) + (IF add THEN 1 ELSE 0)
  <2>1. CASE add
    BY <2>1, HeldPush, StepFacts
  <2>2. CASE ~add
    <3>1. pos(e, q, cap) \in 0 .. cap - 1
      BY PosFacts
    <3> QED BY <2>2, <3>1
  <2> QED BY <2>1, <2>2
<1>3. pos(e, q, cap) \in Nat
  <2>1. pos(e, q, cap) \in 0 .. cap - 1
    BY PosFacts
  <2> QED BY <2>1
<1>4. \A t \in B : snap[t] \in 0 .. cap - 1 /\ pos(snap[t], q, cap) \in Nat
  <2> SUFFICES ASSUME NEW t \in B
               PROVE  snap[t] \in 0 .. cap - 1 /\ pos(snap[t], q, cap) \in Nat
    OBVIOUS
  <2>1. snap[t] \in 0 .. cap - 1
    BY DEF Follows
  <2>2. pos(snap[t], q, cap) \in 0 .. cap - 1
    BY <2>1, PosFacts
  <2> QED BY <2>1, <2>2
<1>5. \A t \in RobTags : dist(h, t) \in Nat
  BY DistFacts
<1>6. \A t \in B : t \in RobTags /\ dist(h, t) < dist(h, n)
  BY DEF Between
<1>7. mine2 \subseteq B2
  BY <1>1 DEF Follows
<1>8. \A t \in B2 : snap2[t] \in 0 .. cap - 1
                      /\ pos(snap2[t], q, cap) <= pos(e2, q, cap)
  <2> SUFFICES ASSUME NEW t \in B2
               PROVE  snap2[t] \in 0 .. cap - 1
                        /\ pos(snap2[t], q, cap) <= pos(e2, q, cap)
    OBVIOUS
  <2>1. CASE t = n
    BY <1>2, <1>3, <2>1
  <2>2. CASE t \in B
    <3>1. pos(snap[t], q, cap) <= pos(e, q, cap)
      BY <2>2 DEF Follows
    <3> QED BY <1>2, <1>3, <1>4, <2>2, <3>1
  <2> QED BY <1>1, <2>1, <2>2
<1>9. \A i \in H : /\ pos(i, q, cap) \in Nat
                   /\ pos(i, q, cap) < pos(e, q, cap)
                   /\ i \notin gone => tag[i] \in B
  <2> SUFFICES ASSUME NEW i \in H
               PROVE  /\ pos(i, q, cap) \in Nat
                      /\ pos(i, q, cap) < pos(e, q, cap)
                      /\ i \notin gone => tag[i] \in B
    OBVIOUS
  <2>1. i \in 0 .. cap - 1 /\ pos(i, q, cap) < pos(e, q, cap)
    BY DEF held
  <2>2. pos(i, q, cap) \in 0 .. cap - 1
    BY <2>1, PosFacts
  <2> QED BY <2>1, <2>2 DEF Follows
<1>10. ASSUME NEW t \in B2, NEW i \in H2
       PROVE  pos(i, q, cap) < pos(snap2[t], q, cap)
                <=> (i \in gone2 \/ dist(h, tag2[i]) <= dist(h, t))
  <2>1. CASE t \in B /\ i \in H
    BY <2>1 DEF Follows
  <2>2. CASE t = n /\ i \in H
    <3>1. pos(i, q, cap) < pos(snap2[t], q, cap)
      BY <1>2, <1>3, <1>9, <2>2
    <3>2. i \notin gone => dist(h, tag[i]) <= dist(h, n)
      BY <1>5, <1>6, <1>9, <2>2
    <3> QED BY <2>2, <3>1, <3>2
  <2>3. CASE t \in B /\ i = e /\ add
    <3>1. pos(snap[t], q, cap) <= pos(e, q, cap)
      BY <2>3 DEF Follows
    <3>2. ~(pos(i, q, cap) < pos(snap2[t], q, cap))
      BY <1>3, <1>4, <2>3, <3>1
    <3>3. ~(dist(h, n) <= dist(h, t))
      BY <1>5, <1>6, <2>3
    <3> QED BY <2>3, <3>2, <3>3
  <2>4. CASE t = n /\ i = e /\ add
    <3>1. pos(e, q, cap) < pos(e2, q, cap)
      BY <1>2, <1>3, <2>4
    <3> QED BY <1>5, <2>4, <3>1
  <2> QED BY <1>1, <1>2, <2>1, <2>2, <2>3, <2>4
<1>11. ASSUME NEW t \in mine2
       PROVE  /\ prior(snap2[t], cap) \in H2 \ gone2
              /\ tag2[prior(snap2[t], cap)] = t
  <2>1. CASE t \in mine
    <3>1. t \in B
      BY <2>1 DEF Follows
    <3> QED BY <1>2, <2>1, <3>1 DEF Follows
  <2>2. CASE add /\ t = n
    <3>1. prior(snap2[t], cap) = e
      BY <2>2, StepFacts
    <3> QED BY <1>2, <2>2, <3>1
  <2> QED BY <2>1, <2>2
<1>12. ASSUME NEW i \in H2 \ gone2
       PROVE  tag2[i] \in mine2 /\ prior(snap2[tag2[i]], cap) = i
  <2>1. CASE i \in H
    <3>1. i \in H \ gone
      BY <1>12, <2>1
    <3>2. tag[i] \in mine /\ prior(snap[tag[i]], cap) = i /\ tag[i] \in B
      BY <3>1 DEF Follows
    <3> QED BY <2>1, <3>2
  <2>2. CASE add /\ i = e
    <3>1. prior(after(e, cap), cap) = e
      BY StepFacts
    <3> QED BY <2>2, <3>1
  <2> QED BY <1>2, <1>12, <2>1, <2>2
<1> QED BY <1>7, <1>8, <1>10, <1>11, <1>12 DEF Follows

(* The parts of a flush: what is left of the entries and of the tags, and  *)
(* that what is left has not changed.                                      *)
SameEntries(S, tag, tag2, gone, gone2) ==
    \A i \in S : tag2[i] = tag[i] /\ (i \in gone2 <=> i \in gone)

SameFields(S, snap, snap2) == \A t \in S : snap2[t] = snap[t]

upTo(h, s, mine) == {t \in mine : dist(h, t) <= dist(h, s)}

keptSlots(h, s, H, tag, gone) ==
    {i \in H : i \in gone \/ dist(h, tag[i]) <= dist(h, s)}

(* A squash: the tail its target has recorded cuts off exactly the younger *)
(* entries (LQ::flush, SQ::flush).                                         *)
LEMMA FollowsFlush ==
    ASSUME NEW h \in RobTags, NEW n \in RobTags, dist(h, n) <= RobCap,
           NEW cap \in Nat, cap >= 2,
           NEW q \in 0 .. cap - 1, NEW e \in 0 .. cap - 1,
           NEW tag, NEW gone, NEW mine, NEW snap,
           Follows(h, n, q, e, cap, tag, gone, mine, snap),
           NEW s \in Between(h, n), NEW n2, n2 = robNextTag(s),
           NEW e2, e2 = snap[s],
           NEW tag2, NEW gone2, NEW snap2, NEW mine2,
           SameEntries(held(q, e2, cap), tag, tag2, gone, gone2),
           SameFields(Between(h, n2), snap, snap2),
           mine2 = upTo(h, s, mine)
    PROVE  /\ Follows(h, n2, q, e2, cap, tag2, gone2, mine2, snap2)
           /\ held(q, e2, cap) = keptSlots(h, s, held(q, e, cap), tag, gone)
<1> USE DEF SameEntries, SameFields, upTo, keptSlots
<1> DEFINE B == Between(h, n)
           H == held(q, e, cap)
           B2 == Between(h, n2)
           H2 == held(q, e2, cap)
<1>1. /\ s \in RobTags
      /\ B2 = {t \in B : dist(h, t) <= dist(h, s)}
  BY WindowSquash
<1>2. e2 \in 0 .. cap - 1 /\ pos(e2, q, cap) <= pos(e, q, cap)
  BY DEF Follows
<1>3. H2 = {i \in H : pos(i, q, cap) < pos(e2, q, cap)}
  BY <1>2, HeldFlush
<1>4. H2 = {i \in H : i \in gone \/ dist(h, tag[i]) <= dist(h, s)}
  <2>1. \A i \in H : pos(i, q, cap) < pos(e2, q, cap)
                        <=> (i \in gone \/ dist(h, tag[i]) <= dist(h, s))
    BY DEF Follows
  <2> HIDE DEF H, H2
  <2> QED BY <1>3, <2>1
<1>5. mine2 \subseteq B2
  BY <1>1 DEF Follows
<1>6. \A t \in RobTags : dist(h, t) \in Nat
  BY DistFacts
<1>7. \A t \in B : t \in RobTags /\ snap[t] \in 0 .. cap - 1
                     /\ pos(snap[t], q, cap) \in Nat
  <2> SUFFICES ASSUME NEW t \in B
               PROVE  t \in RobTags /\ snap[t] \in 0 .. cap - 1
                        /\ pos(snap[t], q, cap) \in Nat
    OBVIOUS
  <2>1. snap[t] \in 0 .. cap - 1 /\ t \in RobTags
    BY DEF Follows, Between
  <2>2. pos(snap[t], q, cap) \in 0 .. cap - 1
    BY <2>1, PosFacts
  <2> QED BY <2>1, <2>2
<1>8. ASSUME NEW t \in B2
      PROVE  snap2[t] \in 0 .. cap - 1 /\ pos(snap2[t], q, cap) <= pos(e2, q, cap)
  <2>1. t \in B /\ snap2[t] = snap[t] /\ dist(h, t) <= dist(h, s)
    BY <1>1
  <2>2. CASE snap[t] = q
    <3>1. pos(q, q, cap) = 0
      BY PosFacts
    <3>2. pos(e2, q, cap) \in Nat
      BY <1>7
    <3> QED BY <1>7, <2>1, <2>2, <3>1, <3>2
  <2>3. CASE snap[t] # q
    <3> DEFINE p == prior(snap[t], cap)
    <3>1. p \in 0 .. cap - 1 /\ pos(p, q, cap) = pos(snap[t], q, cap) - 1
      BY <1>7, <2>1, <2>3, StepFacts
    <3>2. pos(snap[t], q, cap) <= pos(e, q, cap) /\ pos(e, q, cap) \in 0 .. cap - 1
      BY <2>1, PosFacts DEF Follows
    <3>3. pos(p, q, cap) < pos(e, q, cap)
      BY <1>7, <2>1, <3>1, <3>2
    <3>4. p \in H
      BY <3>1, <3>3 DEF held
    <3>5. pos(p, q, cap) < pos(snap[t], q, cap)
      BY <1>7, <2>1, <3>1
    <3>6. p \in gone \/ dist(h, tag[p]) <= dist(h, t)
      BY <2>1, <3>4, <3>5 DEF Follows
    <3>7. p \notin gone => tag[p] \in RobTags
      BY <3>4 DEF Follows, Between
    <3>8. p \in gone \/ dist(h, tag[p]) <= dist(h, s)
      <4> HIDE DEF p
      <4> QED BY <1>1, <1>6, <1>7, <2>1, <3>6, <3>7
    <3>9. p \in H2
      BY <1>4, <3>4, <3>8
    <3>10. pos(p, q, cap) < pos(e2, q, cap)
      BY <3>9 DEF held
    <3>11. pos(e2, q, cap) \in Nat
      BY <1>7
    <3> HIDE DEF p
    <3>12. pos(snap[t], q, cap) <= pos(e2, q, cap)
      BY <1>7, <2>1, <3>1, <3>10, <3>11
    <3> QED BY <1>7, <2>1, <3>12
  <2> QED BY <2>2, <2>3
<1>9. ASSUME NEW t \in B2, NEW i \in H2
      PROVE  pos(i, q, cap) < pos(snap2[t], q, cap)
               <=> (i \in gone2 \/ dist(h, tag2[i]) <= dist(h, t))
  <2>1. t \in B /\ i \in H /\ snap2[t] = snap[t]
    BY <1>1, <1>3
  <2> QED BY <2>1 DEF Follows
<1>10. ASSUME NEW t \in mine2
       PROVE  /\ prior(snap2[t], cap) \in H2 \ gone2
              /\ tag2[prior(snap2[t], cap)] = t
  <2>1. t \in mine /\ t \in B2 /\ dist(h, t) <= dist(h, s) /\ snap2[t] = snap[t]
    BY <1>5
  <2>2. prior(snap[t], cap) \in H \ gone /\ tag[prior(snap[t], cap)] = t
    BY <2>1 DEF Follows
  <2>3. prior(snap[t], cap) \in H2
    BY <1>4, <2>1, <2>2
  <2> QED BY <2>1, <2>2, <2>3
<1>11. ASSUME NEW i \in H2 \ gone2
       PROVE  tag2[i] \in mine2 /\ prior(snap2[tag2[i]], cap) = i
  <2>1. i \in H \ gone /\ tag2[i] = tag[i] /\ dist(h, tag[i]) <= dist(h, s)
    BY <1>4, <1>11
  <2>2. tag[i] \in mine /\ prior(snap[tag[i]], cap) = i
    BY <2>1 DEF Follows
  <2>3. tag[i] \in mine2
    BY <2>1, <2>2
  <2>4. tag[i] \in B2
    BY <1>5, <2>3
  <2> QED BY <2>1, <2>2, <2>3, <2>4
<1> QED BY <1>4, <1>5, <1>8, <1>9, <1>10, <1>11 DEF Follows

(* A commit: the entry of the head has left, whatever it is.               *)
LEMMA FollowsCommit ==
    ASSUME NEW h \in RobTags, NEW n \in RobTags, h # n,
           NEW cap \in Nat, cap >= 2,
           NEW q \in 0 .. cap - 1, NEW e \in 0 .. cap - 1,
           NEW tag, NEW gone, NEW mine, NEW snap,
           Follows(h, n, q, e, cap, tag, gone, mine, snap),
           NEW gone2, NEW mine2,
           \A i \in held(q, e, cap) :
             i \in gone2 <=> (i \in gone \/ tag[i] = h),
           mine2 = mine \ {h}
    PROVE  Follows(robNextTag(h), n, q, e, cap, tag, gone2, mine2, snap)
<1> DEFINE B == Between(h, n)
           H == held(q, e, cap)
           h2 == robNextTag(h)
           B2 == Between(h2, n)
<1>1. /\ B2 = B \ {h}
      /\ \A t \in RobTags \ {h} : dist(h2, t) = dist(h, t) - 1
  BY WindowPop
<1>2. \A t \in RobTags : dist(h, t) \in Nat /\ (dist(h, t) = 0 <=> h = t)
  BY DistFacts
<1>3. \A i \in H \ gone : tag[i] \in RobTags
  BY DEF Follows, Between
<1>4. ASSUME NEW t \in B2, NEW i \in H
      PROVE  pos(i, q, cap) < pos(snap[t], q, cap)
               <=> (i \in gone2 \/ dist(h2, tag[i]) <= dist(h2, t))
  <2>1. t \in B /\ t # h /\ t \in RobTags
    BY <1>1 DEF Between
  <2>2. pos(i, q, cap) < pos(snap[t], q, cap)
          <=> (i \in gone \/ dist(h, tag[i]) <= dist(h, t))
    BY <2>1 DEF Follows
  <2>3. CASE i \in gone
    BY <2>2, <2>3
  <2>4. CASE i \notin gone /\ tag[i] = h
    <3>1. dist(h, tag[i]) = 0
      BY <1>2, <2>4
    <3>2. dist(h, tag[i]) <= dist(h, t)
      BY <1>2, <2>1, <3>1
    <3>3. i \in gone2
      BY <2>4
    <3> QED BY <2>2, <3>2, <3>3
  <2>5. CASE i \notin gone /\ tag[i] # h
    <3>1. tag[i] \in RobTags \ {h}
      BY <1>3, <2>5
    <3>2. /\ dist(h2, tag[i]) = dist(h, tag[i]) - 1
          /\ dist(h2, t) = dist(h, t) - 1
      BY <1>1, <2>1, <3>1
    <3>3. dist(h, tag[i]) \in Nat /\ dist(h, t) \in Nat
      BY <1>2, <2>1, <3>1
    <3>4. dist(h2, tag[i]) <= dist(h2, t) <=> dist(h, tag[i]) <= dist(h, t)
      BY <3>2, <3>3
    <3> QED BY <2>2, <2>5, <3>4
  <2> QED BY <2>3, <2>4, <2>5
<1>5. ASSUME NEW t \in mine2
      PROVE  /\ prior(snap[t], cap) \in H \ gone2
             /\ tag[prior(snap[t], cap)] = t
  BY <1>5 DEF Follows
<1>6. ASSUME NEW i \in H \ gone2
      PROVE  tag[i] \in mine2 /\ prior(snap[tag[i]], cap) = i
  BY <1>6 DEF Follows
<1>7. mine2 \subseteq B2
  BY <1>1 DEF Follows
<1>8. \A t \in B2 : /\ snap[t] \in 0 .. cap - 1
                    /\ pos(snap[t], q, cap) <= pos(e, q, cap)
  BY <1>1 DEF Follows
<1> QED BY <1>4, <1>5, <1>6, <1>7, <1>8 DEF Follows

(* A pop of an entry that has left the ROB (LQ::pop, SQ::pop).             *)
LEMMA FollowsPop ==
    ASSUME NEW h \in RobTags, NEW n \in RobTags,
           NEW cap \in Nat, cap >= 2,
           NEW q \in 0 .. cap - 1, NEW e \in 0 .. cap - 1, q # e,
           NEW tag, NEW gone, NEW mine, NEW snap,
           Follows(h, n, q, e, cap, tag, gone, mine, snap),
           q \in gone
    PROVE  Follows(h, n, after(q, cap), e, cap, tag, gone, mine, snap)
<1> DEFINE B == Between(h, n)
           H == held(q, e, cap)
           q2 == after(q, cap)
           H2 == held(q2, e, cap)
<1>1. /\ H2 = H \ {q} /\ q \in H
      /\ \A i \in (0 .. cap - 1) \ {q} : pos(i, q2, cap) = pos(i, q, cap) - 1
  BY HeldPop
<1>2. \A i \in 0 .. cap - 1 : pos(i, q, cap) \in Nat
  <2> SUFFICES ASSUME NEW i \in 0 .. cap - 1 PROVE pos(i, q, cap) \in Nat
    OBVIOUS
  <2>1. pos(i, q, cap) \in 0 .. cap - 1
    BY PosFacts
  <2> QED BY <2>1
<1>3. pos(q, q, cap) = 0
  BY PosFacts
<1>4. \A t \in B : snap[t] \in (0 .. cap - 1) \ {q}
  <2> SUFFICES ASSUME NEW t \in B PROVE snap[t] \in (0 .. cap - 1) \ {q}
    OBVIOUS
  <2>1. snap[t] \in 0 .. cap - 1 /\ pos(q, q, cap) < pos(snap[t], q, cap)
    BY <1>1 DEF Follows
  <2> QED BY <1>3, <2>1
<1>5. \A i \in H2 : i \in (0 .. cap - 1) \ {q}
  BY <1>1 DEF held
<1>6. ASSUME NEW t \in B
      PROVE  /\ snap[t] \in 0 .. cap - 1
             /\ pos(snap[t], q2, cap) <= pos(e, q2, cap)
  <2>1. pos(snap[t], q, cap) <= pos(e, q, cap)
    BY DEF Follows
  <2>2. /\ pos(snap[t], q2, cap) = pos(snap[t], q, cap) - 1
        /\ pos(e, q2, cap) = pos(e, q, cap) - 1
    BY <1>1, <1>4
  <2> QED BY <1>2, <1>4, <2>1, <2>2
<1>7. ASSUME NEW t \in B, NEW i \in H2
      PROVE  pos(i, q2, cap) < pos(snap[t], q2, cap)
               <=> (i \in gone \/ dist(h, tag[i]) <= dist(h, t))
  <2>1. pos(i, q, cap) < pos(snap[t], q, cap)
          <=> (i \in gone \/ dist(h, tag[i]) <= dist(h, t))
    BY <1>1 DEF Follows
  <2>2. /\ pos(snap[t], q2, cap) = pos(snap[t], q, cap) - 1
        /\ pos(i, q2, cap) = pos(i, q, cap) - 1
    BY <1>1, <1>4, <1>5
  <2>3. pos(snap[t], q, cap) \in Nat /\ pos(i, q, cap) \in Nat
    BY <1>2, <1>4, <1>5
  <2> QED BY <2>1, <2>2, <2>3
<1>8. ASSUME NEW t \in mine
      PROVE  /\ prior(snap[t], cap) \in H2 \ gone
             /\ tag[prior(snap[t], cap)] = t
  BY <1>1 DEF Follows
<1>9. ASSUME NEW i \in H2 \ gone
      PROVE  tag[i] \in mine /\ prior(snap[tag[i]], cap) = i
  BY <1>1 DEF Follows
<1> QED BY <1>6, <1>7, <1>8, <1>9 DEF Follows

-----------------------------------------------------------------------------
(* How far a load can lag behind the ROB.  A load that has left the ROB    *)
(* waits for the loads before it, one per cycle, and none is retired in a  *)
(* squash cycle; in the meantime the ROB moves on.  What keeps its tag     *)
(* comparable is that its distance from the next tag and its position in   *)
(* the queue together never exceed one turn: a cycle that issues also      *)
(* retires, and a cycle that does not retire does not issue, or every load *)
(* is still in the ROB.  Loads further back have a smaller sum, which is   *)
(* that they are distinct instructions in program order.                   *)

span(i, n, q, cap, tag) == dist(tag[i], n) + pos(i, q, cap)

Spread(h, n, q, e, cap, tag) ==
    /\ \A i \in held(q, e, cap) :
         /\ tag[i] \in RobTags
         /\ dist(tag[i], n) >= 1
         /\ span(i, n, q, cap, tag) <= RobCap
         /\ span(i, n, q, cap, tag) >= pos(e, q, cap)
         /\ h = n => dist(tag[i], n) < RobCap
    /\ \A i, j \in held(q, e, cap) : pos(i, q, cap) <= pos(j, q, cap) =>
         span(i, n, q, cap, tag) >= span(j, n, q, cap, tag)

(* The numbers involved.                                                   *)
LEMMA SpreadFacts ==
    ASSUME NEW h \in RobTags, NEW n \in RobTags,
           NEW cap \in Nat, cap >= 2,
           NEW q \in 0 .. cap - 1, NEW e \in 0 .. cap - 1, NEW tag,
           Spread(h, n, q, e, cap, tag), NEW i \in held(q, e, cap)
    PROVE  /\ i \in 0 .. cap - 1 /\ tag[i] \in RobTags
           /\ pos(i, q, cap) \in Nat /\ pos(e, q, cap) \in Nat
           /\ pos(i, q, cap) < pos(e, q, cap)
           /\ dist(tag[i], n) \in 1 .. RobCap
           /\ span(i, n, q, cap, tag) \in Nat
           /\ span(i, n, q, cap, tag) = dist(tag[i], n) + pos(i, q, cap)
           /\ span(i, n, q, cap, tag) <= RobCap
           /\ span(i, n, q, cap, tag) >= pos(e, q, cap)
<1>1. /\ i \in 0 .. cap - 1 /\ tag[i] \in RobTags
      /\ pos(i, q, cap) < pos(e, q, cap)
      /\ dist(tag[i], n) >= 1
      /\ span(i, n, q, cap, tag) <= RobCap
      /\ span(i, n, q, cap, tag) >= pos(e, q, cap)
  BY DEF Spread, held
<1>2. pos(i, q, cap) \in 0 .. cap - 1 /\ pos(e, q, cap) \in 0 .. cap - 1
  BY <1>1, PosFacts
<1>3. dist(tag[i], n) \in 0 .. 2 * RobCap - 1
  BY <1>1, DistFacts
<1> QED BY <1>1, <1>2, <1>3, RobAssumption DEF span

(* The age comparison that retires loads is right: a load of the queue has *)
(* left the ROB exactly if its tag is older than the head's (LQ::tick).    *)
LEMMA SpreadAge ==
    ASSUME NEW h \in RobTags, NEW n \in RobTags, dist(h, n) <= RobCap,
           NEW cap \in Nat, cap >= 2,
           NEW q \in 0 .. cap - 1, NEW e \in 0 .. cap - 1, NEW tag,
           Spread(h, n, q, e, cap, tag), NEW i \in held(q, e, cap)
    PROVE  /\ tag[i] \in Between(h, n) <=> dist(tag[i], n) <= dist(h, n)
           /\ tag[i] \in Between(h, n) <=> ~isOlder(tag[i], h)
           /\ tag[i] \in Between(h, n) =>
                dist(tag[i], n) = dist(h, n) - dist(h, tag[i])
<1> DEFINE d == dist(tag[i], n)
           o == dist(h, n)
           x == dist(h, tag[i])
           y == dist(tag[i], h)
<1>1. tag[i] \in RobTags /\ d \in 1 .. RobCap
  BY SpreadFacts
<1>2. /\ o \in 0 .. 2 * RobCap - 1 /\ x \in 0 .. 2 * RobCap - 1
      /\ y \in 0 .. 2 * RobCap - 1 /\ RobCap \in Nat /\ RobCap >= 2
      /\ o = 0 => h = n
      /\ o <= RobCap
  BY <1>1, DistFacts, RobAssumption
<1>3. x + d \in {o, o + 2 * RobCap}
  BY <1>1, DistAdd
<1>4. y + o \in {d, d + 2 * RobCap}
  BY <1>1, DistAdd
<1>5. h = n => d < RobCap
  BY DEF Spread
<1>6. isOlder(tag[i], h) <=> y \in 1 .. RobCap - 1
  BY <1>1, OlderNear
<1>7. tag[i] \in Between(h, n) <=> x < o
  BY <1>1 DEF Between
<1> HIDE DEF d, o, x, y
<1>8. x < o <=> d <= o
  BY <1>1, <1>2, <1>3
<1>9. d <= o <=> ~(y \in 1 .. RobCap - 1)
  BY <1>1, <1>2, <1>4, <1>5
<1>10. d <= o => d = o - x
  BY <1>1, <1>2, <1>3
<1> QED BY <1>6, <1>7, <1>8, <1>9, <1>10 DEF d, o, x

(* While the oldest load of the queue is in the ROB, so are all, and the   *)
(* sums do not exceed the ROB's occupancy.                                 *)
LEMMA SpreadLive ==
    ASSUME NEW h \in RobTags, NEW n \in RobTags, dist(h, n) <= RobCap,
           NEW cap \in Nat, cap >= 2,
           NEW q \in 0 .. cap - 1, NEW e \in 0 .. cap - 1, NEW tag,
           Spread(h, n, q, e, cap, tag),
           q = e \/ tag[q] \in Between(h, n),
           NEW i \in held(q, e, cap)
    PROVE  span(i, n, q, cap, tag) <= dist(h, n)
<1>1. pos(q, q, cap) = 0
  BY PosFacts
<1>2. /\ i \in 0 .. cap - 1 /\ pos(i, q, cap) \in Nat
      /\ pos(e, q, cap) \in Nat /\ pos(i, q, cap) < pos(e, q, cap)
      /\ span(i, n, q, cap, tag) \in Nat
  BY SpreadFacts
<1>3. q # e
  BY <1>1, <1>2
<1>4. q \in held(q, e, cap)
  BY <1>1, <1>2 DEF held
<1>5. span(q, n, q, cap, tag) >= span(i, n, q, cap, tag)
  BY <1>1, <1>2, <1>4 DEF Spread
<1>6. /\ span(q, n, q, cap, tag) = dist(tag[q], n) + pos(q, q, cap)
      /\ dist(tag[q], n) \in 1 .. RobCap
  BY <1>4, SpreadFacts
<1>7. dist(tag[q], n) <= dist(h, n)
  BY <1>3, <1>4, SpreadAge
<1>8. dist(h, n) \in 0 .. 2 * RobCap - 1
  BY DistFacts
<1>9. span(q, n, q, cap, tag) <= dist(h, n)
  BY <1>1, <1>6, <1>7, <1>8, RobAssumption
<1> QED BY <1>1, <1>2, <1>5, <1>6, <1>8, <1>9, RobAssumption

(* Retirement makes room for one more.                                     *)
LEMMA SpreadPop ==
    ASSUME NEW h \in RobTags, NEW n \in RobTags,
           NEW cap \in Nat, cap >= 2,
           NEW q \in 0 .. cap - 1, NEW e \in 0 .. cap - 1, NEW tag, q # e,
           Spread(h, n, q, e, cap, tag)
    PROVE  /\ Spread(h, n, after(q, cap), e, cap, tag)
           /\ \A i \in held(after(q, cap), e, cap) :
                span(i, n, after(q, cap), cap, tag) < RobCap
           /\ pos(e, after(q, cap), cap) < RobCap
<1> DEFINE q2 == after(q, cap)
<1>1. /\ held(q2, e, cap) = held(q, e, cap) \ {q}
      /\ q \in held(q, e, cap)
      /\ \A i \in (0 .. cap - 1) \ {q} : pos(i, q2, cap) = pos(i, q, cap) - 1
  BY HeldPop
<1>2. \A i \in held(q, e, cap) :
         /\ i \in 0 .. cap - 1
         /\ tag[i] \in RobTags
         /\ pos(i, q, cap) \in Nat /\ pos(e, q, cap) \in Nat
         /\ dist(tag[i], n) \in 1 .. RobCap
         /\ span(i, n, q, cap, tag) \in Nat
         /\ span(i, n, q, cap, tag) = dist(tag[i], n) + pos(i, q, cap)
         /\ span(i, n, q, cap, tag) <= RobCap
         /\ span(i, n, q, cap, tag) >= pos(e, q, cap)
  BY SpreadFacts
<1>3. pos(e, q2, cap) = pos(e, q, cap) - 1
  BY <1>1
<1>4. \A i \in held(q2, e, cap) :
         /\ i \in held(q, e, cap)
         /\ pos(i, q2, cap) = pos(i, q, cap) - 1
         /\ span(i, n, q2, cap, tag) = span(i, n, q, cap, tag) - 1
  <2> SUFFICES ASSUME NEW i \in held(q2, e, cap)
               PROVE  /\ i \in held(q, e, cap)
                      /\ pos(i, q2, cap) = pos(i, q, cap) - 1
                      /\ span(i, n, q2, cap, tag) = span(i, n, q, cap, tag) - 1
    OBVIOUS
  <2>1. i \in held(q, e, cap) /\ i # q /\ i \in 0 .. cap - 1
    BY <1>1, <1>2
  <2>2. pos(i, q2, cap) = pos(i, q, cap) - 1
    BY <1>1, <2>1
  <2>3. pos(i, q, cap) \in Nat /\ dist(tag[i], n) \in 1 .. RobCap
    BY <1>2, <2>1
  <2> QED BY <2>1, <2>2, <2>3, RobAssumption DEF span
<1> HIDE DEF q2
<1>5. pos(e, q2, cap) < RobCap
  BY <1>1, <1>2, <1>3, RobAssumption
<1>6. \A i \in held(q2, e, cap) :
         /\ span(i, n, q2, cap, tag) < RobCap
         /\ span(i, n, q2, cap, tag) <= RobCap
         /\ span(i, n, q2, cap, tag) >= pos(e, q2, cap)
  BY <1>2, <1>3, <1>4, RobAssumption
<1>7. \A i \in held(q2, e, cap) :
         /\ tag[i] \in RobTags /\ dist(tag[i], n) >= 1
         /\ h = n => dist(tag[i], n) < RobCap
  BY <1>4 DEF Spread
<1>8. \A i, j \in held(q2, e, cap) : pos(i, q2, cap) <= pos(j, q2, cap) =>
         span(i, n, q2, cap, tag) >= span(j, n, q2, cap, tag)
  <2> SUFFICES ASSUME NEW i \in held(q2, e, cap), NEW j \in held(q2, e, cap),
                      pos(i, q2, cap) <= pos(j, q2, cap)
               PROVE  span(i, n, q2, cap, tag) >= span(j, n, q2, cap, tag)
    OBVIOUS
  <2>1. pos(i, q, cap) <= pos(j, q, cap)
    BY <1>2, <1>4
  <2>2. span(i, n, q, cap, tag) >= span(j, n, q, cap, tag)
    BY <1>4, <2>1 DEF Spread
  <2> QED BY <1>2, <1>4, <2>2
<1>9. Spread(h, n, q2, e, cap, tag)
  BY <1>6, <1>7, <1>8 DEF Spread
<1> QED BY <1>5, <1>6, <1>9 DEF q2

(* An issue moves the next tag on; the new entry is the closest to it.     *)
LEMMA SpreadPush ==
    ASSUME NEW h \in RobTags, NEW n \in RobTags, dist(h, n) < RobCap,
           NEW cap \in Nat, cap >= 2,
           NEW q \in 0 .. cap - 1, NEW e \in 0 .. cap - 1, NEW tag,
           Spread(h, n, q, e, cap, tag),
           \A i \in held(q, e, cap) : span(i, n, q, cap, tag) < RobCap,
           pos(e, q, cap) < RobCap,
           NEW add \in BOOLEAN, NEW e2,
           e2 = IF add THEN after(e, cap) ELSE e,
           add => after(e, cap) # q,
           NEW tag2,
           \A i \in held(q, e, cap) : tag2[i] = tag[i],
           add => tag2[e] = n
    PROVE  Spread(h, robNextTag(n), q, e2, cap, tag2)
<1> DEFINE n2 == robNextTag(n)
           H == held(q, e, cap)
           H2 == held(q, e2, cap)
<1>1. /\ n2 \in RobTags /\ h # n2
      /\ RobCap \in Nat /\ RobCap >= 2
  <2>1. n2 \in RobTags /\ dist(h, n2) = dist(h, n) + 1
    BY WindowPush
  <2>2. dist(h, n) \in 0 .. 2 * RobCap - 1 /\ (dist(h, n2) = 0 <=> h = n2)
    BY <2>1, DistFacts
  <2> QED BY <2>1, <2>2, RobAssumption
<1>2. /\ H2 = H \cup (IF add THEN {e} ELSE {})
      /\ pos(e2, q, cap) = pos(e, q, cap) + (IF add THEN 1 ELSE 0)
  <2>1. CASE add
    BY <2>1, HeldPush
  <2>2. CASE ~add
    <3>1. pos(e, q, cap) \in 0 .. cap - 1
      BY PosFacts
    <3> QED BY <2>2, <3>1
  <2> QED BY <2>1, <2>2
<1>3. pos(e, q, cap) \in Nat
  <2>1. pos(e, q, cap) \in 0 .. cap - 1
    BY PosFacts
  <2> QED BY <2>1
<1>4. ASSUME NEW i \in H
      PROVE  /\ tag2[i] \in RobTags
             /\ pos(i, q, cap) \in Nat /\ pos(i, q, cap) < pos(e, q, cap)
             /\ dist(tag2[i], n2) = dist(tag[i], n) + 1
             /\ dist(tag[i], n) \in 1 .. RobCap
             /\ span(i, n2, q, cap, tag2) = span(i, n, q, cap, tag) + 1
             /\ span(i, n, q, cap, tag) \in Nat
             /\ span(i, n, q, cap, tag) < RobCap
             /\ span(i, n, q, cap, tag) >= pos(e, q, cap)
  <2>1. /\ tag[i] \in RobTags /\ tag2[i] = tag[i]
        /\ pos(i, q, cap) \in Nat /\ pos(i, q, cap) < pos(e, q, cap)
        /\ dist(tag[i], n) \in 1 .. RobCap
        /\ span(i, n, q, cap, tag) \in Nat
        /\ span(i, n, q, cap, tag) = dist(tag[i], n) + pos(i, q, cap)
        /\ span(i, n, q, cap, tag) < RobCap
        /\ span(i, n, q, cap, tag) >= pos(e, q, cap)
    BY SpreadFacts
  <2>2. dist(tag[i], n) < 2 * RobCap - 1
    BY <1>1, <2>1
  <2>3. dist(tag[i], n2) = dist(tag[i], n) + 1
    BY <2>1, <2>2, DistNext
  <2>4. span(i, n2, q, cap, tag2) = dist(tag[i], n2) + pos(i, q, cap)
    BY <2>1 DEF span
  <2> QED BY <1>1, <2>1, <2>3, <2>4
<1>5. add => /\ tag2[e] \in RobTags /\ dist(tag2[e], n2) = 1
             /\ span(e, n2, q, cap, tag2) = 1 + pos(e, q, cap)
  <2>1. dist(n, n) = 0
    BY DistFacts
  <2>2. dist(n, n2) = 1
    BY <1>1, <2>1, DistNext
  <2> QED BY <2>2 DEF span
<1> HIDE DEF n2, H, H2
<1>6. ASSUME NEW i \in H2
      PROVE  /\ tag2[i] \in RobTags
             /\ dist(tag2[i], n2) >= 1
             /\ span(i, n2, q, cap, tag2) <= RobCap
             /\ span(i, n2, q, cap, tag2) >= pos(e2, q, cap)
             /\ h # n2
  <2>1. CASE i \in H
    <3>1. span(i, n2, q, cap, tag2) <= RobCap
      BY <1>1, <1>4, <2>1
    <3>2. dist(tag2[i], n2) >= 1
      BY <1>1, <1>4, <2>1
    <3>3. span(i, n2, q, cap, tag2) >= pos(e2, q, cap)
      BY <1>2, <1>3, <1>4, <2>1
    <3> QED BY <1>1, <1>4, <2>1, <3>1, <3>2, <3>3
  <2>2. CASE add /\ i = e
    BY <1>1, <1>2, <1>3, <1>5, <2>2
  <2> QED BY <1>2, <2>1, <2>2
<1>7. ASSUME NEW i \in H2, NEW j \in H2, pos(i, q, cap) <= pos(j, q, cap)
      PROVE  span(i, n2, q, cap, tag2) >= span(j, n2, q, cap, tag2)
  <2>1. CASE i \in H /\ j \in H
    <3>1. span(i, n, q, cap, tag) >= span(j, n, q, cap, tag)
      BY <1>7, <2>1 DEF Spread, H
    <3> QED BY <1>4, <2>1, <3>1
  <2>2. CASE i \in H /\ j = e /\ add
    BY <1>3, <1>4, <1>5, <2>2
  <2>3. CASE i = e /\ j \in H /\ add
    BY <1>3, <1>4, <1>7, <2>3
  <2>4. CASE i = e /\ j = e /\ add
    BY <1>3, <1>5, <2>4
  <2> QED BY <1>2, <2>1, <2>2, <2>3, <2>4
<1> QED BY <1>6, <1>7 DEF Spread, n2, H2

(* A squash moves the next tag and the tail back together.                 *)
LEMMA SpreadFlush ==
    ASSUME NEW h \in RobTags, NEW n \in RobTags, dist(h, n) <= RobCap,
           NEW cap \in Nat, cap >= 2,
           NEW q \in 0 .. cap - 1, NEW e \in 0 .. cap - 1, NEW tag,
           Spread(h, n, q, e, cap, tag),
           NEW s \in Between(h, n), NEW e2 \in 0 .. cap - 1,
           pos(e2, q, cap) <= pos(e, q, cap),
           held(q, e2, cap) =
             {i \in held(q, e, cap) :
                tag[i] \notin Between(h, n) \/ dist(h, tag[i]) <= dist(h, s)},
           NEW tag2,
           \A i \in held(q, e2, cap) : tag2[i] = tag[i]
    PROVE  Spread(h, robNextTag(s), q, e2, cap, tag2)
<1> DEFINE n2 == robNextTag(s)
           H == held(q, e, cap)
           H2 == held(q, e2, cap)
           o == dist(h, n)
           k == o - dist(h, s) - 1
<1>1. /\ s \in RobTags /\ n2 \in RobTags
      /\ dist(h, n2) = dist(h, s) + 1 /\ dist(h, n2) <= o
  BY WindowSquash
<1>2. /\ o \in Nat /\ o <= RobCap /\ RobCap \in Nat /\ RobCap >= 2
      /\ dist(h, s) \in Nat /\ h # n2
  <2>1. /\ o \in 0 .. 2 * RobCap - 1 /\ dist(h, s) \in 0 .. 2 * RobCap - 1
        /\ (dist(h, n2) = 0 <=> h = n2)
    BY <1>1, DistFacts
  <2> QED BY <1>1, <2>1, RobAssumption
<1>3. k \in Nat /\ k < o
  BY <1>1, <1>2
<1>4. dist(n2, n) = k
  <2>1. dist(n2, n) \in 0 .. 2 * RobCap - 1
    BY <1>1, DistFacts
  <2>2. dist(h, n2) + dist(n2, n) \in {o, o + 2 * RobCap}
    BY <1>1, DistAdd
  <2> HIDE DEF o, n2
  <2> QED BY <1>1, <1>2, <2>1, <2>2
<1>5. ASSUME NEW i \in H2
      PROVE  /\ i \in H
             /\ tag2[i] \in RobTags
             /\ pos(i, q, cap) \in Nat /\ pos(i, q, cap) < pos(e2, q, cap)
             /\ dist(tag2[i], n2) = dist(tag[i], n) - k
             /\ dist(tag[i], n) \in 1 .. RobCap
             /\ dist(tag[i], n) > k
             /\ span(i, n2, q, cap, tag2) = span(i, n, q, cap, tag) - k
             /\ span(i, n, q, cap, tag) \in Nat
             /\ span(i, n, q, cap, tag) <= RobCap
  <2>1. i \in H /\ tag2[i] = tag[i]
    OBVIOUS
  <2>2. /\ tag[i] \in RobTags
        /\ pos(i, q, cap) \in Nat
        /\ dist(tag[i], n) \in 1 .. RobCap
        /\ span(i, n, q, cap, tag) \in Nat
        /\ span(i, n, q, cap, tag) = dist(tag[i], n) + pos(i, q, cap)
        /\ span(i, n, q, cap, tag) <= RobCap
    BY <2>1, SpreadFacts
  <2>3. /\ tag[i] \in Between(h, n) <=> dist(tag[i], n) <= dist(h, n)
        /\ tag[i] \in Between(h, n) =>
                dist(tag[i], n) = dist(h, n) - dist(h, tag[i])
    BY <2>1, SpreadAge
  <2>4. dist(h, tag[i]) \in 0 .. 2 * RobCap - 1
    BY <2>2, DistFacts
  <2>5. tag[i] \notin Between(h, n) \/ dist(h, tag[i]) <= dist(h, s)
    OBVIOUS
  <2>6. dist(tag[i], n) > k
    BY <1>2, <1>3, <2>2, <2>3, <2>4, <2>5
  <2>7. dist(tag[i], n2) + dist(n2, n) \in {dist(tag[i], n), dist(tag[i], n) + 2 * RobCap}
    BY <1>1, <2>2, DistAdd
  <2>8. dist(tag[i], n2) \in 0 .. 2 * RobCap - 1
    BY <1>1, <2>2, DistFacts
  <2> HIDE DEF k, n2
  <2>9. dist(tag[i], n2) = dist(tag[i], n) - k
    BY <1>2, <1>3, <1>4, <2>2, <2>6, <2>7, <2>8
  <2>10. span(i, n2, q, cap, tag2) = dist(tag[i], n2) + pos(i, q, cap)
    BY <2>1 DEF span
  <2>11. pos(i, q, cap) < pos(e2, q, cap)
    BY DEF held
  <2> QED BY <1>2, <1>3, <2>1, <2>2, <2>6, <2>9, <2>10, <2>11
<1>6. pos(e2, q, cap) \in 0 .. cap - 1
  BY PosFacts
<1> HIDE DEF n2, k, o
<1>7. ASSUME NEW i \in H2, NEW j \in H2, pos(i, q, cap) <= pos(j, q, cap)
      PROVE  span(i, n2, q, cap, tag2) >= span(j, n2, q, cap, tag2)
  <2>1. span(i, n, q, cap, tag) >= span(j, n, q, cap, tag)
    BY <1>5, <1>7 DEF Spread
  <2> HIDE DEF H, H2
  <2> QED BY <1>3, <1>5, <2>1
<1>8. ASSUME NEW i \in H2
      PROVE  span(i, n2, q, cap, tag2) >= pos(e2, q, cap)
  <2> DEFINE p == prior(e2, cap)
  <2>1. e2 # q
    <3>1. pos(q, q, cap) = 0
      BY PosFacts
    <3> HIDE DEF H, H2
    <3> QED BY <1>5, <3>1
  <2>2. p \in 0 .. cap - 1 /\ pos(p, q, cap) = pos(e2, q, cap) - 1
    BY <2>1, StepFacts
  <2>3. p \in H2
    BY <1>6, <2>2 DEF held
  <2> HIDE DEF H, H2, p
  <2>4. pos(i, q, cap) <= pos(p, q, cap)
    BY <1>5, <1>6, <2>2
  <2>5. span(i, n2, q, cap, tag2) >= span(p, n2, q, cap, tag2)
    BY <1>7, <2>3, <2>4
  <2>6. span(p, n2, q, cap, tag2) >= pos(e2, q, cap)
    <3>1. span(p, n2, q, cap, tag2) = dist(tag2[p], n2) + pos(p, q, cap)
      BY DEF span
    <3>2. dist(tag2[p], n2) >= 1 /\ dist(tag2[p], n2) \in Int
      BY <1>2, <1>3, <1>5, <2>3
    <3> QED BY <1>6, <2>2, <3>1, <3>2
  <2>7. span(i, n2, q, cap, tag2) \in Int /\ span(p, n2, q, cap, tag2) \in Int
    BY <1>3, <1>5, <2>3
  <2> QED BY <1>6, <2>5, <2>6, <2>7
<1>9. ASSUME NEW i \in H2
      PROVE  /\ tag2[i] \in RobTags
             /\ dist(tag2[i], n2) >= 1
             /\ span(i, n2, q, cap, tag2) <= RobCap
             /\ h # n2
  <2> HIDE DEF H, H2
  <2> QED BY <1>2, <1>3, <1>5
<1> QED BY <1>7, <1>8, <1>9 DEF Spread, n2

(* A commit that empties the ROB finds no load a whole turn behind.        *)
LEMMA SpreadCommit ==
    ASSUME NEW h, NEW n, NEW h2, NEW cap, NEW q, NEW e, NEW tag,
           Spread(h, n, q, e, cap, tag),
           h2 = n => \A i \in held(q, e, cap) : dist(tag[i], n) < RobCap
    PROVE  Spread(h2, n, q, e, cap, tag)
BY DEF Spread

-----------------------------------------------------------------------------
(* The inductive invariant.                                                *)

LiveTags == Between(head, next_tag)

liveOf(kind) == {t \in LiveTags : instr(t).kind = kind}

(* The two queues as queues that follow the ROB.  A store has left when it *)
(* is marked committed, a load when its tag is no longer in the window.    *)
sqTags == [i \in SqSlots |-> SQqueue[i].robTag]

sqGone == {i \in SqSlots : SQqueue[i].isCommitted}

sqSnap == [t \in LiveTags |-> entry(t).sqTailSnapshot]

SqFollows ==
    Follows(head, next_tag, sqHead, sqTail, SqCap, sqTags, sqGone,
            liveOf("STORE"), sqSnap)

lqTags == [i \in LqSlots |-> LQqueue[i].robTag]

lqGone == {i \in LqSlots : lqTags[i] \notin LiveTags}

lqSnap == [t \in LiveTags |-> entry(t).lqTailSnapshot]

LqFollows ==
    Follows(head, next_tag, lqHead, lqTail, LqCap, lqTags, lqGone,
            liveOf("LOAD"), lqSnap)

LqSpread == Spread(head, next_tag, lqHead, lqTail, LqCap, lqTags)

(* The entries of the queues and of the ROB.                               *)
StoreEntry ==
    [robTag : RobTags \cup {NoTag}, address : Addrs, value : 0 .. Len(program),
     isAddressReady : BOOLEAN, isValueReady : BOOLEAN, isCommitted : BOOLEAN]

LoadEntry ==
    [robTag : RobTags \cup {NoTag}, address : Addrs, value : Int,
     isAddressReady : BOOLEAN, valueState : ValueState,
     isCDBBroadcast : BOOLEAN]

LiveEntry ==
    [tag : RobTags, type : ROBType, isCommitReady : BOOLEAN, halt : BOOLEAN,
     dest : {0}, pc : 1 .. Len(program), lqTailSnapshot : LqSlots,
     sqTailSnapshot : SqSlots]

QueueTypes ==
    /\ head \in RobTags /\ next_tag \in RobTags
    /\ sqHead \in SqSlots /\ sqTail \in SqSlots
    /\ lqHead \in LqSlots /\ lqTail \in LqSlots
    /\ SQqueue \in [SqSlots -> StoreEntry]
    /\ LQqueue \in [LqSlots -> LoadEntry]
    /\ program \in Programs
    /\ pc \in 1 .. Len(program) + 1

(* The slots of the ROB hold the instructions of the window.               *)
RobHolds ==
    /\ DOMAIN ROBqueue = RobSlots
    /\ dist(head, next_tag) <= RobCap
    /\ \A t \in LiveTags :
         /\ entry(t) \in LiveEntry
         /\ entry(t).tag = t
         /\ entry(t).type = "STORE" <=> instr(t).kind = "STORE"

(* Who waits is live and has not yet got what it waits for.                *)
StationsLive ==
    /\ addrRS \cup agu \subseteq liveOf("LOAD") \cup liveOf("STORE")
    /\ addrRS \cap agu = {}
    /\ valRS \subseteq liveOf("STORE")
    /\ brRS \subseteq liveOf("BRANCH")
    /\ \A t \in addrRS \cup agu :
         /\ instr(t).kind = "LOAD" => ~LQqueue[lqSlotOf(t)].isAddressReady
         /\ instr(t).kind = "STORE" => ~SQqueue[sqSlotOf(t)].isAddressReady
    /\ \A t \in valRS : ~SQqueue[sqSlotOf(t)].isValueReady
    /\ \A t \in brRS : ~entry(t).isCommitReady

(* What is ready to commit has got everything.                             *)
ReadyComplete ==
    \A t \in LiveTags : entry(t).isCommitReady =>
        /\ instr(t).kind = "LOAD" => LQqueue[lqSlotOf(t)].isAddressReady
        /\ instr(t).kind = "STORE" => isReadyToCommit(sqSlotOf(t))

(* Address and value of a store are its own.                               *)
StoresSound ==
    \A t \in liveOf("STORE") :
        LET e == SQqueue[sqSlotOf(t)]
        IN  /\ e.isAddressReady => e.address = instr(t).addr
            /\ e.isValueReady => e.value = entry(t).pc

(* A pending squash names a live instruction, two never the same one.      *)
RequestsLive ==
    /\ \A r \in requests : /\ r \in [SquashTag : RobTags, SquashPC : Nat]
                           /\ r.SquashTag \in LiveTags
                           /\ r.SquashPC \in 1 .. Len(program)
    /\ \A r, s \in requests : r.SquashTag = s.SquashTag => r = s
    /\ \E a, b : requests \subseteq {a, b}

(* The memory side.                                                        *)
GoodRequest(r) ==
    /\ r.op \in {"Load", "Store"} /\ r.block \in Addrs
    /\ r.off = 0 /\ r.n_bytes = 1 /\ r.val \in [{0} -> Int]

MemoryTypes ==
    /\ memory \in [Addrs -> [{0} -> Int]]
    /\ refMem \in [Addrs -> Int]
    /\ \E r : pending \subseteq {r}
    /\ \A r \in pending : GoodRequest(r)
    /\ answer.valid => answer.value[0] \in Int

QInv ==
    /\ QueueTypes /\ RobHolds /\ SqFollows /\ LqFollows /\ LqSpread
    /\ StationsLive /\ ReadyComplete /\ RequestsLive /\ MemoryTypes

-----------------------------------------------------------------------------
(* The snapshot of a cycle.                                                *)

(* The instructions of a program.                                          *)
LEMMA ProgramFacts ==
    ASSUME NEW p \in Programs
    PROVE  /\ Len(p) \in Nat /\ Len(p) >= 1 /\ 0 \in Addrs
           /\ p[Len(p)].kind = "HALT"
           /\ \A k \in 1 .. Len(p) :
                /\ p[k].kind \in {"LOAD", "STORE", "BRANCH", "HALT"}
                /\ p[k].kind \in {"LOAD", "STORE"} => p[k].addr \in Addrs
                /\ p[k].kind = "BRANCH" =>
                     p[k].pred \in 1 .. Len(p) /\ p[k].next \in 1 .. Len(p)
<1>1. /\ p \in Seq(Instr) /\ p # <<>> /\ p[Len(p)].kind = "HALT"
      /\ \A k \in 1 .. Len(p) : p[k].kind = "BRANCH" =>
              p[k].pred \in 1 .. Len(p) /\ p[k].next \in 1 .. Len(p)
  BY LsqAssumption
<1>2. Len(p) \in Nat /\ Len(p) >= 1 /\ \A k \in 1 .. Len(p) : p[k] \in Instr
  BY <1>1
<1>3. 0 \in Addrs
  BY LsqAssumption
<1>4. \A i \in Instr : /\ i.kind \in {"LOAD", "STORE", "BRANCH", "HALT"}
                       /\ i.kind \in {"LOAD", "STORE"} => i.addr \in Addrs
  BY DEF Instr
<1> QED BY <1>1, <1>2, <1>3, <1>4

(* The instructions of the window, with their ages.                        *)
LEMMA LiveFacts ==
    ASSUME QInv, NEW t \in LiveTags
    PROVE  /\ t \in RobTags /\ robSlot(t) \in RobSlots
           /\ dist(head, t) \in Nat
           /\ dist(head, t) < dist(head, next_tag)
           /\ dist(head, next_tag) \in Nat
           /\ dist(head, next_tag) <= RobCap
           /\ dist(head, t) < RobCap
           /\ head # next_tag /\ t # next_tag
           /\ entry(t) \in LiveEntry /\ entry(t).tag = t
           /\ instr(t).kind \in {"LOAD", "STORE", "BRANCH", "HALT"}
<1>1. head \in RobTags /\ next_tag \in RobTags /\ program \in Programs
  BY DEF QInv, QueueTypes
<1>2. t \in RobTags /\ dist(head, t) < dist(head, next_tag)
  BY DEF LiveTags, Between
<1>3. /\ dist(head, t) \in 0 .. 2 * RobCap - 1
      /\ dist(head, next_tag) \in 0 .. 2 * RobCap - 1
      /\ dist(head, next_tag) = 0 <=> head = next_tag
      /\ robSlot(t) \in RobSlots
  BY <1>1, <1>2, DistFacts, SlotFacts
<1>4. /\ dist(head, next_tag) <= RobCap
      /\ entry(t) \in LiveEntry /\ entry(t).tag = t
  BY DEF QInv, RobHolds
<1>5. entry(t).pc \in 1 .. Len(program)
  BY <1>4 DEF LiveEntry
<1>6. instr(t).kind \in {"LOAD", "STORE", "BRANCH", "HALT"}
  BY <1>1, <1>5, ProgramFacts DEF instr
<1> QED BY <1>2, <1>3, <1>4, <1>6, RobAssumption

(* The accepted squash is a pending request, and no request is older       *)
(* (FlushArbiter::arbitResult).                                            *)
LEMMA SquashFacts ==
    ASSUME QInv
    PROVE  /\ squashDetect.needSquash \in BOOLEAN
           /\ ~squashDetect.needSquash => requests = {}
           /\ squashDetect.needSquash =>
                /\ squashDetect.SquashTag \in LiveTags
                /\ squashDetect.SquashPC \in 1 .. Len(program)
                /\ \A r \in requests :
                      ~isOlder(r.SquashTag, squashDetect.SquashTag)
                /\ \E r \in requests : /\ r.SquashTag = squashDetect.SquashTag
                                       /\ r.SquashPC = squashDetect.SquashPC
<1> DEFINE d(r) == dist(head, r.SquashTag)
           First(x) == \A y \in requests :
                          x = y \/ isOlder(x.SquashTag, y.SquashTag)
<1>1. CASE requests = {}
  BY <1>1 DEF squashDetect
<1>2. CASE requests # {}
  <2>1. head \in RobTags
    BY DEF QInv, QueueTypes
  <2>2. \A r \in requests :
           /\ r.SquashTag \in LiveTags /\ r.SquashTag \in RobTags
           /\ r.SquashPC \in 1 .. Len(program)
           /\ d(r) \in Nat /\ d(r) < RobCap
    BY LiveFacts DEF QInv, RequestsLive
  <2>3. ASSUME NEW x \in requests, NEW y \in requests
        PROVE  /\ isOlder(x.SquashTag, y.SquashTag) <=> d(x) < d(y)
               /\ d(x) = d(y) => x = y
    <3>1. isOlder(x.SquashTag, y.SquashTag) <=> d(x) < d(y)
      BY <2>1, <2>2, DistOlder
    <3>2. d(x) = d(y) => x.SquashTag = y.SquashTag
      BY <2>1, <2>2, DistFacts
    <3> QED BY <3>1, <3>2 DEF QInv, RequestsLive
  <2>4. \E x \in requests : First(x)
    <3>1. PICK a, b : requests \subseteq {a, b}
      BY DEF QInv, RequestsLive
    <3>2. \E x \in requests : \A y \in requests : d(x) <= d(y)
      <4> HIDE DEF d
      <4> QED BY <1>2, <2>2, <3>1, RobAssumption
    <3> HIDE DEF d
    <3> QED BY <2>2, <2>3, <3>2
  <2> DEFINE r == CHOOSE x \in requests : First(x)
  <2>5. r \in requests /\ First(r)
    BY <2>4
  <2>6. squashDetect = [needSquash |-> TRUE, SquashTag |-> r.SquashTag,
                        SquashPC |-> r.SquashPC]
    BY <1>2 DEF squashDetect
  <2>7. \A x \in requests : ~isOlder(x.SquashTag, r.SquashTag)
    <3> HIDE DEF d, r
    <3> QED BY <2>2, <2>3, <2>5
  <2> HIDE DEF r
  <2> QED BY <2>2, <2>5, <2>6, <2>7
<1> QED BY <1>1, <1>2

(* In a squash cycle the instructions older than the target are live, and  *)
(* the target and the older ones are kept.                                 *)
LEMMA SquashAges ==
    ASSUME QInv, squashDetect.needSquash, NEW t \in LiveTags
    PROVE  LET s == squashDetect.SquashTag
           IN  /\ live(t) <=> dist(head, t) < dist(head, s)
               /\ kept(t) <=> dist(head, t) <= dist(head, s)
<1> DEFINE s == squashDetect.SquashTag
<1>1. s \in LiveTags /\ head \in RobTags
  BY SquashFacts DEF QInv, QueueTypes
<1>2. /\ s \in RobTags /\ dist(head, s) \in Nat /\ dist(head, s) < RobCap
      /\ t \in RobTags /\ dist(head, t) \in Nat /\ dist(head, t) < RobCap
  BY <1>1, LiveFacts
<1>3. /\ isOlder(t, s) <=> dist(head, t) < dist(head, s)
      /\ isOlder(s, t) <=> dist(head, s) < dist(head, t)
  BY <1>1, <1>2, DistOlder
<1>4. live(t) <=> isOlder(t, s)
  BY DEF live, survives
<1>5. kept(t) <=> ~isOlder(s, t)
  BY DEF kept
<1> HIDE DEF s
<1>6. /\ live(t) <=> dist(head, t) < dist(head, s)
      /\ kept(t) <=> dist(head, t) <= dist(head, s)
  BY <1>2, <1>3, <1>4, <1>5
<1> QED BY <1>6 DEF s

-----------------------------------------------------------------------------
(* One cycle: the ROB.                                                     *)

IssuePacket == [valid |-> TRUE, robEntry |-> entryOf(curr)]

(* A cycle and what it may carry.                                          *)
StepOf(pkt, dispatch, vals, brs) ==
    /\ pkt = NoPacket \/ (canIssue /\ pkt = IssuePacket)
    /\ dispatch \in AtMostOne({t \in addrRS : live(t)})
    /\ vals \in SUBSET valRS
    /\ brs \in AtMostOne(brRS)
    /\ Cycle(pkt, dispatch, vals, brs)

(* The issued instruction.                                                 *)
LEMMA PacketFacts ==
    ASSUME QInv, NEW pkt, pkt = NoPacket \/ (canIssue /\ pkt = IssuePacket)
    PROVE  /\ pkt.valid \in BOOLEAN
           /\ pkt.valid =>
                /\ ~squashDetect.needSquash
                /\ dist(head, next_tag) < RobCap
                /\ pc \in 1 .. Len(program)
                /\ curr.kind \in {"LOAD", "STORE", "BRANCH", "HALT"}
                /\ pkt.robEntry = entryOf(curr)
                /\ curr.kind = "LOAD" => lqNext(lqTail) # lqHead
                /\ curr.kind = "STORE" => sqNext(sqTail) # sqHead
                /\ [pkt.robEntry EXCEPT !.tag = next_tag] \in LiveEntry
                /\ [pkt.robEntry EXCEPT !.tag = next_tag].tag = next_tag
                /\ [pkt.robEntry EXCEPT !.tag = next_tag].pc = pc
                /\ [pkt.robEntry EXCEPT !.tag = next_tag].isCommitReady
                     => curr.kind = "HALT"
                /\ [pkt.robEntry EXCEPT !.tag = next_tag].type = "STORE"
                     <=> curr.kind = "STORE"
                /\ pkt.robEntry.type = "STORE" <=> curr.kind = "STORE"
                /\ [pkt.robEntry EXCEPT !.tag = next_tag].lqTailSnapshot =
                     IF curr.kind = "LOAD" THEN lqNext(lqTail) ELSE lqTail
                /\ [pkt.robEntry EXCEPT !.tag = next_tag].sqTailSnapshot =
                     IF curr.kind = "STORE" THEN sqNext(sqTail) ELSE sqTail
<1>1. CASE pkt = NoPacket
  BY <1>1 DEF NoPacket
<1>2. CASE canIssue /\ pkt = IssuePacket
  <2>1. /\ head \in RobTags /\ next_tag \in RobTags /\ program \in Programs
        /\ lqTail \in LqSlots /\ sqTail \in SqSlots
        /\ pc \in 1 .. Len(program) + 1 /\ Len(program) \in Nat
    BY ProgramFacts DEF QInv, QueueTypes
  <2>2. pkt.valid = TRUE /\ pkt.robEntry = entryOf(curr)
    BY <1>2 DEF IssuePacket
  <2>3. /\ ~squashDetect.needSquash /\ pc <= Len(program) /\ ~isFull
        /\ curr.kind = "LOAD" => lqNext(lqTail) # lqHead
        /\ curr.kind = "STORE" => sqNext(sqTail) # sqHead
    BY <1>2 DEF canIssue, lqIsFull, sqIsFull
  <2>4. pc \in 1 .. Len(program)
    BY <2>1, <2>3
  <2>5. curr.kind \in {"LOAD", "STORE", "BRANCH", "HALT"}
    BY <2>1, <2>4, ProgramFacts DEF curr
  <2>6. dist(head, next_tag) < RobCap
    <3>1. dist(head, next_tag) <= RobCap
      BY DEF QInv, RobHolds
    <3>2. dist(head, next_tag) \in 0 .. 2 * RobCap - 1
      BY <2>1, DistFacts
    <3>3. dist(head, next_tag) # RobCap
      <4>1. dist(head, next_tag) = RobCap => robSlot(next_tag) = robSlot(head)
        BY <2>1, SlotFacts
      <4>2. dist(head, next_tag) = RobCap => next_tag # head
        BY <2>1, DistFacts, RobAssumption
      <4> QED BY <2>3, <4>1, <4>2 DEF isFull
    <3> QED BY <3>1, <3>2, <3>3, RobAssumption
  <2>7. lqNext(lqTail) \in LqSlots /\ sqNext(sqTail) \in SqSlots
    <3>1. after(lqTail, LqCap) \in 0 .. LqCap - 1
      BY <2>1, LqAssumption, StepFacts DEF LqSlots
    <3>2. after(sqTail, SqCap) \in 0 .. SqCap - 1
      BY <2>1, SqAssumption, StepFacts DEF SqSlots
    <3> QED BY <3>1, <3>2 DEF after, lqNext, sqNext, LqSlots, SqSlots
  <2> DEFINE ls == IF curr.kind = "LOAD" THEN lqNext(lqTail) ELSE lqTail
             ss == IF curr.kind = "STORE" THEN sqNext(sqTail) ELSE sqTail
             ty == CASE curr.kind = "STORE" -> "STORE"
                     [] curr.kind = "BRANCH" -> "BRANCH"
                     [] OTHER -> "REGISTER"
             new == [pkt.robEntry EXCEPT !.tag = next_tag]
  <2>8. ty \in ROBType /\ (ty = "STORE" <=> curr.kind = "STORE")
    BY <2>5 DEF ROBType
  <2>9. pkt.robEntry = [tag |-> NoTag, type |-> ty,
                        isCommitReady |-> curr.kind = "HALT",
                        halt |-> curr.kind = "HALT", dest |-> 0, pc |-> pc,
                        lqTailSnapshot |-> ls, sqTailSnapshot |-> ss]
    BY <2>2 DEF entryOf
  <2> HIDE DEF ty, ls, ss
  <2>10. new = [tag |-> next_tag, type |-> ty,
                isCommitReady |-> curr.kind = "HALT",
                halt |-> curr.kind = "HALT", dest |-> 0, pc |-> pc,
                lqTailSnapshot |-> ls, sqTailSnapshot |-> ss]
    BY <2>9
  <2>11. (curr.kind = "HALT") \in BOOLEAN /\ ls \in LqSlots /\ ss \in SqSlots
    BY <2>1, <2>7 DEF ls, ss
  <2>12. new \in LiveEntry
    BY <2>1, <2>4, <2>8, <2>10, <2>11 DEF LiveEntry
  <2>13. /\ new.tag = next_tag /\ new.pc = pc /\ new.type = ty
         /\ new.lqTailSnapshot = ls /\ new.sqTailSnapshot = ss
         /\ pkt.robEntry.type = ty
    BY <2>9, <2>10
  <2>14. new.isCommitReady => curr.kind = "HALT"
    <3> SUFFICES ASSUME curr.kind # "HALT" PROVE new.isCommitReady = FALSE
      OBVIOUS
    <3>1. (curr.kind = "HALT") = FALSE
      OBVIOUS
    <3>2. new = [tag |-> next_tag, type |-> ty, isCommitReady |-> FALSE,
                 halt |-> FALSE, dest |-> 0, pc |-> pc,
                 lqTailSnapshot |-> ls, sqTailSnapshot |-> ss]
      BY <2>10, <3>1
    <3> QED BY <3>2
  <2>15. /\ new.type = "STORE" <=> curr.kind = "STORE"
         /\ pkt.robEntry.type = "STORE" <=> curr.kind = "STORE"
    BY <2>8, <2>13
  <2> HIDE DEF new
  <2> QED BY <2>2, <2>3, <2>4, <2>5, <2>6, <2>12, <2>13, <2>14, <2>15
          DEF new, ls, ss
<1> QED BY <1>1, <1>2

(* The window of the next cycle, in two steps: an issue or a squash, then  *)
(* a commit (ROB::tick).                                                   *)
LEMMA WindowStep ==
    ASSUME QInv, NEW pkt, NEW done,
           pkt = NoPacket \/ (canIssue /\ pkt = IssuePacket),
           ROBtick(pkt, done, squashDetect)
    PROVE  /\ head' \in RobTags /\ next_tag' \in RobTags
           /\ dist(head, next_tag') <= RobCap
           /\ dist(head', next_tag') <= RobCap
           /\ pkt.valid => next_tag' = robNextTag(next_tag)
           /\ squashDetect.needSquash =>
                next_tag' = robNextTag(squashDetect.SquashTag)
           /\ ~pkt.valid /\ ~squashDetect.needSquash => next_tag' = next_tag
           /\ willCommit(squashDetect) =>
                /\ head' = robNextTag(head)
                /\ head # next_tag' /\ head \in LiveTags
           /\ ~willCommit(squashDetect) => head' = head
           /\ squashDetect.needSquash => head' # next_tag'
           /\ Between(head, next_tag') =
                {t \in LiveTags : kept(t)} \cup (IF pkt.valid THEN {next_tag} ELSE {})
           /\ Between(head', next_tag') =
                IF willCommit(squashDetect)
                  THEN Between(head, next_tag') \ {head}
                  ELSE Between(head, next_tag')
<1> DEFINE s == squashDetect.SquashTag
           n == dist(head, next_tag)
<1>1. /\ head \in RobTags /\ next_tag \in RobTags
      /\ n \in 0 .. 2 * RobCap - 1 /\ n <= RobCap
      /\ RobCap \in Nat /\ RobCap >= 2
      /\ n = 0 <=> head = next_tag
  BY DistFacts, RobAssumption DEF QInv, QueueTypes, RobHolds
<1>2. /\ head' = IF willCommit(squashDetect) THEN robNextTag(head) ELSE head
      /\ next_tag' = flushedTail(pkt, squashDetect)
  BY DEF ROBtick
<1>3. /\ pkt.valid \in BOOLEAN /\ squashDetect.needSquash \in BOOLEAN
      /\ pkt.valid => ~squashDetect.needSquash /\ n < RobCap
  BY PacketFacts, SquashFacts
<1>4. willCommit(squashDetect) => head # next_tag
  BY DEF willCommit, isEmpty
<1>5. /\ next_tag' \in RobTags
      /\ dist(head, next_tag') <= RobCap
      /\ pkt.valid => next_tag' = robNextTag(next_tag)
      /\ squashDetect.needSquash => next_tag' = robNextTag(s)
      /\ ~pkt.valid /\ ~squashDetect.needSquash => next_tag' = next_tag
      /\ willCommit(squashDetect) => head # next_tag'
      /\ Between(head, next_tag') =
           {t \in LiveTags : kept(t)} \cup (IF pkt.valid THEN {next_tag} ELSE {})
  <2>1. CASE pkt.valid
    <3>1. next_tag' = robNextTag(next_tag) /\ ~squashDetect.needSquash
      BY <1>2, <1>3, <2>1 DEF flushedTail, pushedTail
    <3>2. /\ next_tag' \in RobTags /\ dist(head, next_tag') = n + 1
          /\ Between(head, next_tag') = LiveTags \cup {next_tag}
      BY <1>1, <1>3, <2>1, <3>1, WindowPush DEF LiveTags
    <3>3. head # next_tag'
      BY <1>1, <3>2, DistFacts
    <3>4. LiveTags = {t \in LiveTags : kept(t)}
      BY <3>1 DEF kept
    <3> HIDE DEF n
    <3> QED BY <1>1, <1>3, <2>1, <3>1, <3>2, <3>3, <3>4 DEF n
  <2>2. CASE squashDetect.needSquash
    <3>1. ~pkt.valid
      BY <1>3, <2>2
    <3>2. s \in LiveTags /\ entry(s).tag = s /\ head # next_tag
      BY <2>2, SquashFacts, LiveFacts
    <3>3. next_tag' = robNextTag(s)
      BY <1>2, <2>2, <3>1, <3>2
      DEF flushedTail, pushedTail, pushedQueue, entry
    <3>4. /\ s \in RobTags /\ next_tag' \in RobTags
          /\ dist(head, next_tag') = dist(head, s) + 1
          /\ dist(head, next_tag') <= n
          /\ Between(head, next_tag') =
               {t \in LiveTags : dist(head, t) <= dist(head, s)}
      BY <1>1, <3>2, <3>3, WindowSquash DEF LiveTags
    <3>5. \A t \in LiveTags : kept(t) <=> dist(head, t) <= dist(head, s)
      BY <2>2, SquashAges
    <3>6. dist(head, s) \in 0 .. 2 * RobCap - 1 /\ (dist(head, next_tag') = 0 <=> head = next_tag')
      BY <1>1, <3>4, DistFacts
    <3>7. head # next_tag' /\ dist(head, next_tag') <= RobCap
      BY <1>1, <3>4, <3>6
    <3> HIDE DEF n, s
    <3> QED BY <2>2, <3>1, <3>3, <3>4, <3>5, <3>7 DEF s
  <2>3. CASE ~pkt.valid /\ ~squashDetect.needSquash
    <3>1. next_tag' = next_tag
      BY <1>2, <2>3 DEF flushedTail, pushedTail
    <3>2. LiveTags = {t \in LiveTags : kept(t)}
      BY <2>3 DEF kept
    <3> QED BY <1>1, <1>4, <2>3, <3>1, <3>2 DEF LiveTags
  <2> QED BY <1>3, <2>1, <2>2, <2>3
<1>6. ASSUME willCommit(squashDetect)
      PROVE  /\ head' = robNextTag(head) /\ head' \in RobTags
             /\ dist(head', next_tag') = dist(head, next_tag') - 1
             /\ Between(head', next_tag') = Between(head, next_tag') \ {head}
             /\ head \in LiveTags
  BY <1>1, <1>2, <1>4, <1>5, <1>6, WindowPop DEF LiveTags
<1>7. dist(head, next_tag') \in 0 .. 2 * RobCap - 1
  BY <1>1, <1>5, DistFacts
<1>8. dist(head', next_tag') <= RobCap
  <2>1. CASE willCommit(squashDetect)
    BY <1>1, <1>5, <1>6, <1>7, <2>1
  <2>2. CASE ~willCommit(squashDetect)
    BY <1>2, <1>5, <2>2
  <2> QED BY <2>1, <2>2
<1>9. ASSUME squashDetect.needSquash PROVE head' # next_tag'
  <2>1. s \in Between(head, next_tag')
    <3>1. s \in LiveTags
      BY <1>9, SquashFacts
    <3>2. dist(head, s) <= dist(head, s)
      BY <3>1, LiveFacts
    <3>3. kept(s)
      BY <1>9, <3>1, <3>2, SquashAges
    <3> QED BY <1>5, <3>1, <3>3
  <2>2. CASE willCommit(squashDetect)
    <3>1. isOlder(head, s)
      BY <1>9, <2>2 DEF willCommit, survives
    <3>2. head # s
      <4>1. dist(head, head) = 0
        BY <1>1, DistFacts
      <4>2. isOlder(head, head) <=> dist(head, head) \in 1 .. RobCap - 1
        BY <1>1, OlderNear
      <4> QED BY <1>1, <3>1, <4>1, <4>2
    <3>3. s \in Between(head', next_tag')
      BY <1>6, <2>1, <2>2, <3>2
    <3>4. dist(head', s) < dist(head', next_tag') /\ s \in RobTags
      BY <3>3 DEF Between
    <3>5. head' \in RobTags
      BY <1>6, <2>2
    <3>6. dist(head', s) \in Nat /\ dist(head', head') = 0
      <4>1. dist(head', s) \in 0 .. 2 * RobCap - 1 /\ dist(head', head') = 0
        BY <3>4, <3>5, DistFacts
      <4> QED BY <4>1
    <3>7. next_tag' \in RobTags /\ dist(head', next_tag') \in 0 .. 2 * RobCap - 1
      BY <1>5, <3>5, DistFacts
    <3>8. dist(head', next_tag') # 0
      BY <1>1, <3>4, <3>6, <3>7
    <3> QED BY <3>6, <3>8
  <2>3. CASE ~willCommit(squashDetect)
    <3>1. head' = head
      BY <1>2, <2>3
    <3>2. dist(head, s) < dist(head, next_tag') /\ s \in RobTags
      BY <2>1 DEF Between
    <3>3. dist(head, s) \in 0 .. 2 * RobCap - 1 /\ dist(head, head) = 0
      BY <1>1, <3>2, DistFacts
    <3> QED BY <1>1, <1>7, <3>1, <3>2, <3>3
  <2> QED BY <2>2, <2>3
<1> QED BY <1>1, <1>2, <1>5, <1>6, <1>8, <1>9

(* The queues of LSQ in the terms of the ring lemmas.                      *)
LEMMA QueueTerms ==
    /\ sqActive = held(sqHead, sqTail, SqCap)
    /\ \A i : sqPos(i) = pos(i, sqHead, SqCap)
    /\ \A t \in LiveTags : sqSlotOf(t) = prior(sqSnap[t], SqCap)
    /\ \A i : sqNext(i) = after(i, SqCap)
    /\ lqActive = held(lqHead, lqTail, LqCap)
    /\ \A i : lqPos(i) = pos(i, lqHead, LqCap)
    /\ \A t \in LiveTags : lqSlotOf(t) = prior(lqSnap[t], LqCap)
    /\ \A i : lqNext(i) = after(i, LqCap)
    /\ SqSlots = 0 .. SqCap - 1 /\ LqSlots = 0 .. LqCap - 1
    /\ SqCap \in Nat /\ SqCap >= 2 /\ LqCap \in Nat /\ LqCap >= 2
BY SqAssumption, LqAssumption
DEF sqActive, sqPos, sqSlotOf, sqSnap, sqNext, SqSlots, lqActive, lqPos, lqSlotOf,
    lqSnap, lqNext, LqSlots, held, pos, prior, after

(* An active store is committed or the store of a live instruction, which  *)
(* finds it by its memIndex.                                               *)
LEMMA StoreSlots ==
    ASSUME QInv
    PROVE  /\ \A i \in sqActive :
                /\ i \in SqSlots /\ SQqueue[i] \in StoreEntry
                /\ ~SQqueue[i].isCommitted =>
                     /\ SQqueue[i].robTag \in liveOf("STORE")
                     /\ sqSlotOf(SQqueue[i].robTag) = i
           /\ \A t \in liveOf("STORE") :
                /\ sqSlotOf(t) \in sqActive
                /\ ~SQqueue[sqSlotOf(t)].isCommitted
                /\ SQqueue[sqSlotOf(t)].robTag = t
<1>1. SqFollows /\ SQqueue \in [SqSlots -> StoreEntry]
  BY DEF QInv, QueueTypes
<1>2. ASSUME NEW i \in sqActive
      PROVE  /\ i \in SqSlots /\ SQqueue[i] \in StoreEntry
             /\ ~SQqueue[i].isCommitted =>
                  /\ SQqueue[i].robTag \in liveOf("STORE")
                  /\ sqSlotOf(SQqueue[i].robTag) = i
  <2>1. i \in SqSlots /\ SQqueue[i] \in StoreEntry
    BY <1>1 DEF sqActive
  <2>2. ASSUME ~SQqueue[i].isCommitted
        PROVE  /\ SQqueue[i].robTag \in liveOf("STORE")
               /\ sqSlotOf(SQqueue[i].robTag) = i
    <3>1. i \in held(sqHead, sqTail, SqCap) \ sqGone
      BY <2>2, QueueTerms DEF sqGone
    <3>2. sqTags[i] \in liveOf("STORE") /\ prior(sqSnap[sqTags[i]], SqCap) = i
      BY <1>1, <3>1 DEF SqFollows, Follows
    <3>3. sqTags[i] = SQqueue[i].robTag
      BY <2>1 DEF sqTags
    <3> QED BY <3>2, <3>3, QueueTerms DEF liveOf
  <2> QED BY <2>1, <2>2
<1>3. ASSUME NEW t \in liveOf("STORE")
      PROVE  /\ sqSlotOf(t) \in sqActive
             /\ ~SQqueue[sqSlotOf(t)].isCommitted
             /\ SQqueue[sqSlotOf(t)].robTag = t
  <2>1. t \in LiveTags /\ sqSlotOf(t) = prior(sqSnap[t], SqCap)
    BY QueueTerms DEF liveOf
  <2>2. /\ sqSlotOf(t) \in held(sqHead, sqTail, SqCap) \ sqGone
        /\ sqTags[sqSlotOf(t)] = t
    BY <1>1, <2>1 DEF SqFollows, Follows
  <2>3. sqSlotOf(t) \in SqSlots
    BY <2>2, QueueTerms DEF held
  <2> QED BY <2>2, <2>3, QueueTerms DEF sqGone, sqTags
<1> QED BY <1>2, <1>3

(* The same for loads; one that has left the ROB is older than the head,   *)
(* and no load has the tag that is handed out next.                        *)
LEMMA LoadSlots ==
    ASSUME QInv
    PROVE  /\ \A i \in lqActive :
                /\ i \in LqSlots /\ LQqueue[i] \in LoadEntry
                /\ LQqueue[i].robTag \in RobTags
                /\ LQqueue[i].robTag # next_tag
                /\ LQqueue[i].robTag \in LiveTags
                     <=> ~isOlder(LQqueue[i].robTag, head)
                /\ LQqueue[i].robTag \in LiveTags =>
                     /\ LQqueue[i].robTag \in liveOf("LOAD")
                     /\ lqSlotOf(LQqueue[i].robTag) = i
           /\ \A t \in liveOf("LOAD") :
                /\ lqSlotOf(t) \in lqActive
                /\ LQqueue[lqSlotOf(t)].robTag = t
<1>1. /\ LqFollows /\ LqSpread /\ LQqueue \in [LqSlots -> LoadEntry]
      /\ head \in RobTags /\ next_tag \in RobTags
      /\ dist(head, next_tag) <= RobCap
      /\ lqHead \in 0 .. LqCap - 1 /\ lqTail \in 0 .. LqCap - 1
  BY QueueTerms DEF QInv, QueueTypes, RobHolds
<1>2. ASSUME NEW i \in lqActive
      PROVE  /\ i \in LqSlots /\ LQqueue[i] \in LoadEntry
             /\ LQqueue[i].robTag \in RobTags
             /\ LQqueue[i].robTag # next_tag
             /\ LQqueue[i].robTag \in LiveTags
                  <=> ~isOlder(LQqueue[i].robTag, head)
             /\ LQqueue[i].robTag \in LiveTags =>
                  /\ LQqueue[i].robTag \in liveOf("LOAD")
                  /\ lqSlotOf(LQqueue[i].robTag) = i
  <2>1. /\ i \in LqSlots /\ LQqueue[i] \in LoadEntry
        /\ lqTags[i] = LQqueue[i].robTag
        /\ i \in held(lqHead, lqTail, LqCap)
    BY <1>1, QueueTerms DEF lqActive, lqTags
  <2>2. lqTags[i] \in RobTags /\ dist(lqTags[i], next_tag) \in 1 .. RobCap
    BY <1>1, <2>1, QueueTerms, SpreadFacts DEF LqSpread
  <2>3. lqTags[i] # next_tag
    <3>1. dist(next_tag, next_tag) = 0
      BY <1>1, DistFacts
    <3> QED BY <2>2, <3>1
  <2>4. lqTags[i] \in LiveTags <=> ~isOlder(lqTags[i], head)
    BY <1>1, <2>1, QueueTerms, SpreadAge DEF LqSpread, LiveTags
  <2>5. ASSUME lqTags[i] \in LiveTags
        PROVE  lqTags[i] \in liveOf("LOAD") /\ lqSlotOf(lqTags[i]) = i
    <3>1. i \in held(lqHead, lqTail, LqCap) \ lqGone
      BY <2>1, <2>5 DEF lqGone
    <3>2. lqTags[i] \in liveOf("LOAD") /\ prior(lqSnap[lqTags[i]], LqCap) = i
      BY <1>1, <3>1 DEF LqFollows, Follows
    <3> QED BY <2>5, <3>2, QueueTerms
  <2> QED BY <2>1, <2>2, <2>3, <2>4, <2>5
<1>3. ASSUME NEW t \in liveOf("LOAD")
      PROVE  /\ lqSlotOf(t) \in lqActive
             /\ LQqueue[lqSlotOf(t)].robTag = t
  <2>1. t \in LiveTags /\ lqSlotOf(t) = prior(lqSnap[t], LqCap)
    BY QueueTerms DEF liveOf
  <2>2. /\ lqSlotOf(t) \in held(lqHead, lqTail, LqCap) \ lqGone
        /\ lqTags[lqSlotOf(t)] = t
    BY <1>1, <2>1 DEF LqFollows, Follows
  <2>3. lqSlotOf(t) \in LqSlots
    BY <2>2, QueueTerms DEF held
  <2> QED BY <2>2, <2>3, QueueTerms DEF lqTags
<1> QED BY <1>2, <1>3

(* What is reported to the ROB is complete (CDB of the LQ, BRU, SQ).       *)
LEMMA DoneFacts ==
    ASSUME QInv, NEW brs \in AtMostOne(brRS)
    PROVE  /\ next_tag \notin robDone(brs)
           /\ \A t \in robDone(brs) : t \in LiveTags =>
                /\ instr(t).kind = "BRANCH" => t \in brs
                /\ instr(t).kind = "LOAD" => LQqueue[lqSlotOf(t)].isAddressReady
                /\ instr(t).kind = "STORE" => isReadyToCommit(sqSlotOf(t))
<1>1. brs \subseteq brRS /\ brs \subseteq liveOf("BRANCH")
  BY DEF AtMostOne, QInv, StationsLive
<1>2. ASSUME NEW i \in lqCDB(squashDetect)
      PROVE  i \in lqActive /\ LQqueue[i].isAddressReady
  BY DEF lqCDB, CDBDetect, lqOldest
<1>3. ASSUME NEW t \in robDone(brs)
      PROVE  /\ t # next_tag
             /\ t \in LiveTags =>
                /\ instr(t).kind = "BRANCH" => t \in brs
                /\ instr(t).kind = "LOAD" => LQqueue[lqSlotOf(t)].isAddressReady
                /\ instr(t).kind = "STORE" => isReadyToCommit(sqSlotOf(t))
  <2>1. CASE t \in {LQqueue[i].robTag : i \in lqCDB(squashDetect)}
    <3>1. PICK i \in lqCDB(squashDetect) : t = LQqueue[i].robTag
      BY <2>1
    <3> QED BY <1>2, <3>1, LoadSlots DEF liveOf
  <2>2. CASE t \in brs
    BY <1>1, <2>2, LiveFacts DEF liveOf
  <2>3. CASE t \in {SQqueue[i].robTag : i \in {j \in sqActive :
                      /\ isReadyToCommit(j) /\ ~SQqueue[j].isCommitted
                      /\ live(SQqueue[j].robTag)}}
    <3>1. PICK i \in sqActive : /\ isReadyToCommit(i) /\ ~SQqueue[i].isCommitted
                                /\ t = SQqueue[i].robTag
      BY <2>3
    <3>2. t \in liveOf("STORE") /\ sqSlotOf(t) = i
      BY <3>1, StoreSlots
    <3> QED BY <3>1, <3>2, LiveFacts DEF liveOf
  <2> QED BY <1>3, <2>1, <2>2, <2>3 DEF robDone
<1> QED BY <1>3

(* ROB::tick on the entries: those of the window are only marked ready,    *)
(* the issued one takes the slot of its tag.                               *)
LEMMA EntryStep ==
    ASSUME QInv, NEW pkt, NEW dispatch, NEW vals, NEW brs,
           StepOf(pkt, dispatch, vals, brs)
    PROVE  /\ DOMAIN ROBqueue' = RobSlots
           /\ \A t \in LiveTags :
                ROBqueue'[robSlot(t)] =
                  IF t \in robDone(brs)
                    THEN [entry(t) EXCEPT !.isCommitReady = TRUE] ELSE entry(t)
           /\ pkt.valid => ROBqueue'[robSlot(next_tag)] =
                              [pkt.robEntry EXCEPT !.tag = next_tag]
<1> DEFINE done == robDone(brs)
<1>1. /\ head \in RobTags /\ next_tag \in RobTags
      /\ DOMAIN ROBqueue = RobSlots
  BY DEF QInv, QueueTypes, RobHolds
<1>2. /\ pkt = NoPacket \/ (canIssue /\ pkt = IssuePacket)
      /\ brs \in AtMostOne(brRS)
      /\ ROBtick(pkt, done, squashDetect)
  BY DEF StepOf, Cycle
<1>3. next_tag \notin done
  BY <1>2, DoneFacts
<1>4. pkt.valid => /\ dist(head, next_tag) < RobCap
                   /\ [pkt.robEntry EXCEPT !.tag = next_tag].tag = next_tag
  BY <1>2, PacketFacts
<1>5. \A t \in LiveTags :
         robSlot(t) \in RobSlots /\ (pkt.valid => robSlot(t) # robSlot(next_tag))
  BY <1>1, <1>4, LiveFacts, DistSlot
<1>6. robSlot(next_tag) \in RobSlots
  BY <1>1, SlotFacts
<1>7. \A t \in LiveTags : pushedQueue(pkt)[robSlot(t)] = entry(t)
  BY <1>1, <1>5, <1>6 DEF pushedQueue, entry
<1>8. pkt.valid => pushedQueue(pkt)[robSlot(next_tag)] =
                     [pkt.robEntry EXCEPT !.tag = next_tag]
  BY <1>1, <1>6 DEF pushedQueue
<1>9. ROBqueue' = readyQueue(pkt, done)
  BY <1>2 DEF ROBtick
<1>10. ASSUME NEW t \in LiveTags
       PROVE  ROBqueue'[robSlot(t)] =
                IF t \in done THEN [entry(t) EXCEPT !.isCommitReady = TRUE]
                              ELSE entry(t)
  <2>1. entry(t).tag = t
    BY LiveFacts
  <2>2. head # pushedTail(pkt)
    <3>1. head # next_tag
      BY LiveFacts
    <3>2. ASSUME pkt.valid PROVE head # robNextTag(next_tag)
      <4>1. dist(head, robNextTag(next_tag)) = dist(head, next_tag) + 1
        BY <1>1, <1>4, <3>2, WindowPush
      <4>2. dist(head, next_tag) \in Nat /\ dist(head, head) = 0
        BY <1>1, LiveFacts, DistFacts
      <4> QED BY <4>1, <4>2
    <3> QED BY <3>1, <3>2 DEF pushedTail
  <2>3. robSlot(t) \in RobSlots /\ pushedQueue(pkt)[robSlot(t)] = entry(t)
    BY <1>5, <1>7
  <2>4. readyQueue(pkt, done)[robSlot(t)] =
          IF head # pushedTail(pkt) /\ pushedQueue(pkt)[robSlot(t)].tag \in done
            THEN [pushedQueue(pkt)[robSlot(t)] EXCEPT !.isCommitReady = TRUE]
            ELSE pushedQueue(pkt)[robSlot(t)]
    BY <2>3 DEF readyQueue
  <2> QED BY <1>9, <2>1, <2>2, <2>3, <2>4
<1>11. ASSUME pkt.valid
       PROVE  ROBqueue'[robSlot(next_tag)] = [pkt.robEntry EXCEPT !.tag = next_tag]
  <2>1. pushedQueue(pkt)[robSlot(next_tag)].tag = next_tag
    BY <1>4, <1>8, <1>11
  <2> QED BY <1>3, <1>6, <1>8, <1>9, <1>11, <2>1 DEF readyQueue
<1>12. DOMAIN ROBqueue' = RobSlots
  BY <1>9 DEF readyQueue
<1> QED BY <1>10, <1>11, <1>12

(* The window after the cycle, with the instructions in it.                *)
LEMMA LiveStep ==
    ASSUME QInv, NEW pkt, NEW dispatch, NEW vals, NEW brs,
           StepOf(pkt, dispatch, vals, brs)
    PROVE  /\ LiveTags' = Between(head', next_tag')
           /\ \A t \in LiveTags' :
                \/ t \in LiveTags /\ kept(t) /\ (willCommit(squashDetect) => t # head)
                \/ pkt.valid /\ t = next_tag
           /\ \A t \in LiveTags :
                /\ entry(t)' \in LiveEntry /\ entry(t)'.tag = t
                /\ entry(t)'.type = entry(t).type
                /\ entry(t)'.pc = entry(t).pc
                /\ entry(t)'.lqTailSnapshot = entry(t).lqTailSnapshot
                /\ entry(t)'.sqTailSnapshot = entry(t).sqTailSnapshot
                /\ entry(t)'.isCommitReady
                     => (entry(t).isCommitReady \/ t \in robDone(brs))
                /\ instr(t)' = instr(t)
                /\ lqSlotOf(t)' = lqSlotOf(t) /\ sqSlotOf(t)' = sqSlotOf(t)
           /\ \A t \in {next_tag} : pkt.valid =>
                /\ entry(t)' = [pkt.robEntry EXCEPT !.tag = t]
                /\ instr(t)' = curr
                /\ lqSlotOf(t)' = prior(IF curr.kind = "LOAD" THEN lqNext(lqTail)
                                        ELSE lqTail, LqCap)
                /\ sqSlotOf(t)' = prior(IF curr.kind = "STORE" THEN sqNext(sqTail)
                                        ELSE sqTail, SqCap)
           /\ program' = program
           /\ RobHolds'
<1>1. /\ pkt = NoPacket \/ (canIssue /\ pkt = IssuePacket)
      /\ brs \in AtMostOne(brRS)
      /\ ROBtick(pkt, robDone(brs), squashDetect)
      /\ program' = program
  BY DEF StepOf, Cycle
<1>2. /\ LiveTags' = Between(head', next_tag')
      /\ dist(head', next_tag') <= RobCap
      /\ \A t \in LiveTags' :
           \/ t \in LiveTags /\ kept(t) /\ (willCommit(squashDetect) => t # head)
           \/ pkt.valid /\ t = next_tag
  BY <1>1, WindowStep DEF LiveTags
<1>3. ASSUME NEW t \in LiveTags
      PROVE  /\ entry(t)' \in LiveEntry /\ entry(t)'.tag = t
             /\ entry(t)'.type = entry(t).type
             /\ entry(t)'.pc = entry(t).pc
             /\ entry(t)'.lqTailSnapshot = entry(t).lqTailSnapshot
             /\ entry(t)'.sqTailSnapshot = entry(t).sqTailSnapshot
             /\ entry(t)'.isCommitReady
                  => (entry(t).isCommitReady \/ t \in robDone(brs))
             /\ instr(t)' = instr(t)
             /\ lqSlotOf(t)' = lqSlotOf(t) /\ sqSlotOf(t)' = sqSlotOf(t)
  <2>1. entry(t)' = IF t \in robDone(brs)
                      THEN [entry(t) EXCEPT !.isCommitReady = TRUE] ELSE entry(t)
    BY EntryStep DEF entry
  <2>2. entry(t) \in LiveEntry /\ entry(t).tag = t
    BY LiveFacts
  <2>3. /\ entry(t)' \in LiveEntry /\ entry(t)'.tag = t
        /\ entry(t)'.type = entry(t).type
        /\ entry(t)'.pc = entry(t).pc
        /\ entry(t)'.lqTailSnapshot = entry(t).lqTailSnapshot
        /\ entry(t)'.sqTailSnapshot = entry(t).sqTailSnapshot
        /\ entry(t)'.isCommitReady
             => (entry(t).isCommitReady \/ t \in robDone(brs))
    BY <2>1, <2>2 DEF LiveEntry
  <2> QED BY <1>1, <2>3 DEF instr, lqSlotOf, sqSlotOf
<1>4. ASSUME NEW t, t = next_tag, pkt.valid
      PROVE  /\ entry(t)' = [pkt.robEntry EXCEPT !.tag = t]
             /\ instr(t)' = curr
             /\ lqSlotOf(t)' = prior(IF curr.kind = "LOAD" THEN lqNext(lqTail)
                                     ELSE lqTail, LqCap)
             /\ sqSlotOf(t)' = prior(IF curr.kind = "STORE" THEN sqNext(sqTail)
                                     ELSE sqTail, SqCap)
  <2>1. entry(t)' = [pkt.robEntry EXCEPT !.tag = t]
    BY <1>4, EntryStep DEF entry
  <2>2. /\ [pkt.robEntry EXCEPT !.tag = t].pc = pc
        /\ [pkt.robEntry EXCEPT !.tag = t].lqTailSnapshot =
             IF curr.kind = "LOAD" THEN lqNext(lqTail) ELSE lqTail
        /\ [pkt.robEntry EXCEPT !.tag = t].sqTailSnapshot =
             IF curr.kind = "STORE" THEN sqNext(sqTail) ELSE sqTail
    BY <1>1, <1>4, PacketFacts
  <2>3. instr(t)' = curr
    BY <1>1, <2>1, <2>2 DEF instr, curr
  <2> QED BY <2>1, <2>2, <2>3 DEF lqSlotOf, sqSlotOf, prior
<1>5. ASSUME NEW t \in LiveTags'
      PROVE  /\ entry(t)' \in LiveEntry /\ entry(t)'.tag = t
             /\ entry(t)'.type = "STORE" <=> instr(t)'.kind = "STORE"
  <2>1. CASE t \in LiveTags
    <3>1. entry(t).type = "STORE" <=> instr(t).kind = "STORE"
      BY <2>1 DEF QInv, RobHolds
    <3> QED BY <1>3, <2>1, <3>1
  <2>2. CASE pkt.valid /\ t = next_tag
    BY <1>1, <1>4, <2>2, PacketFacts
  <2> QED BY <1>2, <2>1, <2>2
<1>6. LiveEntry' = LiveEntry
  BY <1>1 DEF LiveEntry
<1>7. RobHolds'
  BY <1>2, <1>5, <1>6, EntryStep DEF RobHolds
<1> QED BY <1>1, <1>2, <1>3, <1>4, <1>7

-----------------------------------------------------------------------------
(* One cycle: the contents of the queues.                                  *)

(* What the AGU and the value stations write goes to the slot of the       *)
(* instruction it belongs to (memIndex).                                   *)
LEMMA WriteFacts ==
    ASSUME QInv, NEW vals \in SUBSET valRS
    PROVE  /\ \A i \in DOMAIN storeAddress :
                /\ i \in sqActive /\ ~SQqueue[i].isCommitted
                /\ SQqueue[i].robTag \in aguHead /\ live(SQqueue[i].robTag)
                /\ storeAddress[i] = instr(SQqueue[i].robTag).addr
                /\ storeAddress[i] \in Addrs
           /\ \A i \in DOMAIN storeValues(vals) :
                /\ i \in sqActive /\ ~SQqueue[i].isCommitted
                /\ SQqueue[i].robTag \in vals /\ live(SQqueue[i].robTag)
                /\ storeValues(vals)[i] = entry(SQqueue[i].robTag).pc
                /\ storeValues(vals)[i] \in 0 .. Len(program)
           /\ \A i \in DOMAIN loadAddress :
                /\ i \in lqActive
                /\ LQqueue[i].robTag \in aguHead
                /\ loadAddress[i] \in Addrs
<1>1. program \in Programs /\ Len(program) \in Nat
  BY ProgramFacts DEF QInv, QueueTypes
<1>2. ASSUME NEW t \in LiveTags
      PROVE  /\ entry(t).pc \in 1 .. Len(program)
             /\ instr(t).kind \in {"LOAD", "STORE"} => instr(t).addr \in Addrs
  <2>1. entry(t).pc \in 1 .. Len(program)
    BY LiveFacts DEF LiveEntry
  <2> QED BY <1>1, <2>1, ProgramFacts DEF instr
<1>3. ASSUME NEW i \in DOMAIN storeAddress
      PROVE  /\ i \in sqActive /\ ~SQqueue[i].isCommitted
             /\ SQqueue[i].robTag \in aguHead /\ live(SQqueue[i].robTag)
             /\ storeAddress[i] = instr(SQqueue[i].robTag).addr
             /\ storeAddress[i] \in Addrs
  <2> DEFINE u == CHOOSE t \in aguOut("STORE") : sqSlotOf(t) = i
  <2>1. u \in aguOut("STORE") /\ sqSlotOf(u) = i
    BY DEF storeAddress
  <2>2. storeAddress[i] = instr(u).addr
    BY DEF storeAddress
  <2> HIDE DEF u
  <2>3. u \in aguHead /\ live(u) /\ u \in agu /\ instr(u).kind = "STORE"
    BY <2>1 DEF aguOut, aguHead
  <2>4. u \in liveOf("STORE") /\ u \in LiveTags
    BY <2>3 DEF QInv, StationsLive, liveOf
  <2> QED BY <1>2, <2>1, <2>2, <2>3, <2>4, StoreSlots
<1>4. ASSUME NEW i \in DOMAIN storeValues(vals)
      PROVE  /\ i \in sqActive /\ ~SQqueue[i].isCommitted
             /\ SQqueue[i].robTag \in vals /\ live(SQqueue[i].robTag)
             /\ storeValues(vals)[i] = entry(SQqueue[i].robTag).pc
             /\ storeValues(vals)[i] \in 0 .. Len(program)
  <2> DEFINE written == {t \in vals : live(t)}
             u == CHOOSE t \in written : sqSlotOf(t) = i
  <2>1. u \in written /\ sqSlotOf(u) = i
    BY DEF storeValues
  <2>2. storeValues(vals)[i] = entry(u).pc
    BY DEF storeValues
  <2> HIDE DEF u
  <2>3. u \in vals /\ live(u)
    BY <2>1
  <2>4. u \in liveOf("STORE") /\ u \in LiveTags
    BY <2>3 DEF QInv, StationsLive, liveOf
  <2>5. entry(u).pc \in 0 .. Len(program)
    BY <1>1, <1>2, <2>4
  <2> QED BY <2>1, <2>2, <2>3, <2>4, <2>5, StoreSlots
<1>5. ASSUME NEW i \in DOMAIN loadAddress
      PROVE  /\ i \in lqActive
             /\ LQqueue[i].robTag \in aguHead
             /\ loadAddress[i] \in Addrs
  <2> DEFINE u == CHOOSE t \in aguOut("LOAD") : lqSlotOf(t) = i
  <2>1. u \in aguOut("LOAD") /\ lqSlotOf(u) = i
    BY DEF loadAddress
  <2>2. loadAddress[i] = instr(u).addr
    BY DEF loadAddress
  <2> HIDE DEF u
  <2>3. u \in aguHead /\ u \in agu /\ instr(u).kind = "LOAD"
    BY <2>1 DEF aguOut, aguHead
  <2>4. u \in liveOf("LOAD") /\ u \in LiveTags
    BY <2>3 DEF QInv, StationsLive, liveOf
  <2> QED BY <1>2, <2>1, <2>2, <2>3, <2>4, LoadSlots
<1> QED BY <1>3, <1>4, <1>5

(* SQ::tick on the slots: the active ones get what was computed and the    *)
(* commit mark, the issued store is a fresh entry at the tail.             *)
LEMMA StoreStep ==
    ASSUME QInv, NEW pkt, NEW dispatch, NEW vals, NEW brs,
           StepOf(pkt, dispatch, vals, brs)
    PROVE  /\ SQqueue' \in [SqSlots -> StoreEntry]
           /\ \A i \in sqActive :
                /\ SQqueue'[i].robTag = SQqueue[i].robTag
                /\ SQqueue'[i].isCommitted <=>
                     \/ SQqueue[i].isCommitted
                     \/ storeWillCommit(squashDetect) /\ SQqueue[i].robTag = head
                /\ IF i \in DOMAIN storeAddress
                     THEN /\ SQqueue'[i].isAddressReady
                          /\ SQqueue'[i].address = storeAddress[i]
                     ELSE /\ SQqueue'[i].isAddressReady <=> SQqueue[i].isAddressReady
                          /\ SQqueue'[i].address = SQqueue[i].address
                /\ IF i \in DOMAIN storeValues(vals)
                     THEN /\ SQqueue'[i].isValueReady
                          /\ SQqueue'[i].value = storeValues(vals)[i]
                     ELSE /\ SQqueue'[i].isValueReady <=> SQqueue[i].isValueReady
                          /\ SQqueue'[i].value = SQqueue[i].value
           /\ pkt.valid /\ curr.kind = "STORE" =>
                /\ SQqueue'[sqTail] = [NoStore EXCEPT !.robTag = next_tag]
                /\ sqTail \notin sqActive
<1> DEFINE q1 == sqPushed(pkt)
           q2 == sqWritten(q1, storeValues(vals), storeAddress)
           push == pkt.valid /\ curr.kind = "STORE"
           fresh == [NoStore EXCEPT !.robTag = next_tag]
<1>1. /\ pkt = NoPacket \/ (canIssue /\ pkt = IssuePacket)
      /\ vals \in SUBSET valRS
      /\ SQqueue' = sqCommitted(q2, squashDetect)
  BY DEF StepOf, Cycle, SQtick
<1>2. /\ SQqueue \in [SqSlots -> StoreEntry] /\ sqTail \in SqSlots
      /\ next_tag \in RobTags /\ program \in Programs
  BY DEF QInv, QueueTypes
<1>3. /\ pkt.valid \in BOOLEAN
      /\ pkt.valid => (pkt.robEntry.type = "STORE" <=> curr.kind = "STORE")
  BY <1>1, PacketFacts
<1>4. sqTail \notin sqActive
  <2>1. sqPos(sqTail) \in Nat
    <3>1. pos(sqTail, sqHead, SqCap) \in 0 .. SqCap - 1
      BY <1>2, QueueTerms, PosFacts DEF QInv, QueueTypes
    <3> QED BY <3>1, QueueTerms
  <2> QED BY <2>1 DEF sqActive
<1>5. fresh \in StoreEntry
  <2>1. Len(program) \in Nat /\ 0 \in Addrs
    BY <1>2, ProgramFacts
  <2>2. 0 \in 0 .. Len(program)
    BY <2>1
  <2>3. NoStore \in StoreEntry
    BY <2>1, <2>2 DEF NoStore, StoreEntry
  <2> QED BY <1>2, <2>3 DEF StoreEntry
<1>6. /\ q1 \in [SqSlots -> StoreEntry]
      /\ \A i \in SqSlots : q1[i] = IF push /\ i = sqTail THEN fresh ELSE SQqueue[i]
  BY <1>2, <1>3, <1>5 DEF sqPushed
<1>7. /\ \A i \in DOMAIN storeAddress : i \in sqActive /\ storeAddress[i] \in Addrs
      /\ \A i \in DOMAIN storeValues(vals) :
            i \in sqActive /\ storeValues(vals)[i] \in 0 .. Len(program)
  BY <1>1, WriteFacts
<1>8. ASSUME NEW i \in SqSlots
      PROVE  LET v == IF i \in DOMAIN storeValues(vals)
                        THEN [q1[i] EXCEPT !.value = storeValues(vals)[i],
                                           !.isValueReady = TRUE]
                        ELSE q1[i]
                 a == IF i \in DOMAIN storeAddress
                        THEN [v EXCEPT !.address = storeAddress[i],
                                       !.isAddressReady = TRUE]
                        ELSE v
             IN  SQqueue'[i] = IF /\ storeWillCommit(squashDetect)
                                  /\ i \in sqActive /\ SQqueue[i].robTag = head
                                 THEN [a EXCEPT !.isCommitted = TRUE] ELSE a
  BY <1>1 DEF sqCommitted, sqWritten
<1>9. DOMAIN SQqueue' = SqSlots /\ SQqueue' = [i \in SqSlots |-> SQqueue'[i]]
  BY <1>1 DEF sqCommitted
<1> HIDE DEF q1, q2
<1>10. ASSUME NEW i \in SqSlots PROVE SQqueue'[i] \in StoreEntry
  BY ZenonT(30), <1>6, <1>7, <1>8 DEF StoreEntry
<1>11. ASSUME NEW i \in sqActive
       PROVE  /\ SQqueue'[i].robTag = SQqueue[i].robTag
              /\ SQqueue'[i].isCommitted <=>
                   \/ SQqueue[i].isCommitted
                   \/ storeWillCommit(squashDetect) /\ SQqueue[i].robTag = head
              /\ IF i \in DOMAIN storeAddress
                   THEN /\ SQqueue'[i].isAddressReady
                        /\ SQqueue'[i].address = storeAddress[i]
                   ELSE /\ SQqueue'[i].isAddressReady <=> SQqueue[i].isAddressReady
                        /\ SQqueue'[i].address = SQqueue[i].address
              /\ IF i \in DOMAIN storeValues(vals)
                   THEN /\ SQqueue'[i].isValueReady
                        /\ SQqueue'[i].value = storeValues(vals)[i]
                   ELSE /\ SQqueue'[i].isValueReady <=> SQqueue[i].isValueReady
                        /\ SQqueue'[i].value = SQqueue[i].value
  <2>1. i \in SqSlots /\ i # sqTail
    BY <1>4 DEF sqActive
  <2>2. q1[i] = SQqueue[i] /\ SQqueue[i] \in StoreEntry
    BY <1>2, <1>6, <2>1
  <2> DEFINE v == IF i \in DOMAIN storeValues(vals)
                    THEN [SQqueue[i] EXCEPT !.value = storeValues(vals)[i],
                                            !.isValueReady = TRUE]
                    ELSE SQqueue[i]
             a == IF i \in DOMAIN storeAddress
                    THEN [v EXCEPT !.address = storeAddress[i],
                                   !.isAddressReady = TRUE]
                    ELSE v
             o == SQqueue[i]
  <2>3. SQqueue'[i] = IF storeWillCommit(squashDetect) /\ SQqueue[i].robTag = head
                        THEN [a EXCEPT !.isCommitted = TRUE] ELSE a
    BY <1>8, <2>1, <2>2
  <2>4. /\ v \in StoreEntry /\ v.robTag = o.robTag
        /\ v.isCommitted = o.isCommitted /\ v.address = o.address
        /\ v.isAddressReady = o.isAddressReady
        /\ IF i \in DOMAIN storeValues(vals)
             THEN v.isValueReady /\ v.value = storeValues(vals)[i]
             ELSE v.isValueReady = o.isValueReady /\ v.value = o.value
    BY <1>7, <2>2 DEF StoreEntry
  <2> HIDE DEF v
  <2>5. /\ a \in StoreEntry /\ a.robTag = o.robTag
        /\ a.isCommitted = o.isCommitted /\ a.value = v.value
        /\ a.isValueReady = v.isValueReady
        /\ IF i \in DOMAIN storeAddress
             THEN a.isAddressReady /\ a.address = storeAddress[i]
             ELSE a.isAddressReady = o.isAddressReady /\ a.address = o.address
    BY <1>7, <2>4 DEF StoreEntry
  <2> HIDE DEF a
  <2>6. /\ SQqueue'[i].robTag = o.robTag
        /\ SQqueue'[i].value = v.value /\ SQqueue'[i].isValueReady = v.isValueReady
        /\ SQqueue'[i].address = a.address
        /\ SQqueue'[i].isAddressReady = a.isAddressReady
        /\ SQqueue'[i].isCommitted =
             IF storeWillCommit(squashDetect) /\ SQqueue[i].robTag = head
               THEN TRUE ELSE o.isCommitted
    BY <2>3, <2>5 DEF StoreEntry
  <2> QED BY <2>2, <2>4, <2>5, <2>6
<1>12. ASSUME push PROVE SQqueue'[sqTail] = fresh
  BY <1>2, <1>4, <1>6, <1>7, <1>8, <1>12
<1> QED BY <1>4, <1>9, <1>10, <1>11, <1>12

(* A non-empty set of natural numbers has a least element.                 *)
LEMMA LeastNumber ==
    ASSUME NEW T \in SUBSET Nat, T # {}
    PROVE  \E x \in T : \A y \in T : x <= y
<1>1. \E x \in T : \A y \in T : ~ (<<y, x>> \in OpToRel(<, Nat))
  BY WFMin, NatLessThanWellFounded, Zenon
<1>2. PICK x \in T : \A y \in T : ~ (<<y, x>> \in OpToRel(<, Nat))
  BY <1>1
<1>3. \A y \in T : y < x => <<y, x>> \in OpToRel(<, Nat)
  BY <1>2 DEF OpToRel
<1>4. x \in T /\ \A y \in T : ~(y < x)
  BY <1>2, <1>3, Zenon
<1>5. \A y \in T : x <= y
  BY <1>4
<1> QED BY <1>4, <1>5

(* Among some of the stores of the queue there is a youngest one.          *)
LEMMA YoungestStore ==
    ASSUME QInv, NEW S \in SUBSET sqActive, S # {}
    PROVE  /\ sqYoungest(S) \in S
           /\ \A j \in S : sqPos(j) <= sqPos(sqYoungest(S))
<1>1. \A i \in S : i \in SqSlots /\ sqPos(i) \in 0 .. SqCap - 1
  <2>1. sqHead \in 0 .. SqCap - 1
    BY QueueTerms DEF QInv, QueueTypes
  <2> QED BY <2>1, QueueTerms, PosFacts DEF sqActive
<1> DEFINE T == {SqCap - sqPos(i) : i \in S}
<1>2. T \in SUBSET Nat /\ T # {}
  BY <1>1, QueueTerms
<1>3. PICK x \in T : \A y \in T : x <= y
  BY <1>2, LeastNumber
<1>4. PICK i \in S : x = SqCap - sqPos(i)
  BY <1>3
<1>5. \A j \in S : SqCap - sqPos(i) <= SqCap - sqPos(j)
  BY <1>3, <1>4
<1>6. \A j \in S : sqPos(j) <= sqPos(i)
  BY <1>1, <1>5, QueueTerms
<1> QED BY <1>6 DEF sqYoungest

(* writeValue leaves tag and address alone.                                *)
LEMMA ValueWritten ==
    ASSUME NEW e \in LoadEntry, NEW v \in Int
    PROVE  /\ withValue(e, v) \in LoadEntry
           /\ withValue(e, v).robTag = e.robTag
           /\ withValue(e, v).isAddressReady = e.isAddressReady
BY DEF withValue, LoadEntry, ValueState

(* The values that are forwarded are numbers.                              *)
LEMMA ForwardedValues ==
    ASSUME QInv, NEW vals \in SUBSET valRS
    PROVE  /\ \A n \in storeNotifies(vals) : n.value \in Int
           /\ \A addr, tag : replyToLoadRequest(addr, tag) \in SUBSET Int
<1>1. Len(program) \in Nat
  BY ProgramFacts DEF QInv, QueueTypes
<1>2. \A i \in sqActive : SQqueue[i].value \in Int
  BY <1>1, StoreSlots DEF StoreEntry
<1>3. ASSUME NEW n \in storeNotifies(vals) PROVE n.value \in Int
  <2>1. CASE \E i \in DOMAIN storeValues(vals) :
               n \in planDataForward(i, storeValues(vals)[i])
    <3>1. PICK i \in DOMAIN storeValues(vals) :
            n \in planDataForward(i, storeValues(vals)[i])
      BY <2>1
    <3>2. n.value = storeValues(vals)[i]
      BY <3>1 DEF planDataForward, StoreNotify
    <3> QED BY <1>1, <3>1, <3>2, WriteFacts
  <2>2. CASE \E i \in DOMAIN storeAddress :
               n \in planAddressForward(i, storeAddress[i])
    <3>1. PICK i \in DOMAIN storeAddress :
            n \in planAddressForward(i, storeAddress[i])
      BY <2>2
    <3>2. n.value = SQqueue[i].value
      BY <3>1 DEF planAddressForward, StoreNotify
    <3> QED BY <1>2, <3>1, <3>2, WriteFacts
  <2>3. \/ n \in UNION {planDataForward(i, storeValues(vals)[i]) :
                         i \in DOMAIN storeValues(vals)}
        \/ n \in UNION {planAddressForward(i, storeAddress[i]) :
                         i \in DOMAIN storeAddress}
    BY Zenon DEF storeNotifies
  <2>4. \/ \E i \in DOMAIN storeValues(vals) :
             n \in planDataForward(i, storeValues(vals)[i])
        \/ \E i \in DOMAIN storeAddress :
             n \in planAddressForward(i, storeAddress[i])
    BY <2>3, Zenon
  <2> QED BY <2>1, <2>2, <2>4
<1>4. ASSUME NEW addr, NEW tag
      PROVE  replyToLoadRequest(addr, tag) \in SUBSET Int
  <2> DEFINE same == sameAddress(storesBefore(tag), addr)
  <2>1. same \in SUBSET sqActive
    BY DEF sameAddress, storesBefore
  <2>2. same # {} => sqYoungest(same) \in sqActive
    BY <2>1, YoungestStore
  <2>3. \/ replyToLoadRequest(addr, tag) = {}
        \/ /\ same # {}
           /\ replyToLoadRequest(addr, tag) = {SQqueue[sqYoungest(same)].value}
    BY DEF replyToLoadRequest
  <2> HIDE DEF same
  <2> QED BY <1>2, <2>2, <2>3
<1> QED BY <1>3, <1>4

(* LQ::tick on the slots: tags stay, an address comes only from the AGU,   *)
(* the issued load is a fresh entry at the tail.                           *)
LEMMA LoadStep ==
    ASSUME QInv, NEW pkt, NEW dispatch, NEW vals, NEW brs,
           StepOf(pkt, dispatch, vals, brs)
    PROVE  /\ LQqueue' \in [LqSlots -> LoadEntry]
           /\ \A i \in lqActive :
                /\ LQqueue'[i].robTag = LQqueue[i].robTag
                /\ LQqueue'[i].isAddressReady <=>
                     (LQqueue[i].isAddressReady \/ i \in DOMAIN loadAddress)
           /\ pkt.valid /\ curr.kind = "LOAD" =>
                /\ LQqueue'[lqTail].robTag = next_tag
                /\ ~LQqueue'[lqTail].isAddressReady
           /\ lqTail \notin lqActive
<1> DEFINE push == pkt.valid /\ curr.kind = "LOAD"
           sent == IF MemDispatch.op = "Load" THEN {MemDispatch.slot} ELSE {}
           q0 == lqPushed(pkt, push)
           q1 == lqForwarded(q0, storeNotifies(vals))
           q2 == lqAddressed(q1, loadAddress)
           q3 == lqFetching(q2, sent)
           q4 == lqAnswered(q3, loadResp)
           fresh == [NoLoad EXCEPT !.robTag = next_tag]
           same(e, o) == /\ e \in LoadEntry /\ e.robTag = o.robTag
                         /\ e.isAddressReady = o.isAddressReady
<1>1. /\ pkt = NoPacket \/ (canIssue /\ pkt = IssuePacket)
      /\ vals \in SUBSET valRS
      /\ LQqueue' = lqBroadcast(q4, lqCDB(squashDetect))
  BY DEF StepOf, Cycle, LQtick
<1>2. /\ LQqueue \in [LqSlots -> LoadEntry] /\ lqTail \in LqSlots
      /\ next_tag \in RobTags /\ program \in Programs
      /\ answer.valid => answer.value[0] \in Int
  BY DEF QInv, QueueTypes, MemoryTypes
<1>3. lqTail \notin lqActive
  <2>1. lqPos(lqTail) \in Nat
    <3>1. pos(lqTail, lqHead, LqCap) \in 0 .. LqCap - 1
      BY <1>2, QueueTerms, PosFacts DEF QInv, QueueTypes
    <3> QED BY <3>1, QueueTerms
  <2> QED BY <2>1 DEF lqActive
<1>4. fresh \in LoadEntry /\ fresh.robTag = next_tag /\ fresh.isAddressReady = FALSE
  <2>1. 0 \in Addrs
    BY <1>2, ProgramFacts
  <2>2. NoLoad \in LoadEntry /\ NoLoad.isAddressReady = FALSE
    BY <2>1 DEF NoLoad, LoadEntry, ValueState
  <2> QED BY <1>2, <2>2 DEF LoadEntry
<1>5. \A i \in LqSlots :
        /\ q0[i] \in LoadEntry
        /\ q0[i] = IF push /\ i = lqTail THEN fresh ELSE LQqueue[i]
  BY <1>1, <1>2, <1>4, PacketFacts DEF lqPushed
<1> HIDE DEF q0, fresh
<1>6. ASSUME NEW i \in LqSlots PROVE same(q1[i], q0[i])
  <2> DEFINE from == {n \in storeNotifies(vals) : forwardsTo(n, q0[i])}
             v == (CHOOSE n \in from : TRUE).value
  <2>1. q1[i] = IF i \in lqActive /\ from # {} THEN withValue(q0[i], v) ELSE q0[i]
    BY DEF lqForwarded
  <2>2. from # {} => v \in Int
    BY <1>1, ForwardedValues
  <2> HIDE DEF from, v
  <2> QED BY <1>5, <2>1, <2>2, ValueWritten
<1> HIDE DEF q1
<1>7. ASSUME NEW i \in LqSlots
      PROVE  /\ q2[i] \in LoadEntry /\ q2[i].robTag = q1[i].robTag
             /\ q2[i].isAddressReady =
                  (IF i \in DOMAIN loadAddress THEN TRUE ELSE q1[i].isAddressReady)
  <2> DEFINE e == [q1[i] EXCEPT !.address = loadAddress[i], !.isAddressReady = TRUE]
             reply == replyToLoadRequest(loadAddress[i], e.robTag)
             v == CHOOSE x \in reply : TRUE
  <2>1. q2[i] = IF i \in DOMAIN loadAddress
                  THEN IF reply = {} THEN e ELSE withValue(e, v)
                  ELSE q1[i]
    BY DEF lqAddressed
  <2>2. q1[i] \in LoadEntry
    BY <1>6
  <2>3. i \in DOMAIN loadAddress => loadAddress[i] \in Addrs
    BY <1>1, WriteFacts
  <2>4. i \in DOMAIN loadAddress =>
          e \in LoadEntry /\ e.robTag = q1[i].robTag /\ e.isAddressReady = TRUE
    BY <2>2, <2>3 DEF LoadEntry
  <2>5. reply # {} => v \in Int
    BY <1>1, ForwardedValues
  <2> HIDE DEF e, reply, v
  <2> QED BY ZenonT(30), <2>1, <2>2, <2>4, <2>5, ValueWritten
<1> HIDE DEF q2
<1>8. ASSUME NEW i \in LqSlots PROVE same(q3[i], q2[i])
  <2>1. q3[i] = IF i \in sent THEN [q2[i] EXCEPT !.valueState = "FETCHING"] ELSE q2[i]
    BY DEF lqFetching
  <2> QED BY <1>7, <2>1 DEF LoadEntry, ValueState
<1> HIDE DEF q3
<1>9. ASSUME NEW i \in LqSlots PROVE same(q4[i], q3[i])
  <2>1. \/ q4[i] = q3[i]
        \/ loadResp.valid /\ q4[i] = withValue(q3[i], loadResp.value[0])
    BY DEF lqAnswered
  <2>2. loadResp.valid => loadResp.value[0] \in Int
    BY <1>2 DEF loadResp, Memory!NoResponse
  <2> QED BY <1>8, <2>1, <2>2, ValueWritten
<1> HIDE DEF q4
<1>10. ASSUME NEW i \in LqSlots PROVE same(LQqueue'[i], q4[i])
  <2>1. \/ LQqueue'[i] = q4[i]
        \/ LQqueue'[i] = [q4[i] EXCEPT !.isCDBBroadcast = TRUE]
    BY <1>1 DEF lqBroadcast
  <2> QED BY <1>9, <2>1 DEF LoadEntry
<1>11. LQqueue' \in [LqSlots -> LoadEntry]
  <2>1. LQqueue' = [i \in LqSlots |-> LQqueue'[i]]
    BY <1>1 DEF lqBroadcast
  <2> QED BY <1>10, <2>1
<1>12. ASSUME NEW i \in LqSlots
       PROVE  /\ LQqueue'[i].robTag = q0[i].robTag
              /\ LQqueue'[i].isAddressReady =
                   (IF i \in DOMAIN loadAddress THEN TRUE ELSE q0[i].isAddressReady)
  BY ZenonT(30), <1>6, <1>7, <1>8, <1>9, <1>10
<1>13. ASSUME NEW i \in lqActive
       PROVE  /\ LQqueue'[i].robTag = LQqueue[i].robTag
              /\ LQqueue'[i].isAddressReady <=>
                   (LQqueue[i].isAddressReady \/ i \in DOMAIN loadAddress)
  <2>1. i \in LqSlots /\ q0[i] = LQqueue[i] /\ LQqueue[i] \in LoadEntry
    BY <1>2, <1>3, <1>5 DEF lqActive
  <2> QED BY <1>12, <2>1 DEF LoadEntry
<1>14. ASSUME push
       PROVE  LQqueue'[lqTail].robTag = next_tag /\ ~LQqueue'[lqTail].isAddressReady
  <2>1. lqTail \notin DOMAIN loadAddress
    BY <1>1, <1>3, WriteFacts
  <2> QED BY <1>2, <1>4, <1>5, <1>12, <1>14, <2>1
<1> QED BY <1>3, <1>11, <1>13, <1>14

-----------------------------------------------------------------------------
(* One cycle: the queues follow the ROB.                                   *)

(* The instructions of a kind after issue and flush, before the commit.    *)
staying(kind) == {t \in Between(head, next_tag') : instr(t)'.kind = kind}

(* What the tail of a queue does in a cycle.                               *)
TailMoves(pkt, kind, q, e, e2, cap, tag2, gone2, snap, snap2) ==
    /\ pkt.valid /\ curr.kind = kind =>
         /\ e2 = after(e, cap) /\ after(e, cap) # q
         /\ tag2[e] = next_tag /\ e \notin gone2
    /\ pkt.valid /\ curr.kind # kind => e2 = e
    /\ pkt.valid => snap2[next_tag] = e2
    /\ squashDetect.needSquash => e2 = snap[squashDetect.SquashTag]
    /\ ~pkt.valid /\ ~squashDetect.needSquash => e2 = e

(* Issue or flush, on either queue.                                        *)
LEMMA FollowsFront ==
    ASSUME QInv, NEW pkt, NEW dispatch, NEW vals, NEW brs,
           StepOf(pkt, dispatch, vals, brs),
           NEW kind, NEW cap \in Nat, cap >= 2,
           NEW q \in 0 .. cap - 1, NEW e \in 0 .. cap - 1,
           NEW tag, NEW gone, NEW snap,
           Follows(head, next_tag, q, e, cap, tag, gone, liveOf(kind), snap),
           NEW e2, NEW tag2, NEW gone2, NEW snap2,
           TailMoves(pkt, kind, q, e, e2, cap, tag2, gone2, snap, snap2),
           SameEntries(held(q, e, cap), tag, tag2, gone, gone2),
           SameFields(LiveTags, snap, snap2)
    PROVE  /\ e2 \in 0 .. cap - 1
           /\ Follows(head, next_tag', q, e2, cap, tag2, gone2, staying(kind), snap2)
           /\ squashDetect.needSquash =>
                /\ pos(e2, q, cap) <= pos(e, q, cap)
                /\ held(q, e2, cap) =
                     keptSlots(head, squashDetect.SquashTag, held(q, e, cap),
                               tag, gone)
<1> DEFINE s == squashDetect.SquashTag
<1>1. /\ pkt = NoPacket \/ (canIssue /\ pkt = IssuePacket)
      /\ ROBtick(pkt, robDone(brs), squashDetect)
  BY DEF StepOf, Cycle
<1>2. /\ head \in RobTags /\ next_tag \in RobTags
      /\ dist(head, next_tag) <= RobCap
  BY DEF QInv, QueueTypes, RobHolds
<1>3. /\ pkt.valid \in BOOLEAN /\ squashDetect.needSquash \in BOOLEAN
      /\ pkt.valid => ~squashDetect.needSquash /\ dist(head, next_tag) < RobCap
  BY <1>1, PacketFacts, SquashFacts
<1>4. /\ \A t \in LiveTags : instr(t)' = instr(t)
      /\ pkt.valid => \A t \in {next_tag} : instr(t)' = curr
  BY LiveStep
<1>5. Between(head, next_tag') =
        {t \in LiveTags : kept(t)} \cup (IF pkt.valid THEN {next_tag} ELSE {})
  BY <1>1, WindowStep
<1>6. CASE pkt.valid
  <2> DEFINE add == curr.kind = kind
  <2>1. /\ add \in BOOLEAN /\ next_tag' = robNextTag(next_tag)
        /\ add => e2 = after(e, cap)
        /\ ~add => e2 = e
        /\ add => after(e, cap) # q
        /\ add => tag2[e] = next_tag /\ e \notin gone2
        /\ snap2[next_tag] = e2
    BY <1>1, <1>6, WindowStep DEF TailMoves
  <2>2. LiveTags = Between(head, next_tag) /\ \A t \in LiveTags : kept(t)
    BY <1>3, <1>6 DEF LiveTags, kept
  <2>3. \A t : t \in staying(kind) <=> (t \in liveOf(kind) \/ (add /\ t = next_tag))
    BY <1>4, <1>5, <1>6, <2>2 DEF staying, liveOf
  <2>4. e2 \in 0 .. cap - 1
    BY <2>1, StepFacts
  <2> HIDE DEF add
  <2> USE DEF SameEntries, SameFields
  <2>5. Follows(head, robNextTag(next_tag), q, e2, cap, tag2, gone2,
                staying(kind), snap2)
    BY <1>2, <1>3, <1>6, <2>1, <2>2, <2>3, FollowsPush
  <2> QED BY <1>3, <1>6, <2>1, <2>4, <2>5
<1>7. CASE squashDetect.needSquash
  <2>1. s \in LiveTags /\ next_tag' = robNextTag(s) /\ e2 = snap[s]
    BY <1>1, <1>7, SquashFacts, WindowStep DEF TailMoves
  <2>2. s \in Between(head, next_tag)
    BY <2>1 DEF LiveTags
  <2>3. e2 \in 0 .. cap - 1 /\ pos(e2, q, cap) <= pos(e, q, cap)
    BY <2>1, <2>2 DEF Follows
  <2>4. held(q, e2, cap) \subseteq held(q, e, cap)
    BY <2>3, HeldFlush
  <2>5. \A t \in LiveTags : kept(t) <=> dist(head, t) <= dist(head, s)
    BY <1>7, SquashAges
  <2>6. staying(kind) = upTo(head, s, liveOf(kind))
    BY <1>3, <1>4, <1>5, <1>7, <2>5 DEF staying, liveOf, upTo
  <2>7. SameFields(Between(head, next_tag'), snap, snap2)
    BY <1>3, <1>5, <1>7, <2>1 DEF SameFields
  <2>8. SameEntries(held(q, e2, cap), tag, tag2, gone, gone2)
    BY <2>1, <2>4 DEF SameEntries
  <2> HIDE DEF s
  <2>9. Follows(head, next_tag', q, e2, cap, tag2, gone2, staying(kind), snap2)
    BY <1>2, <2>1, <2>2, <2>6, <2>7, <2>8, FollowsFlush
  <2>10. held(q, e2, cap) = keptSlots(head, s, held(q, e, cap), tag, gone)
    BY <1>2, <2>1, <2>2, <2>6, <2>7, <2>8, FollowsFlush
  <2> QED BY <2>1, <2>3, <2>9, <2>10 DEF s
<1>8. CASE ~pkt.valid /\ ~squashDetect.needSquash
  <2>1. next_tag' = next_tag /\ e2 = e
    BY <1>1, <1>8, WindowStep DEF TailMoves
  <2>2. LiveTags = Between(head, next_tag) /\ \A t \in LiveTags : kept(t)
    BY <1>8 DEF LiveTags, kept
  <2>3. staying(kind) = liveOf(kind)
    BY <1>4, <1>5, <1>8, <2>2 DEF staying, liveOf
  <2>4. Follows(head, next_tag, q, e, cap, tag2, gone2, liveOf(kind), snap2)
    BY <2>2, FollowsKeep DEF SameEntries, SameFields
  <2> QED BY <1>8, <2>1, <2>3, <2>4
<1> QED BY <1>3, <1>6, <1>7, <1>8

(* The commit, on either queue.                                            *)
LEMMA FollowsBack ==
    ASSUME QInv, NEW pkt, NEW dispatch, NEW vals, NEW brs,
           StepOf(pkt, dispatch, vals, brs),
           NEW kind, NEW cap \in Nat, cap >= 2,
           NEW q \in 0 .. cap - 1, NEW e \in 0 .. cap - 1,
           NEW tag, NEW gone, NEW snap,
           Follows(head, next_tag', q, e, cap, tag, gone, staying(kind), snap),
           NEW gone2, NEW snap2,
           \A i \in held(q, e, cap) :
             i \in gone2 <=>
               (i \in gone \/ (willCommit(squashDetect) /\ tag[i] = head)),
           \A t \in LiveTags' : snap2[t] = snap[t]
    PROVE  Follows(head', next_tag', q, e, cap, tag, gone2, liveOf(kind)', snap2)
<1>1. /\ pkt = NoPacket \/ (canIssue /\ pkt = IssuePacket)
      /\ ROBtick(pkt, robDone(brs), squashDetect)
  BY DEF StepOf, Cycle
<1>2. /\ head \in RobTags /\ next_tag' \in RobTags
      /\ LiveTags' = Between(head', next_tag')
  BY <1>1, WindowStep DEF QInv, QueueTypes, LiveTags
<1>3. liveOf(kind)' = {t \in Between(head', next_tag') : instr(t)'.kind = kind}
  BY DEF liveOf, LiveTags
<1>4. CASE willCommit(squashDetect)
  <2>1. /\ head' = robNextTag(head) /\ head # next_tag'
        /\ Between(head', next_tag') = Between(head, next_tag') \ {head}
    BY <1>1, <1>4, WindowStep
  <2>2. liveOf(kind)' = staying(kind) \ {head}
    BY <1>3, <2>1 DEF staying
  <2>3. Follows(robNextTag(head), next_tag', q, e, cap, tag, gone2,
                liveOf(kind)', snap)
    BY <1>2, <1>4, <2>1, <2>2, FollowsCommit
  <2> QED BY <1>2, <2>1, <2>3, FollowsKeep
<1>5. CASE ~willCommit(squashDetect)
  <2>1. head' = head
    BY <1>1, <1>5, WindowStep
  <2>2. liveOf(kind)' = staying(kind)
    BY <1>3, <2>1 DEF staying
  <2> QED BY <1>2, <1>5, <2>1, <2>2, FollowsKeep
<1> QED BY <1>4, <1>5

(* The store queue.  The store that is sent to the cache is committed or   *)
(* committing, so that the flush of the same cycle keeps it, as it keeps   *)
(* every committed store.                                                  *)
LEMMA SqStep ==
    ASSUME QInv, NEW pkt, NEW dispatch, NEW vals, NEW brs,
           StepOf(pkt, dispatch, vals, brs)
    PROVE  /\ SqFollows' /\ sqHead' \in SqSlots /\ sqTail' \in SqSlots
           /\ \A i \in sqActive :
                (SQqueue[i].isCommitted
                   \/ (storeWillCommit(squashDetect) /\ SQqueue[i].robTag = head))
                  => i \in held(sqHead, sqTail', SqCap)
           /\ \A i \in held(sqHead, sqTail', SqCap) :
                i \in sqActive \/ ~SQqueue'[i].isCommitted
           /\ IF MemDispatch.op = "Store"
                THEN sqHead' = after(sqHead, SqCap) /\ sqHead # sqTail'
                ELSE sqHead' = sqHead
<1> DEFINE snapA == [t \in RobTags |-> ROBqueue'[robSlot(t)].sqTailSnapshot]
           goneA == {i \in sqActive : SQqueue[i].isCommitted}
           tag2 == sqTags'
           push == pkt.valid /\ curr.kind = "STORE"
           s == squashDetect.SquashTag
<1>1. /\ pkt = NoPacket \/ (canIssue /\ pkt = IssuePacket)
      /\ ROBtick(pkt, robDone(brs), squashDetect)
      /\ sqHead' = IF MemDispatch.op = "Store" THEN sqNext(sqHead) ELSE sqHead
      /\ sqTail' = sqFlushedTail(pkt, squashDetect)
  BY DEF StepOf, Cycle, SQtick
<1>2. /\ head \in RobTags /\ next_tag \in RobTags
      /\ sqHead \in 0 .. SqCap - 1 /\ sqTail \in 0 .. SqCap - 1
      /\ SqFollows /\ sqActive = held(sqHead, sqTail, SqCap)
  BY QueueTerms DEF QInv, QueueTypes
<1>3. /\ pkt.valid \in BOOLEAN /\ squashDetect.needSquash \in BOOLEAN
      /\ pkt.valid => ~squashDetect.needSquash
      /\ pkt.valid => (pkt.robEntry.type = "STORE" <=> curr.kind = "STORE")
      /\ push => sqNext(sqTail) # sqHead
  BY <1>1, PacketFacts, SquashFacts
<1>4. /\ \A i \in sqActive : tag2[i] = sqTags[i]
      /\ push => tag2[sqTail] = next_tag /\ sqTail \notin goneA
  <2>1. \A i \in SqSlots : tag2[i] = SQqueue'[i].robTag /\ sqTags[i] = SQqueue[i].robTag
    BY DEF sqTags
  <2>2. next_tag \in RobTags /\ sqTail \in SqSlots
    BY <1>2, QueueTerms
  <2>3. push => SQqueue'[sqTail].robTag = next_tag /\ sqTail \notin sqActive
    <3> SUFFICES ASSUME push
                 PROVE  SQqueue'[sqTail].robTag = next_tag /\ sqTail \notin sqActive
      OBVIOUS
    <3>1. SQqueue'[sqTail] = [NoStore EXCEPT !.robTag = next_tag] /\ sqTail \notin sqActive
      BY StoreStep
    <3> QED BY <3>1 DEF NoStore
  <2> QED BY <2>1, <2>2, <2>3, StoreStep DEF sqActive
<1>5. SameEntries(held(sqHead, sqTail, SqCap), sqTags, tag2, sqGone, goneA)
  BY <1>2, <1>4 DEF SameEntries, sqGone, sqActive
<1>6. SameFields(LiveTags, sqSnap, snapA)
  <2>1. \A t \in LiveTags : /\ t \in RobTags
                            /\ ROBqueue'[robSlot(t)].sqTailSnapshot = entry(t).sqTailSnapshot
    BY LiveStep, LiveFacts DEF entry
  <2> QED BY <2>1 DEF SameFields, sqSnap
<1>7. /\ push => sqTail' = after(sqTail, SqCap) /\ after(sqTail, SqCap) # sqHead
      /\ pkt.valid /\ curr.kind # "STORE" => sqTail' = sqTail
      /\ pkt.valid => snapA[next_tag] = sqTail'
      /\ squashDetect.needSquash => sqTail' = sqSnap[s]
      /\ ~pkt.valid /\ ~squashDetect.needSquash => sqTail' = sqTail
  <2>1. ASSUME ~squashDetect.needSquash
        PROVE  sqTail' = IF push THEN sqNext(sqTail) ELSE sqTail
    BY <1>1, <1>3, <2>1 DEF sqFlushedTail, sqPushedTail
  <2>2. ASSUME pkt.valid
        PROVE  snapA[next_tag] = IF push THEN sqNext(sqTail) ELSE sqTail
    <3>1. ROBqueue'[robSlot(next_tag)].sqTailSnapshot =
            IF curr.kind = "STORE" THEN sqNext(sqTail) ELSE sqTail
      BY <1>1, <2>2, EntryStep, PacketFacts
    <3> QED BY <1>2, <2>2, <3>1
  <2>3. ASSUME squashDetect.needSquash PROVE sqTail' = sqSnap[s]
    <3>1. s \in LiveTags
      BY <2>3, SquashFacts
    <3>2. matchesTag(s)
      BY <3>1, LiveFacts DEF matchesTag, isEmpty, entry
    <3> QED BY <1>1, <2>3, <3>1, <3>2 DEF sqFlushedTail, sqSnap, entry
  <2> HIDE DEF s, snapA
  <2> QED BY <1>3, <2>1, <2>2, <2>3, QueueTerms
<1> HIDE DEF snapA, goneA, tag2
<1>8. /\ sqTail' \in 0 .. SqCap - 1
      /\ Follows(head, next_tag', sqHead, sqTail', SqCap, tag2, goneA,
                 staying("STORE"), snapA)
      /\ squashDetect.needSquash =>
           /\ held(sqHead, sqTail', SqCap) =
                keptSlots(head, s, held(sqHead, sqTail, SqCap), sqTags, sqGone)
  <2> HIDE DEF s
  <2>1. Follows(head, next_tag, sqHead, sqTail, SqCap, sqTags, sqGone,
                liveOf("STORE"), sqSnap)
    BY <1>2 DEF SqFollows
  <2>2. TailMoves(pkt, "STORE", sqHead, sqTail, sqTail', SqCap, tag2, goneA,
                  sqSnap, snapA)
    BY <1>4, <1>7 DEF s, TailMoves
  <2>3. /\ SqCap \in Nat /\ SqCap >= 2
        /\ sqHead \in 0 .. SqCap - 1 /\ sqTail \in 0 .. SqCap - 1
    BY <1>2, QueueTerms
  <2> QED BY <1>5, <1>6, <2>1, <2>2, <2>3, FollowsFront DEF s
<1>9. ASSUME NEW i \in held(sqHead, sqTail', SqCap)
       PROVE  i \in sqActive \/ (push /\ i = sqTail)
  <2>1. CASE squashDetect.needSquash
    BY <1>2, <1>8, <1>9, <2>1 DEF keptSlots
  <2>2. CASE push
    BY <1>2, <1>7, <1>9, <2>2, QueueTerms, HeldPush
  <2>3. CASE ~push /\ ~squashDetect.needSquash
    BY <1>2, <1>3, <1>7, <1>9, <2>3
  <2> QED BY <1>3, <2>1, <2>2, <2>3
<1>10. ASSUME NEW i \in sqActive,
              \/ SQqueue[i].isCommitted
              \/ storeWillCommit(squashDetect) /\ SQqueue[i].robTag = head
       PROVE  i \in held(sqHead, sqTail', SqCap)
  <2>1. i \in SqSlots /\ i \in held(sqHead, sqTail, SqCap)
    BY <1>2, <1>10 DEF sqActive
  <2>2. CASE squashDetect.needSquash
    <3>1. i \in sqGone \/ dist(head, sqTags[i]) <= dist(head, s)
      <4>1. CASE SQqueue[i].isCommitted
        BY <2>1, <4>1 DEF sqGone
      <4>2. CASE SQqueue[i].robTag = head
        <5>1. sqTags[i] = head /\ dist(head, head) = 0
          BY <1>2, <2>1, <4>2, DistFacts DEF sqTags
        <5>2. dist(head, s) \in Nat
          BY <2>2, SquashFacts, LiveFacts
        <5> HIDE DEF s
        <5> QED BY <5>1, <5>2
      <4> QED BY <1>10, <4>1, <4>2
    <3> QED BY <1>8, <2>1, <2>2, <3>1 DEF keptSlots
  <2>3. CASE push
    BY <1>2, <1>7, <2>1, <2>3, QueueTerms, HeldPush
  <2>4. CASE ~push /\ ~squashDetect.needSquash
    BY <1>3, <1>7, <2>1, <2>4
  <2> QED BY <1>3, <2>2, <2>3, <2>4
<1>11. ASSUME NEW i \in held(sqHead, sqTail', SqCap)
      PROVE  i \in sqGone' <=>
               (i \in goneA \/ (willCommit(squashDetect) /\ tag2[i] = head))
  <2>1. i \in SqSlots
    BY QueueTerms DEF held
  <2>2. i \in sqGone' <=> SQqueue'[i].isCommitted
    BY <2>1 DEF sqGone
  <2>3. CASE i \in sqActive
    <3>1. SQqueue'[i].isCommitted <=>
            \/ SQqueue[i].isCommitted
            \/ storeWillCommit(squashDetect) /\ SQqueue[i].robTag = head
      BY <2>3, StoreStep
    <3>2. SQqueue[i].robTag = tag2[i]
      BY <1>4, <2>1, <2>3 DEF sqTags
    <3>3. i \in goneA <=> SQqueue[i].isCommitted
      BY <2>3 DEF goneA
    <3>4. ASSUME willCommit(squashDetect), tag2[i] = head, i \notin goneA
          PROVE  storeWillCommit(squashDetect)
      <4>1. head \in staying("STORE")
        BY <1>8, <1>11, <3>4 DEF Follows
      <4>2. head \in LiveTags
        BY <1>1, <3>4, WindowStep
      <4>3. instr(head).kind = "STORE"
        <5>1. \A t \in LiveTags : instr(t)' = instr(t)
          BY LiveStep
        <5>2. \A t \in staying("STORE") : instr(t)'.kind = "STORE"
          BY DEF staying
        <5>3. \A t \in LiveTags : t \in staying("STORE") => instr(t).kind = "STORE"
          BY <5>1, <5>2
        <5> QED BY <4>1, <4>2, <5>3
      <4>4. headEntry.type = "STORE"
        BY <4>2, <4>3 DEF QInv, RobHolds, headEntry, entry
      <4> QED BY <3>4, <4>4 DEF storeWillCommit
    <3> QED BY <2>2, <3>1, <3>2, <3>3, <3>4 DEF storeWillCommit
  <2>4. CASE push /\ i = sqTail
    <3>1. SQqueue'[sqTail] = [NoStore EXCEPT !.robTag = next_tag]
      BY <2>4, StoreStep
    <3>2. ~SQqueue'[i].isCommitted
      BY <2>4, <3>1 DEF NoStore
    <3>3. i \notin goneA /\ tag2[i] = next_tag
      BY <1>4, <2>4
    <3>4. willCommit(squashDetect) => head # next_tag
      BY DEF willCommit, isEmpty
    <3> QED BY <2>2, <3>2, <3>3, <3>4
  <2> QED BY <1>9, <2>3, <2>4
<1>12. \A t \in LiveTags' : sqSnap'[t] = snapA[t]
  <2>1. sqSnap' = [t \in LiveTags' |-> ROBqueue'[robSlot(t)].sqTailSnapshot]
    BY DEF sqSnap, entry
  <2>2. \A t \in LiveTags' : t \in RobTags
    BY LiveStep DEF Between
  <2> QED BY <2>1, <2>2 DEF snapA
<1>13. Follows(head', next_tag', sqHead, sqTail', SqCap, tag2, sqGone',
               liveOf("STORE")', sqSnap')
  <2> HIDE DEF push
  <2> QED BY <1>2, <1>8, <1>11, <1>12, QueueTerms, FollowsBack
<1>14. ASSUME MemDispatch.op = "Store"
       PROVE  /\ SqFollows' /\ sqHead' \in SqSlots /\ sqTail' \in SqSlots
              /\ sqHead' = after(sqHead, SqCap) /\ sqHead # sqTail'
  <2>1. headStoreGoes
    BY <1>14 DEF MemDispatch, noneSent
  <2>2. sqHead \in sqActive /\ sqHead # sqTail
    <3>0. /\ sqHead \in 0 .. SqCap - 1 /\ sqTail \in 0 .. SqCap - 1
          /\ SqCap \in Nat /\ SqCap >= 2
      BY <1>2, QueueTerms
    <3>1. pos(sqHead, sqHead, SqCap) = 0 /\ pos(sqTail, sqHead, SqCap) \in 0 .. SqCap - 1
          /\ (pos(sqTail, sqHead, SqCap) = 0 <=> sqTail = sqHead)
      BY <3>0, PosFacts
    <3>2. sqHead # sqTail
      BY <2>1 DEF headStoreGoes, sqIsEmpty
    <3> QED BY <1>2, <3>1, <3>2 DEF held
  <2>3. \/ SQqueue[sqHead].isCommitted
        \/ storeWillCommit(squashDetect) /\ SQqueue[sqHead].robTag = head
    BY <2>1 DEF headStoreGoes, sqIsCommitted
  <2>4. sqHead \in SqSlots
    BY <1>2, QueueTerms
  <2>5. sqHead \in sqGone'
    BY <2>2, <2>3, <2>4, StoreStep DEF sqGone
  <2>6. sqHead # sqTail'
    <3>1. sqHead \in held(sqHead, sqTail', SqCap)
      BY <1>10, <2>2, <2>3
    <3>2. pos(sqHead, sqHead, SqCap) < pos(sqTail', sqHead, SqCap)
      BY <3>1 DEF held
    <3>3. pos(sqHead, sqHead, SqCap) = 0
      BY <1>2, QueueTerms, PosFacts
    <3> QED BY <3>2, <3>3
  <2>7. sqHead' = after(sqHead, SqCap) /\ sqHead' \in 0 .. SqCap - 1
    BY <1>1, <1>2, <1>14, QueueTerms, StepFacts
  <2>8. head' \in RobTags /\ next_tag' \in RobTags
    BY <1>1, WindowStep
  <2>9. Follows(head', next_tag', after(sqHead, SqCap), sqTail', SqCap, tag2, sqGone',
                liveOf("STORE")', sqSnap')
    BY <1>2, <1>8, <1>13, <2>5, <2>6, <2>8, QueueTerms, FollowsPop
  <2> QED BY <1>8, <2>6, <2>7, <2>9, QueueTerms DEF SqFollows, tag2
<1>15. ASSUME MemDispatch.op # "Store"
       PROVE  /\ SqFollows' /\ sqHead' \in SqSlots /\ sqTail' \in SqSlots
              /\ sqHead' = sqHead
  BY <1>1, <1>2, <1>8, <1>13, <1>15, QueueTerms DEF SqFollows, tag2
<1>16. \A i \in held(sqHead, sqTail', SqCap) :
         i \in sqActive \/ ~SQqueue'[i].isCommitted
  <2> SUFFICES ASSUME NEW i \in held(sqHead, sqTail', SqCap), push, i = sqTail
               PROVE  ~SQqueue'[i].isCommitted
    BY <1>9
  <2>1. SQqueue'[sqTail] = [NoStore EXCEPT !.robTag = next_tag]
    BY StoreStep
  <2> QED BY <2>1 DEF NoStore
<1> HIDE DEF push
<1> QED BY <1>10, <1>14, <1>15, <1>16

(* The load queue after the retirement.  In a cycle without a squash the   *)
(* oldest load is retired if it has left the ROB; either way every load    *)
(* that remains has room for one more issue.                               *)
LEMMA LqRetire ==
    ASSUME QInv, NEW q,
           q = IF retireLoad(squashDetect) THEN lqNext(lqHead) ELSE lqHead
    PROVE  /\ q \in 0 .. LqCap - 1
           /\ Follows(head, next_tag, q, lqTail, LqCap, lqTags, lqGone,
                      liveOf("LOAD"), lqSnap)
           /\ Spread(head, next_tag, q, lqTail, LqCap, lqTags)
           /\ held(q, lqTail, LqCap) \subseteq lqActive
           /\ ~squashDetect.needSquash /\ dist(head, next_tag) < RobCap =>
                /\ \A i \in held(q, lqTail, LqCap) :
                      span(i, next_tag, q, LqCap, lqTags) < RobCap
                /\ pos(lqTail, q, LqCap) < RobCap
           /\ lqNext(lqTail) # lqHead => lqNext(lqTail) # q
<1>1. /\ head \in RobTags /\ next_tag \in RobTags
      /\ lqHead \in 0 .. LqCap - 1 /\ lqTail \in 0 .. LqCap - 1
      /\ LqFollows /\ LqSpread /\ lqActive = held(lqHead, lqTail, LqCap)
      /\ dist(head, next_tag) <= RobCap
      /\ LqCap \in Nat /\ LqCap >= 2
  BY QueueTerms DEF QInv, QueueTypes, RobHolds
<1>2. /\ Follows(head, next_tag, lqHead, lqTail, LqCap, lqTags, lqGone,
                 liveOf("LOAD"), lqSnap)
      /\ Spread(head, next_tag, lqHead, lqTail, LqCap, lqTags)
  BY <1>1 DEF LqFollows, LqSpread
<1>3. CASE retireLoad(squashDetect)
  <2>1. q = after(lqHead, LqCap) /\ lqHead # lqTail
    BY <1>3, QueueTerms DEF retireLoad, lqIsEmpty
  <2>2. lqHead \in lqActive
    BY <1>1, <2>1, HeldPop
  <2>3. LQqueue[lqHead].robTag \notin LiveTags
    <3>1. CASE isEmpty
      <4>1. ASSUME NEW t \in LiveTags PROVE FALSE
        BY <3>1, LiveFacts DEF isEmpty
      <4> QED BY <4>1
    <3>2. CASE isOlder(LQqueue[lqHead].robTag, head)
      BY <2>2, <3>2, LoadSlots
    <3> QED BY <1>3, <3>1, <3>2 DEF retireLoad
  <2>4. lqHead \in lqGone
    BY <1>1, <2>3, QueueTerms DEF lqGone, lqTags
  <2>5. /\ q \in 0 .. LqCap - 1
        /\ held(q, lqTail, LqCap) = held(lqHead, lqTail, LqCap) \ {lqHead}
    BY <1>1, <2>1, HeldPop
  <2>6. Follows(head, next_tag, after(lqHead, LqCap), lqTail, LqCap, lqTags,
                lqGone, liveOf("LOAD"), lqSnap)
    BY <1>1, <1>2, <2>1, <2>4, FollowsPop
  <2>7. /\ Spread(head, next_tag, q, lqTail, LqCap, lqTags)
        /\ \A i \in held(q, lqTail, LqCap) :
              span(i, next_tag, q, LqCap, lqTags) < RobCap
        /\ pos(lqTail, q, LqCap) < RobCap
    BY <1>1, <1>2, <2>1, SpreadPop
  <2>8. lqNext(lqTail) # q
    <3>1. /\ prior(after(lqTail, LqCap), LqCap) = lqTail
          /\ prior(after(lqHead, LqCap), LqCap) = lqHead
      BY <1>1, StepFacts
    <3>2. lqNext(lqTail) = after(lqTail, LqCap)
      BY QueueTerms
    <3> QED BY <2>1, <3>1, <3>2
  <2> QED BY <1>1, <2>1, <2>5, <2>6, <2>7, <2>8
<1>4. CASE ~retireLoad(squashDetect)
  <2>1. q = lqHead
    BY <1>4
  <2>2. ASSUME ~squashDetect.needSquash, dist(head, next_tag) < RobCap
        PROVE  /\ \A i \in held(lqHead, lqTail, LqCap) :
                     span(i, next_tag, lqHead, LqCap, lqTags) < RobCap
               /\ pos(lqTail, lqHead, LqCap) < RobCap
    <3>1. lqHead = lqTail \/ lqTags[lqHead] \in Between(head, next_tag)
      <4> SUFFICES ASSUME lqHead # lqTail
                   PROVE  lqTags[lqHead] \in Between(head, next_tag)
        OBVIOUS
      <4>1. lqHead \in lqActive
        BY <1>1, HeldPop
      <4>2. ~isOlder(LQqueue[lqHead].robTag, head)
        BY <1>4, <2>2 DEF retireLoad, lqIsEmpty
      <4>3. LQqueue[lqHead].robTag \in LiveTags
        BY <4>1, <4>2, LoadSlots
      <4> QED BY <1>1, <4>3, QueueTerms DEF lqTags, LiveTags
    <3>2. dist(head, next_tag) \in Nat
      <4>1. dist(head, next_tag) \in 0 .. 2 * RobCap - 1
        BY <1>1, DistFacts
      <4> QED BY <4>1
    <3>3. ASSUME NEW i \in held(lqHead, lqTail, LqCap)
          PROVE  /\ span(i, next_tag, lqHead, LqCap, lqTags) < RobCap
                 /\ pos(lqTail, lqHead, LqCap)
                      <= span(i, next_tag, lqHead, LqCap, lqTags)
                 /\ span(i, next_tag, lqHead, LqCap, lqTags) \in Nat
                 /\ pos(lqTail, lqHead, LqCap) \in Nat
      <4>1. span(i, next_tag, lqHead, LqCap, lqTags) <= dist(head, next_tag)
        BY <1>1, <1>2, <3>1, SpreadLive
      <4>2. /\ span(i, next_tag, lqHead, LqCap, lqTags) \in Nat
            /\ pos(lqTail, lqHead, LqCap) \in Nat
            /\ span(i, next_tag, lqHead, LqCap, lqTags)
                 >= pos(lqTail, lqHead, LqCap)
        BY <1>1, <1>2, SpreadFacts
      <4> QED BY <2>2, <3>2, <4>1, <4>2, RobAssumption
    <3>4. pos(lqTail, lqHead, LqCap) < RobCap
      <4>1. CASE lqHead = lqTail
        <5>1. pos(lqTail, lqHead, LqCap) = 0
          BY <1>1, <4>1, PosFacts
        <5> QED BY <5>1, RobAssumption
      <4>2. CASE lqHead # lqTail
        <5>1. lqHead \in held(lqHead, lqTail, LqCap)
          BY <1>1, <4>2, HeldPop
        <5> QED BY <3>3, <5>1, RobAssumption
      <4> QED BY <4>1, <4>2
    <3> QED BY <3>3, <3>4
  <2> QED BY <1>1, <1>2, <2>1, <2>2
<1> QED BY <1>3, <1>4

(* The load queue: retirement, then issue or flush, then the commit.       *)
LEMMA LqStep ==
    ASSUME QInv, NEW pkt, NEW dispatch, NEW vals, NEW brs,
           StepOf(pkt, dispatch, vals, brs)
    PROVE  /\ LqFollows' /\ LqSpread'
           /\ lqHead' \in LqSlots /\ lqTail' \in LqSlots
<1> DEFINE snapA == [t \in RobTags |-> ROBqueue'[robSlot(t)].lqTailSnapshot]
           goneA == {i \in lqActive : lqTags[i] \notin LiveTags}
           tag2 == lqTags'
           push == pkt.valid /\ curr.kind = "LOAD"
           s == squashDetect.SquashTag
           q == lqHead'
<1>1. /\ pkt = NoPacket \/ (canIssue /\ pkt = IssuePacket)
      /\ ROBtick(pkt, robDone(brs), squashDetect)
      /\ q = IF retireLoad(squashDetect) THEN lqNext(lqHead) ELSE lqHead
      /\ lqTail' = lqFlushedTail(pkt, push, squashDetect)
  BY DEF StepOf, Cycle, LQtick
<1>2. /\ head \in RobTags /\ next_tag \in RobTags
      /\ dist(head, next_tag) <= RobCap
      /\ lqHead \in 0 .. LqCap - 1 /\ lqTail \in 0 .. LqCap - 1
      /\ LqCap \in Nat /\ LqCap >= 2
  BY QueueTerms DEF QInv, QueueTypes, RobHolds
<1>3. /\ q \in 0 .. LqCap - 1
      /\ Follows(head, next_tag, q, lqTail, LqCap, lqTags, lqGone,
                 liveOf("LOAD"), lqSnap)
      /\ Spread(head, next_tag, q, lqTail, LqCap, lqTags)
      /\ held(q, lqTail, LqCap) \subseteq lqActive
      /\ ~squashDetect.needSquash /\ dist(head, next_tag) < RobCap =>
           /\ \A i \in held(q, lqTail, LqCap) :
                 span(i, next_tag, q, LqCap, lqTags) < RobCap
           /\ pos(lqTail, q, LqCap) < RobCap
      /\ lqNext(lqTail) # lqHead => lqNext(lqTail) # q
  <2> HIDE DEF q
  <2> QED BY <1>1, LqRetire
<1> HIDE DEF q
<1>4. /\ pkt.valid \in BOOLEAN /\ squashDetect.needSquash \in BOOLEAN
      /\ pkt.valid => ~squashDetect.needSquash /\ dist(head, next_tag) < RobCap
      /\ push => lqNext(lqTail) # q
  BY <1>1, <1>3, PacketFacts, SquashFacts
<1>5. /\ \A i \in lqActive : tag2[i] = lqTags[i]
      /\ push => tag2[lqTail] = next_tag
      /\ lqTail \notin goneA
  <2>1. \A i \in LqSlots : tag2[i] = LQqueue'[i].robTag /\ lqTags[i] = LQqueue[i].robTag
    BY DEF lqTags
  <2>2. next_tag \in RobTags /\ lqTail \in LqSlots
    BY <1>2, QueueTerms
  <2> QED BY <2>1, <2>2, LoadStep DEF lqActive
<1>6. SameEntries(held(q, lqTail, LqCap), lqTags, tag2, lqGone, goneA)
  BY <1>3, <1>5 DEF SameEntries, lqGone, lqActive
<1>7. SameFields(LiveTags, lqSnap, snapA)
  <2>1. \A t \in LiveTags : /\ t \in RobTags
                            /\ ROBqueue'[robSlot(t)].lqTailSnapshot = entry(t).lqTailSnapshot
    BY LiveStep, LiveFacts DEF entry
  <2> QED BY <2>1 DEF SameFields, lqSnap
<1>8. TailMoves(pkt, "LOAD", q, lqTail, lqTail', LqCap, tag2, goneA, lqSnap, snapA)
  <2>1. ASSUME ~squashDetect.needSquash
        PROVE  lqTail' = IF push THEN lqNext(lqTail) ELSE lqTail
    BY <1>1, <1>4, <2>1 DEF lqFlushedTail, lqPushedTail
  <2>2. ASSUME pkt.valid
        PROVE  snapA[next_tag] = IF push THEN lqNext(lqTail) ELSE lqTail
    <3>1. ROBqueue'[robSlot(next_tag)].lqTailSnapshot =
            IF curr.kind = "LOAD" THEN lqNext(lqTail) ELSE lqTail
      BY <1>1, <2>2, EntryStep, PacketFacts
    <3> QED BY <1>2, <2>2, <3>1
  <2>3. ASSUME squashDetect.needSquash PROVE lqTail' = lqSnap[s]
    <3>1. s \in LiveTags
      BY <2>3, SquashFacts
    <3>2. matchesTag(s)
      BY <3>1, LiveFacts DEF matchesTag, isEmpty, entry
    <3> QED BY <1>1, <2>3, <3>1, <3>2 DEF lqFlushedTail, lqSnap, entry
  <2> HIDE DEF snapA, tag2, goneA
  <2> QED BY <1>4, <1>5, <2>1, <2>2, <2>3, QueueTerms DEF TailMoves
<1> HIDE DEF snapA, goneA, tag2
<1>9. /\ lqTail' \in 0 .. LqCap - 1
      /\ Follows(head, next_tag', q, lqTail', LqCap, tag2, goneA,
                 staying("LOAD"), snapA)
      /\ squashDetect.needSquash =>
           /\ pos(lqTail', q, LqCap) <= pos(lqTail, q, LqCap)
           /\ held(q, lqTail', LqCap) =
                keptSlots(head, s, held(q, lqTail, LqCap), lqTags, lqGone)
  BY <1>2, <1>3, <1>6, <1>7, <1>8, FollowsFront
<1>10. ASSUME NEW i \in held(q, lqTail', LqCap)
       PROVE  i \in lqActive \/ (push /\ i = lqTail)
  <2>1. CASE squashDetect.needSquash
    BY <1>3, <1>9, <1>10, <2>1 DEF keptSlots
  <2>2. CASE push
    BY <1>2, <1>3, <1>4, <1>8, <1>10, <2>2, QueueTerms, HeldPush DEF TailMoves
  <2>3. CASE ~push /\ ~squashDetect.needSquash
    BY <1>3, <1>4, <1>8, <1>10, <2>3 DEF TailMoves
  <2> QED BY <1>4, <2>1, <2>2, <2>3
<1>11. ASSUME NEW i \in held(q, lqTail', LqCap)
       PROVE  i \in lqGone' <=>
                (i \in goneA \/ (willCommit(squashDetect) /\ tag2[i] = head))
  <2>1. i \in LqSlots
    BY QueueTerms DEF held
  <2>2. i \in lqGone' <=> tag2[i] \notin LiveTags'
    BY <2>1 DEF lqGone, tag2
  <2>3. Between(head', next_tag') =
          IF willCommit(squashDetect) THEN Between(head, next_tag') \ {head}
          ELSE Between(head, next_tag')
    BY <1>1, WindowStep
  <2>4. LiveTags' = Between(head', next_tag')
    BY LiveStep
  <2>5. CASE i \in lqActive
    <3>1. tag2[i] = lqTags[i] /\ lqTags[i] = LQqueue[i].robTag
      BY <1>5, <2>1, <2>5 DEF lqTags
    <3>2. CASE i \in goneA
      <4>1. tag2[i] \notin LiveTags /\ tag2[i] # next_tag
        BY <2>5, <3>1, <3>2, LoadSlots DEF goneA
      <4>2. tag2[i] \notin LiveTags'
        BY <4>1, LiveStep
      <4> QED BY <2>2, <3>2, <4>2
    <3>3. CASE i \notin goneA
      <4>1. tag2[i] \in staying("LOAD")
        BY <1>9, <1>11, <3>3 DEF Follows
      <4>2. tag2[i] \in Between(head, next_tag')
        BY <4>1 DEF staying
      <4> QED BY <2>2, <2>3, <2>4, <3>3, <4>2
    <3> QED BY <3>2, <3>3
  <2>6. CASE push /\ i = lqTail
    <3>1. tag2[i] = next_tag /\ i \notin goneA
      BY <1>5, <2>6
    <3>2. tag2[i] \in staying("LOAD")
      BY <1>9, <1>11, <3>1 DEF Follows
    <3>3. tag2[i] \in Between(head, next_tag')
      BY <3>2 DEF staying
    <3> QED BY <2>2, <2>3, <2>4, <3>1, <3>3
  <2> QED BY <1>10, <2>5, <2>6
<1>12. \A t \in LiveTags' : lqSnap'[t] = snapA[t]
  <2>1. lqSnap' = [t \in LiveTags' |-> ROBqueue'[robSlot(t)].lqTailSnapshot]
    BY DEF lqSnap, entry
  <2>2. \A t \in LiveTags' : t \in RobTags
    BY LiveStep DEF Between
  <2> QED BY <2>1, <2>2 DEF snapA
<1>13. Follows(head', next_tag', q, lqTail', LqCap, tag2, lqGone',
               liveOf("LOAD")', lqSnap')
  <2> HIDE DEF push
  <2> QED BY <1>2, <1>3, <1>9, <1>11, <1>12, FollowsBack
<1>14. LqFollows'
  BY <1>13 DEF LqFollows, q, tag2
<1>15. Spread(head, next_tag', q, lqTail', LqCap, tag2)
  <2>1. \A i \in held(q, lqTail, LqCap) : tag2[i] = lqTags[i]
    BY <1>6 DEF SameEntries
  <2>2. CASE pkt.valid
    <3>1. next_tag' = robNextTag(next_tag)
      BY <1>1, <2>2, WindowStep
    <3>2. /\ \A i \in held(q, lqTail, LqCap) :
               span(i, next_tag, q, LqCap, lqTags) < RobCap
          /\ pos(lqTail, q, LqCap) < RobCap /\ dist(head, next_tag) < RobCap
      BY <1>3, <1>4, <2>2
    <3>3. CASE curr.kind = "LOAD"
      <4>1. /\ lqTail' = after(lqTail, LqCap) /\ after(lqTail, LqCap) # q
            /\ tag2[lqTail] = next_tag
        BY <1>8, <2>2, <3>3 DEF TailMoves
      <4> QED BY <1>2, <1>3, <2>1, <3>1, <3>2, <4>1, SpreadPush
    <3>4. CASE curr.kind # "LOAD"
      <4>1. lqTail' = lqTail
        BY <1>8, <2>2, <3>4 DEF TailMoves
      <4> QED BY <1>2, <1>3, <2>1, <3>1, <3>2, <4>1, SpreadPush
    <3> QED BY <3>3, <3>4
  <2>3. CASE squashDetect.needSquash
    <3>1. s \in LiveTags /\ next_tag' = robNextTag(s)
      BY <1>1, <2>3, SquashFacts, WindowStep
    <3>2. s \in Between(head, next_tag)
      BY <3>1 DEF LiveTags
    <3>3. held(q, lqTail', LqCap) \subseteq held(q, lqTail, LqCap)
      BY <1>9, <2>3 DEF keptSlots
    <3>4. held(q, lqTail', LqCap) =
            {i \in held(q, lqTail, LqCap) :
               \/ lqTags[i] \notin Between(head, next_tag)
               \/ dist(head, lqTags[i]) <= dist(head, s)}
      <4>1. \A i \in held(q, lqTail, LqCap) :
              i \in lqGone <=> lqTags[i] \notin Between(head, next_tag)
        BY QueueTerms DEF lqGone, LiveTags, held
      <4> QED BY <1>9, <2>3, <4>1 DEF keptSlots
    <3>5. \A i \in held(q, lqTail', LqCap) : tag2[i] = lqTags[i]
      BY <2>1, <3>3
    <3> HIDE DEF s
    <3> QED BY <1>2, <1>3, <1>9, <2>3, <3>1, <3>2, <3>4, <3>5, SpreadFlush
  <2>4. CASE ~pkt.valid /\ ~squashDetect.needSquash
    <3>1. next_tag' = next_tag /\ lqTail' = lqTail
      BY <1>1, <1>8, <2>4, WindowStep DEF TailMoves
    <3> QED BY <1>3, <2>1, <3>1 DEF Spread, span
  <2> QED BY <1>4, <2>2, <2>3, <2>4
<1>16. ASSUME head' = next_tag', NEW i \in held(q, lqTail', LqCap)
       PROVE  dist(tag2[i], next_tag') < RobCap
  <2>1. CASE ~willCommit(squashDetect)
    <3>1. head' = head
      BY <1>1, <2>1, WindowStep
    <3> QED BY <1>15, <1>16, <3>1 DEF Spread
  <2>2. CASE willCommit(squashDetect)
    <3>1. ~squashDetect.needSquash /\ head' = robNextTag(head) /\ head # next_tag
      BY <1>1, <1>16, <2>2, WindowStep DEF willCommit, isEmpty
    <3>2. ~pkt.valid
      <4> SUFFICES ASSUME pkt.valid PROVE FALSE
        BY <1>4
      <4>1. robNextTag(head) = robNextTag(next_tag)
        BY <1>1, <1>16, <3>1, WindowStep
      <4>2. dist(head, robNextTag(next_tag)) = dist(head, next_tag) + 1
        BY <1>2, <1>4, WindowPush
      <4>3. /\ dist(head, head) = 0 /\ dist(head, next_tag) \in 0 .. 2 * RobCap - 1
            /\ dist(head, next_tag) # 0
        BY <1>2, <3>1, DistFacts
      <4>4. dist(head, robNextTag(head)) = 1
        BY <1>2, <4>3, DistNext, RobAssumption
      <4> QED BY <4>1, <4>2, <4>3, <4>4
    <3>3. next_tag' = next_tag /\ lqTail' = lqTail
      BY <1>1, <1>4, <1>8, <3>1, <3>2, WindowStep DEF TailMoves
    <3>4. dist(head, next_tag) < RobCap
      <4>1. /\ dist(head, head) = 0 /\ dist(head, next_tag) \in 0 .. 2 * RobCap - 1
        BY <1>2, DistFacts
      <4>2. dist(head, robNextTag(head)) = 1
        BY <1>2, <4>1, DistNext, RobAssumption
      <4>3. dist(head, next_tag) = 1
        BY <1>16, <3>1, <3>3, <4>2
      <4> QED BY <4>3, RobAssumption
    <3>5. /\ i \in held(q, lqTail, LqCap) /\ tag2[i] = lqTags[i]
          /\ span(i, next_tag, q, LqCap, lqTags) < RobCap
      BY <1>3, <1>6, <1>16, <3>1, <3>3, <3>4 DEF SameEntries
    <3>6. /\ span(i, next_tag, q, LqCap, lqTags)
               = dist(lqTags[i], next_tag) + pos(i, q, LqCap)
          /\ dist(lqTags[i], next_tag) \in 1 .. RobCap
          /\ pos(i, q, LqCap) \in Nat
      BY <1>2, <1>3, <3>5, SpreadFacts
    <3> QED BY <3>3, <3>5, <3>6, RobAssumption
  <2> QED BY <2>1, <2>2
<1>17. Spread(head', next_tag', q, lqTail', LqCap, tag2)
  BY <1>15, <1>16, SpreadCommit
<1>18. LqSpread'
  BY <1>17 DEF LqSpread, q, tag2
<1> QED BY <1>3, <1>9, <1>14, <1>18, QueueTerms DEF q

-----------------------------------------------------------------------------
(* One cycle: what waits.                                                  *)

(* Who is kept and does not commit is in the window after the cycle; so is *)
(* the issued instruction.                                                 *)
LEMMA KeptLive ==
    ASSUME QInv, NEW pkt, NEW dispatch, NEW vals, NEW brs,
           StepOf(pkt, dispatch, vals, brs)
    PROVE  /\ \A t \in LiveTags :
                /\ live(t) => kept(t)
                /\ kept(t) /\ (willCommit(squashDetect) => t # head) => t \in LiveTags'
           /\ pkt.valid => next_tag \in Between(head', next_tag')
           /\ LiveTags' = Between(head', next_tag')
<1>1. /\ pkt = NoPacket \/ (canIssue /\ pkt = IssuePacket)
      /\ ROBtick(pkt, robDone(brs), squashDetect)
  BY DEF StepOf, Cycle
<1>2. /\ Between(head, next_tag') =
           {t \in LiveTags : kept(t)} \cup (IF pkt.valid THEN {next_tag} ELSE {})
      /\ Between(head', next_tag') =
           IF willCommit(squashDetect)
             THEN Between(head, next_tag') \ {head} ELSE Between(head, next_tag')
      /\ willCommit(squashDetect) => head # next_tag
  BY <1>1, WindowStep DEF willCommit, isEmpty
<1>3. LiveTags' = Between(head', next_tag')
  BY LiveStep
<1>4. ASSUME NEW t \in LiveTags, live(t) PROVE kept(t)
  <2>1. CASE squashDetect.needSquash
    <3> DEFINE s == squashDetect.SquashTag
    <3>1. /\ live(t) <=> dist(head, t) < dist(head, s)
          /\ kept(t) <=> dist(head, t) <= dist(head, s)
      BY <2>1, SquashAges
    <3>2. dist(head, t) \in Nat /\ dist(head, s) \in Nat
      BY <2>1, SquashFacts, LiveFacts
    <3> HIDE DEF s
    <3> QED BY <1>4, <3>1, <3>2
  <2>2. CASE ~squashDetect.needSquash
    BY <2>2 DEF kept
  <2> QED BY <2>1, <2>2
<1> QED BY <1>2, <1>3, <1>4

(* The head does not commit while it waits for anything.                   *)
LEMMA CommitWaitsForAll ==
    ASSUME QInv, willCommit(squashDetect)
    PROVE  /\ head \notin addrRS \cup agu /\ head \notin valRS /\ head \notin brRS
           /\ head \in LiveTags
<1>1. head # next_tag /\ entry(head).isCommitReady
  BY DEF willCommit, isEmpty, headEntry, entry
<1>2. head \in LiveTags
  BY <1>1, WindowPop DEF QInv, QueueTypes, LiveTags
<1>3. /\ instr(head).kind = "LOAD" => LQqueue[lqSlotOf(head)].isAddressReady
      /\ instr(head).kind = "STORE" =>
           /\ SQqueue[sqSlotOf(head)].isAddressReady
           /\ SQqueue[sqSlotOf(head)].isValueReady
  BY <1>1, <1>2 DEF QInv, ReadyComplete, isReadyToCommit
<1>4. head \notin addrRS \cup agu
  <2> SUFFICES ASSUME head \in addrRS \cup agu PROVE FALSE
    OBVIOUS
  <2>1. instr(head).kind \in {"LOAD", "STORE"}
    BY DEF QInv, StationsLive, liveOf
  <2> QED BY <1>3, <2>1 DEF QInv, StationsLive
<1>5. head \notin valRS
  <2> SUFFICES ASSUME head \in valRS PROVE FALSE
    OBVIOUS
  <2>1. instr(head).kind = "STORE"
    BY DEF QInv, StationsLive, liveOf
  <2> QED BY <1>3, <2>1 DEF QInv, StationsLive
<1>6. head \notin brRS
  BY <1>1 DEF QInv, StationsLive
<1> QED BY <1>2, <1>4, <1>5, <1>6

(* The stations and the AGU.                                               *)
LEMMA StationsStep ==
    ASSUME QInv, NEW pkt, NEW dispatch, NEW vals, NEW brs,
           StepOf(pkt, dispatch, vals, brs)
    PROVE  StationsLive' /\ ReadyComplete'
<1> DEFINE new(kinds) == IF pkt.valid /\ curr.kind \in kinds THEN {next_tag} ELSE {}
<1>1. /\ pkt = NoPacket \/ (canIssue /\ pkt = IssuePacket)
      /\ dispatch \in AtMostOne({t \in addrRS : live(t)})
      /\ vals \in SUBSET valRS /\ brs \in AtMostOne(brRS)
      /\ addrRS' = {t \in (addrRS \ dispatch) \cup new({"LOAD", "STORE"}) : kept(t)}
      /\ valRS' = {t \in (valRS \ vals) \cup new({"STORE"}) : kept(t)}
      /\ brRS' = {t \in (brRS \ brs) \cup new({"BRANCH"}) : kept(t)}
      /\ agu' = {t \in (agu \ aguHead) \cup dispatch : live(t)}
  BY DEF StepOf, Cycle, StationTick, AguTick
<1>2. /\ dispatch \subseteq addrRS /\ brs \subseteq brRS /\ aguHead \subseteq agu
      /\ addrRS \cup agu \subseteq liveOf("LOAD") \cup liveOf("STORE")
      /\ addrRS \cap agu = {}
      /\ valRS \subseteq liveOf("STORE") /\ brRS \subseteq liveOf("BRANCH")
  BY <1>1 DEF AtMostOne, aguHead, QInv, StationsLive
<1>3. next_tag \notin LiveTags
  BY LiveFacts
<1>4. /\ \A t \in LiveTags :
           /\ live(t) => kept(t)
           /\ kept(t) /\ (willCommit(squashDetect) => t # head) => t \in LiveTags'
      /\ pkt.valid => \A t \in {next_tag} : t \in LiveTags'
  BY KeptLive
<1>5. willCommit(squashDetect) =>
        head \notin addrRS \cup agu /\ head \notin valRS /\ head \notin brRS
  BY CommitWaitsForAll
<1>6. ASSUME NEW t \in LiveTags
      PROVE  instr(t)' = instr(t) /\ lqSlotOf(t)' = lqSlotOf(t)
               /\ sqSlotOf(t)' = sqSlotOf(t)
  BY LiveStep
<1>7. ASSUME NEW t, t = next_tag, pkt.valid
      PROVE  /\ instr(t)' = curr
             /\ curr.kind = "LOAD" => ~LQqueue'[lqSlotOf(t)'].isAddressReady
             /\ curr.kind = "STORE" => /\ ~SQqueue'[sqSlotOf(t)'].isAddressReady
                                       /\ ~SQqueue'[sqSlotOf(t)'].isValueReady
             /\ entry(t)'.isCommitReady => curr.kind = "HALT"
  <2>1. /\ instr(t)' = curr
        /\ entry(t)' = [pkt.robEntry EXCEPT !.tag = t]
        /\ lqSlotOf(t)' = prior(IF curr.kind = "LOAD" THEN lqNext(lqTail)
                                ELSE lqTail, LqCap)
        /\ sqSlotOf(t)' = prior(IF curr.kind = "STORE" THEN sqNext(sqTail)
                                ELSE sqTail, SqCap)
    BY <1>7, LiveStep
  <2>2. prior(lqNext(lqTail), LqCap) = lqTail /\ prior(sqNext(sqTail), SqCap) = sqTail
    BY QueueTerms, StepFacts DEF QInv, QueueTypes
  <2>3. curr.kind = "LOAD" => ~LQqueue'[lqSlotOf(t)'].isAddressReady
    BY <1>7, <2>1, <2>2, LoadStep
  <2>4. curr.kind = "STORE" => /\ ~SQqueue'[sqSlotOf(t)'].isAddressReady
                               /\ ~SQqueue'[sqSlotOf(t)'].isValueReady
    BY <1>7, <2>1, <2>2, StoreStep DEF NoStore
  <2>5. entry(t)'.isCommitReady => curr.kind = "HALT"
    BY <1>1, <1>7, <2>1, PacketFacts
  <2> QED BY <2>1, <2>3, <2>4, <2>5
<1>8. ASSUME NEW t \in addrRS' \cup agu'
      PROVE  \/ t = next_tag /\ pkt.valid /\ curr.kind \in {"LOAD", "STORE"}
             \/ /\ t \in LiveTags /\ t \in LiveTags' /\ t \in addrRS \cup agu
                /\ t \notin aguHead
  <2>1. \/ t = next_tag /\ pkt.valid /\ curr.kind \in {"LOAD", "STORE"}
        \/ t \in addrRS /\ kept(t)
        \/ t \in agu \ aguHead /\ live(t)
        \/ t \in addrRS /\ live(t)
    BY <1>1, <1>2, <1>8
  <2>2. t \in addrRS \cup agu => t \in LiveTags
    BY <1>2 DEF liveOf
  <2> QED BY <1>2, <1>4, <1>5, <2>1, <2>2
<1>9. addrRS' \cup agu' \subseteq liveOf("LOAD")' \cup liveOf("STORE")'
  <2> SUFFICES ASSUME NEW t \in addrRS' \cup agu'
               PROVE  t \in LiveTags' /\ instr(t)'.kind \in {"LOAD", "STORE"}
    BY DEF liveOf
  <2>1. CASE t = next_tag /\ pkt.valid /\ curr.kind \in {"LOAD", "STORE"}
    BY <1>4, <1>7, <2>1
  <2>2. CASE t \in LiveTags /\ t \in LiveTags' /\ t \in addrRS \cup agu
    BY <1>2, <1>6, <2>2 DEF liveOf
  <2> QED BY <1>8, <2>1, <2>2
<1>10. addrRS' \cap agu' = {}
  <2> SUFFICES ASSUME NEW t, t \in addrRS', t \in agu' PROVE FALSE
    OBVIOUS
  <2>1. t \in addrRS \ dispatch \/ t = next_tag
    BY <1>1
  <2>2. t \in agu \/ t \in dispatch
    BY <1>1
  <2>3. t \in LiveTags
    BY <1>2, <2>2 DEF liveOf
  <2> QED BY <1>2, <1>3, <2>1, <2>2, <2>3
<1>11. ASSUME NEW t \in addrRS' \cup agu'
       PROVE  /\ instr(t)'.kind = "LOAD" => ~LQqueue'[lqSlotOf(t)'].isAddressReady
              /\ instr(t)'.kind = "STORE" => ~SQqueue'[sqSlotOf(t)'].isAddressReady
  <2>1. CASE t = next_tag /\ pkt.valid
    BY <1>7, <2>1
  <2>2. CASE t \in LiveTags /\ t \in addrRS \cup agu /\ t \notin aguHead
    <3>1. ASSUME instr(t)'.kind = "LOAD"
          PROVE  ~LQqueue'[lqSlotOf(t)'].isAddressReady
      <4>1. t \in liveOf("LOAD") /\ lqSlotOf(t)' = lqSlotOf(t)
        BY <1>6, <2>2, <3>1 DEF liveOf
      <4>2. lqSlotOf(t) \in lqActive /\ LQqueue[lqSlotOf(t)].robTag = t
        BY <4>1, LoadSlots
      <4>3. ~LQqueue[lqSlotOf(t)].isAddressReady
        BY <2>2, <4>1 DEF liveOf, QInv, StationsLive
      <4>4. lqSlotOf(t) \notin DOMAIN loadAddress
        BY <1>1, <2>2, <4>2, WriteFacts
      <4> QED BY <4>1, <4>2, <4>3, <4>4, LoadStep
    <3>2. ASSUME instr(t)'.kind = "STORE"
          PROVE  ~SQqueue'[sqSlotOf(t)'].isAddressReady
      <4>1. t \in liveOf("STORE") /\ sqSlotOf(t)' = sqSlotOf(t)
        BY <1>6, <2>2, <3>2 DEF liveOf
      <4>2. sqSlotOf(t) \in sqActive /\ SQqueue[sqSlotOf(t)].robTag = t
        BY <4>1, StoreSlots
      <4>3. ~SQqueue[sqSlotOf(t)].isAddressReady
        BY <2>2, <4>1 DEF liveOf, QInv, StationsLive
      <4>4. sqSlotOf(t) \notin DOMAIN storeAddress
        BY <1>1, <2>2, <4>2, WriteFacts
      <4> QED BY <4>1, <4>2, <4>3, <4>4, StoreStep
    <3> QED BY <3>1, <3>2
  <2> QED BY <1>8, <2>1, <2>2
<1>12. ASSUME NEW t \in valRS'
       PROVE  t \in liveOf("STORE")' /\ ~SQqueue'[sqSlotOf(t)'].isValueReady
  <2>1. CASE t \in valRS \ vals /\ kept(t)
    <3>1. t \in liveOf("STORE") /\ t \in LiveTags /\ t \in LiveTags'
      BY <1>2, <1>4, <1>5, <2>1 DEF liveOf
    <3>2. sqSlotOf(t)' = sqSlotOf(t) /\ instr(t)'.kind = "STORE"
      BY <1>6, <3>1 DEF liveOf
    <3>3. sqSlotOf(t) \in sqActive /\ SQqueue[sqSlotOf(t)].robTag = t
      BY <3>1, StoreSlots
    <3>4. ~SQqueue[sqSlotOf(t)].isValueReady
      BY <2>1 DEF QInv, StationsLive
    <3>5. sqSlotOf(t) \notin DOMAIN storeValues(vals)
      BY <1>1, <2>1, <3>3, WriteFacts
    <3>6. ~SQqueue'[sqSlotOf(t)'].isValueReady
      BY <3>2, <3>3, <3>4, <3>5, StoreStep
    <3> QED BY <3>1, <3>2, <3>6 DEF liveOf
  <2>2. CASE t = next_tag /\ pkt.valid /\ curr.kind = "STORE"
    BY <1>4, <1>7, <2>2 DEF liveOf
  <2> QED BY <1>1, <1>12, <2>1, <2>2
<1>13. ASSUME NEW t \in brRS'
       PROVE  t \in liveOf("BRANCH")' /\ ~entry(t)'.isCommitReady
  <2>1. CASE t \in brRS \ brs /\ kept(t)
    <3>1. t \in liveOf("BRANCH") /\ t \in LiveTags /\ t \in LiveTags'
      BY <1>2, <1>4, <1>5, <2>1 DEF liveOf
    <3>2. ~entry(t).isCommitReady
      BY <2>1 DEF QInv, StationsLive
    <3>3. t \notin robDone(brs)
      BY <1>1, <2>1, <3>1, DoneFacts DEF liveOf
    <3> QED BY <1>6, <3>1, <3>2, <3>3, LiveStep DEF liveOf
  <2>2. CASE t = next_tag /\ pkt.valid /\ curr.kind = "BRANCH"
    BY <1>4, <1>7, <2>2 DEF liveOf
  <2> QED BY <1>1, <1>13, <2>1, <2>2
<1>14. ASSUME NEW t \in LiveTags', entry(t)'.isCommitReady
       PROVE  /\ instr(t)'.kind = "LOAD" => LQqueue'[lqSlotOf(t)'].isAddressReady
              /\ instr(t)'.kind = "STORE" =>
                   /\ SQqueue'[sqSlotOf(t)'].isAddressReady
                   /\ SQqueue'[sqSlotOf(t)'].isValueReady
  <2>1. CASE t \in LiveTags
    <3>1. entry(t).isCommitReady \/ t \in robDone(brs)
      BY <1>14, <2>1, LiveStep
    <3>2. /\ instr(t).kind = "LOAD" => LQqueue[lqSlotOf(t)].isAddressReady
          /\ instr(t).kind = "STORE" =>
               /\ SQqueue[sqSlotOf(t)].isAddressReady
               /\ SQqueue[sqSlotOf(t)].isValueReady
      BY <1>1, <2>1, <3>1, DoneFacts DEF QInv, ReadyComplete, isReadyToCommit
    <3>3. instr(t).kind = "LOAD" => LQqueue'[lqSlotOf(t)].isAddressReady
      BY <2>1, <3>2, LoadSlots, LoadStep DEF liveOf
    <3>4. instr(t).kind = "STORE" =>
               /\ SQqueue'[sqSlotOf(t)].isAddressReady
               /\ SQqueue'[sqSlotOf(t)].isValueReady
      <4> SUFFICES ASSUME instr(t).kind = "STORE"
                   PROVE  /\ SQqueue'[sqSlotOf(t)].isAddressReady
                          /\ SQqueue'[sqSlotOf(t)].isValueReady
        OBVIOUS
      <4>1. sqSlotOf(t) \in sqActive
        BY <2>1, StoreSlots DEF liveOf
      <4> QED BY <3>2, <4>1, StoreStep
    <3> QED BY <1>6, <2>1, <3>3, <3>4
  <2>2. CASE t = next_tag /\ pkt.valid
    BY <1>7, <1>14, <2>2
  <2> QED BY <1>14, <2>1, <2>2, LiveStep
<1>15. StationsLive'
  <2>1. /\ addrRS' \cup agu' \subseteq liveOf("LOAD")' \cup liveOf("STORE")'
        /\ addrRS' \cap agu' = {}
        /\ valRS' \subseteq liveOf("STORE")'
        /\ brRS' \subseteq liveOf("BRANCH")'
    BY <1>9, <1>10, <1>12, <1>13
  <2> QED BY <1>11, <1>12, <1>13, <2>1 DEF StationsLive
<1>16. ReadyComplete'
  BY <1>14 DEF ReadyComplete, isReadyToCommit
<1> QED BY <1>15, <1>16

(* A load that a resolving store finds violated is live and younger than   *)
(* that store: one that has left the ROB is never mistaken for younger.    *)
LEMMA ViolatedLive ==
    ASSUME QInv, NEW i \in violations
    PROVE  /\ i \in lqActive /\ LQqueue[i].robTag \in liveOf("LOAD")
           /\ LQqueue[i].robTag # head /\ live(LQqueue[i].robTag)
<1> DEFINE t == LQqueue[i].robTag
<1>1. PICK s \in DOMAIN storeAddress : isOlder(SQqueue[s].robTag, t) /\ live(t)
  BY DEF violations, isYounger
<1> DEFINE u == SQqueue[s].robTag
<1>2. i \in lqActive
  BY DEF violations
<1>3. u \in LiveTags
  <2>1. s \in sqActive /\ ~SQqueue[s].isCommitted
    BY WriteFacts
  <2> QED BY <2>1, StoreSlots DEF liveOf
<1>4. /\ head \in RobTags /\ next_tag \in RobTags /\ u \in RobTags /\ t \in RobTags
      /\ dist(head, next_tag) <= RobCap /\ RobCap \in Nat /\ RobCap >= 2
      /\ dist(head, u) < dist(head, next_tag)
  BY <1>2, <1>3, LiveFacts, LoadSlots, RobAssumption DEF QInv, QueueTypes
<1>5. /\ dist(t, next_tag) \in 1 .. RobCap
      /\ t \in LiveTags <=> dist(t, next_tag) <= dist(head, next_tag)
  <2>1. /\ lqHead \in 0 .. LqCap - 1 /\ lqTail \in 0 .. LqCap - 1
        /\ Spread(head, next_tag, lqHead, lqTail, LqCap, lqTags)
    BY QueueTerms DEF QInv, QueueTypes, LqSpread
  <2>2. i \in held(lqHead, lqTail, LqCap) /\ lqTags[i] = t
    BY <1>2, LoadSlots, QueueTerms DEF lqTags
  <2> HIDE DEF t
  <2>3. dist(lqTags[i], next_tag) \in 1 .. RobCap
    BY <1>4, <2>1, <2>2, QueueTerms, SpreadFacts
  <2>4. lqTags[i] \in Between(head, next_tag)
          <=> dist(lqTags[i], next_tag) <= dist(head, next_tag)
    BY <1>4, <2>1, <2>2, QueueTerms, SpreadAge
  <2> QED BY <2>2, <2>3, <2>4 DEF LiveTags
<1> HIDE DEF t, u
<1>6. /\ dist(t, u) \in RobCap + 1 .. 2 * RobCap - 1
      /\ dist(head, u) \in Nat /\ dist(head, next_tag) \in Nat
      /\ dist(u, next_tag) \in Nat
  <2>1. /\ dist(head, u) \in 0 .. 2 * RobCap - 1
        /\ dist(head, next_tag) \in 0 .. 2 * RobCap - 1
        /\ dist(u, next_tag) \in 0 .. 2 * RobCap - 1
    BY <1>4, DistFacts
  <2>2. isOlder(u, t)
    BY <1>1 DEF u
  <2> QED BY <1>4, <2>1, <2>2, OlderNear
<1>7. dist(u, next_tag) = dist(head, next_tag) - dist(head, u)
  <2>1. dist(head, u) + dist(u, next_tag)
          \in {dist(head, next_tag), dist(head, next_tag) + 2 * RobCap}
    BY <1>4, DistAdd
  <2>2. dist(u, next_tag) \in 0 .. 2 * RobCap - 1
    BY <1>4, DistFacts
  <2> QED BY <1>4, <1>6, <2>1, <2>2
<1>8. dist(t, u) + dist(u, next_tag)
        \in {dist(t, next_tag), dist(t, next_tag) + 2 * RobCap}
  BY <1>4, DistAdd
<1>9. t \in LiveTags
  BY <1>4, <1>5, <1>6, <1>7, <1>8
<1>10. t # head
  <2>1. dist(head, u) < dist(head, t)
    <3>1. dist(head, u) < RobCap /\ dist(head, t) < RobCap
      BY <1>3, <1>9, LiveFacts
    <3>2. isOlder(u, t)
      BY <1>1 DEF u
    <3> QED BY <1>4, <3>1, <3>2, DistOlder
  <2>2. dist(head, head) = 0
    BY <1>4, DistFacts
  <2> QED BY <1>6, <2>1, <2>2
<1>11. t \in liveOf("LOAD")
  BY <1>2, <1>9, LoadSlots DEF t
<1> QED BY <1>1, <1>2, <1>10, <1>11 DEF t

(* No pending squash stays pending: the oldest is accepted (FlushArbiter). *)
LEMMA NoRequestStays ==
    ASSUME QInv
    PROVE  \A r \in requests : ~live(r.SquashTag)
<1>1. CASE squashDetect.needSquash
  <2>1. \A r \in requests : ~isOlder(r.SquashTag, squashDetect.SquashTag)
    BY <1>1, SquashFacts
  <2> QED BY <1>1, <2>1 DEF live, survives
<1>2. CASE ~squashDetect.needSquash
  BY <1>2, SquashFacts
<1> QED BY <1>1, <1>2

(* The pending squashes after the cycle: a branch and a load may have      *)
(* raised new ones.                                                        *)
LEMMA RequestsStep ==
    ASSUME QInv, NEW pkt, NEW dispatch, NEW vals, NEW brs,
           StepOf(pkt, dispatch, vals, brs)
    PROVE  RequestsLive'
<1> DEFINE wrong == {u \in brs : live(u) /\ instr(u).pred # instr(u).next}
           ofBranch(t) == [SquashTag |-> t, SquashPC |-> instr(t).next]
           ofLoad(i) == [SquashTag |-> LQqueue[i].robTag,
                         SquashPC |-> entry(LQqueue[i].robTag).pc]
           oldest == lqOldest(violations)
<1>1. /\ brs \in AtMostOne(brRS)
      /\ requests' = {r \in requests : live(r.SquashTag)}
                       \cup {ofBranch(t) : t \in wrong} \cup {ofLoad(i) : i \in oldest}
      /\ program' = program
  BY DEF StepOf, Cycle, FlushTick
<1>2. {r \in requests : live(r.SquashTag)} = {}
  BY NoRequestStays
<1>3. program \in Programs /\ Len(program) \in Nat
  BY ProgramFacts DEF QInv, QueueTypes
<1>4. \A t \in LiveTags :
        /\ t \in RobTags /\ entry(t).pc \in 1 .. Len(program)
        /\ live(t) /\ (willCommit(squashDetect) => t # head) => t \in LiveTags'
  BY LiveFacts, KeptLive DEF LiveEntry
<1>5. ASSUME NEW t \in wrong
      PROVE  /\ t \in liveOf("BRANCH") /\ t \in RobTags /\ t \in LiveTags'
             /\ instr(t).next \in 1 .. Len(program)
  <2>1. t \in brRS /\ live(t)
    BY <1>1 DEF AtMostOne
  <2>2. t \in liveOf("BRANCH") /\ t \in LiveTags
    BY <2>1 DEF QInv, StationsLive, liveOf
  <2>3. willCommit(squashDetect) => t # head
    BY <2>1, CommitWaitsForAll
  <2>4. instr(t).next \in 1 .. Len(program)
    <3>1. instr(t).kind = "BRANCH"
      BY <2>2 DEF liveOf
    <3> QED BY <1>3, <1>4, <2>2, <3>1, ProgramFacts DEF instr
  <2> QED BY <1>4, <2>1, <2>2, <2>3, <2>4
<1>6. ASSUME NEW i \in oldest
      PROVE  /\ i \in lqActive
             /\ LQqueue[i].robTag \in liveOf("LOAD") /\ LQqueue[i].robTag \in RobTags
             /\ LQqueue[i].robTag \in LiveTags'
             /\ entry(LQqueue[i].robTag).pc \in 1 .. Len(program)
  <2>1. i \in violations
    BY DEF lqOldest
  <2>2. /\ LQqueue[i].robTag \in liveOf("LOAD") /\ LQqueue[i].robTag \in LiveTags
        /\ i \in lqActive /\ LQqueue[i].robTag # head /\ live(LQqueue[i].robTag)
    BY <2>1, ViolatedLive DEF liveOf
  <2> QED BY <1>4, <2>2
<1>7. \E a : wrong \subseteq {a}
  BY <1>1 DEF AtMostOne
<1>8. \E a : oldest \subseteq {a}
  <2>1. ASSUME NEW i \in oldest, NEW j \in oldest PROVE i = j
    <3>1. lqPos(i) <= lqPos(j) /\ lqPos(j) <= lqPos(i)
      BY DEF lqOldest
    <3>2. i \in 0 .. LqCap - 1 /\ j \in 0 .. LqCap - 1 /\ lqHead \in 0 .. LqCap - 1
      BY <1>6, QueueTerms DEF lqActive, QInv, QueueTypes
    <3>3. /\ pos(i, lqHead, LqCap) \in 0 .. LqCap - 1
          /\ pos(j, lqHead, LqCap) \in 0 .. LqCap - 1
          /\ pos(i, lqHead, LqCap) = pos(j, lqHead, LqCap) => i = j
      BY <3>2, PosFacts, QueueTerms
    <3> QED BY <3>1, <3>3, QueueTerms
  <2> QED BY <2>1
<1>9. \A t \in wrong, i \in oldest : t # LQqueue[i].robTag
  BY <1>5, <1>6 DEF liveOf
<1> HIDE DEF wrong, oldest
<1>10. ASSUME NEW r \in requests'
       PROVE  \/ \E t \in wrong : r = ofBranch(t)
              \/ \E i \in oldest : r = ofLoad(i)
  BY <1>1, <1>2, <1>10
<1>11. ASSUME NEW r \in requests'
       PROVE  /\ r \in [SquashTag : RobTags, SquashPC : Nat]
              /\ r.SquashTag \in LiveTags'
              /\ r.SquashPC \in 1 .. Len(program)
  <2>1. CASE \E t \in wrong : r = ofBranch(t)
    BY <1>3, <1>5, <2>1
  <2>2. CASE \E i \in oldest : r = ofLoad(i)
    BY <1>3, <1>6, <2>2
  <2> QED BY <1>10, <2>1, <2>2
<1>12. ASSUME NEW r \in requests', NEW s \in requests', r.SquashTag = s.SquashTag
       PROVE  r = s
  <2>1. PICK a : wrong \subseteq {a}
    BY <1>7
  <2>2. PICK b : oldest \subseteq {b}
    BY <1>8
  <2>3. CASE r = ofBranch(a) /\ a \in wrong
    <3>1. ~ \E i \in oldest : s = ofLoad(i)
      BY <1>9, <1>12, <2>3
    <3> QED BY <1>10, <2>1, <2>3, <3>1
  <2>4. CASE r = ofLoad(b) /\ b \in oldest
    <3>1. ~ \E t \in wrong : s = ofBranch(t)
      BY <1>9, <1>12, <2>4
    <3>2. \E i \in oldest : s = ofLoad(i)
      BY <1>10, <3>1
    <3> QED BY <2>2, <2>4, <3>2
  <2>5. \/ r = ofBranch(a) /\ a \in wrong
        \/ r = ofLoad(b) /\ b \in oldest
    <3> HIDE DEF ofBranch, ofLoad
    <3> QED BY <1>10, <2>1, <2>2
  <2> QED BY <2>3, <2>4, <2>5
<1>13. \E a, b : requests' \subseteq {a, b}
  <2>1. PICK a : wrong \subseteq {a}
    BY <1>7
  <2>2. PICK b : oldest \subseteq {b}
    BY <1>8
  <2> HIDE DEF ofBranch, ofLoad
  <2>3. requests' \subseteq {ofBranch(a), ofLoad(b)}
    BY <1>10, <2>1, <2>2
  <2> QED BY <2>3
<1> QED BY <1>1, <1>11, <1>12, <1>13 DEF RequestsLive

-----------------------------------------------------------------------------
(* One cycle: the memory.                                                  *)

(* The request of the cycle: the store at the head of its queue, or a load *)
(* of the load queue (MemArbiter::arbitrate).                              *)
LEMMA RequestFacts ==
    ASSUME QInv
    PROVE  /\ MemDispatch.op \in {"Store", "Load", "None"}
           /\ MemDispatch.op = "Store" =>
                /\ MemDispatch = [op |-> "Store", slot |-> sqHead]
                /\ headStoreGoes /\ sqHead \in sqActive
                /\ SQqueue[sqHead] \in StoreEntry
           /\ MemDispatch.op # "None" =>
                /\ pending = {}
                /\ GoodRequest(MemRequest(MemDispatch))
                /\ MemRequest(MemDispatch).op = MemDispatch.op
           /\ MemDispatch.op = "Store" =>
                /\ MemRequest(MemDispatch).block = SQqueue[sqHead].address
                /\ MemRequest(MemDispatch).val[0] = SQqueue[sqHead].value
<1> DEFINE d == MemDispatch
           e == IF d.op = "Store" THEN SQqueue[d.slot] ELSE LQqueue[d.slot]
<1>1. CASE headStoreGoes
  <2>1. d = [op |-> "Store", slot |-> sqHead]
    BY <1>1 DEF MemDispatch
  <2>2. sqHead \in sqActive
    <3>1. sqHead \in 0 .. SqCap - 1 /\ sqTail \in 0 .. SqCap - 1 /\ sqHead # sqTail
      BY <1>1, QueueTerms DEF QInv, QueueTypes, headStoreGoes, sqIsEmpty
    <3> QED BY <3>1, HeldPop, QueueTerms
  <2>3. SQqueue[sqHead] \in StoreEntry
    BY <2>2, StoreSlots
  <2>4. SQqueue[sqHead].address \in Addrs /\ SQqueue[sqHead].value \in Int
    <3>1. Len(program) \in Nat
      BY ProgramFacts DEF QInv, QueueTypes
    <3> QED BY <2>3, <3>1 DEF StoreEntry
  <2>5. MemRequest(d) =
          [op |-> "Store", block |-> SQqueue[sqHead].address, off |-> 0,
           n_bytes |-> 1, val |-> [i \in {0} |-> SQqueue[sqHead].value],
           id |-> [slot |-> sqHead, robTag |-> SQqueue[sqHead].robTag]]
    BY <2>1 DEF MemRequest
  <2> HIDE DEF d
  <2>6. GoodRequest(MemRequest(d))
    BY <2>4, <2>5 DEF GoodRequest
  <2>7. pending = {}
    BY <1>1 DEF headStoreGoes
  <2> QED BY <1>1, <2>1, <2>2, <2>3, <2>5, <2>6, <2>7 DEF d
<1>2. CASE ~headStoreGoes /\ loadGoes # {}
  <2> DEFINE j == CHOOSE i \in loadGoes : TRUE
  <2>1. j \in loadGoes
    BY <1>2
  <2>2. d = [op |-> "Load", slot |-> j]
    BY <1>2 DEF MemDispatch
  <2> HIDE DEF j
  <2>3. j \in lqActive /\ pending = {}
    BY <2>1 DEF loadGoes, LoadDetect, lqOldest
  <2>4. LQqueue[j].address \in Addrs /\ LQqueue[j].value \in Int
    BY <2>3, LoadSlots DEF LoadEntry
  <2>5. MemRequest(d) =
          [op |-> "Load", block |-> LQqueue[j].address, off |-> 0,
           n_bytes |-> 1, val |-> [i \in {0} |-> LQqueue[j].value],
           id |-> [slot |-> j, robTag |-> LQqueue[j].robTag]]
    BY <2>2 DEF MemRequest
  <2> HIDE DEF d
  <2>6. GoodRequest(MemRequest(d))
    BY <2>4, <2>5 DEF GoodRequest
  <2> QED BY <1>2, <2>2, <2>3, <2>5, <2>6 DEF d
<1>3. CASE ~headStoreGoes /\ loadGoes = {}
  BY <1>3 DEF MemDispatch, noneSent
<1> QED BY <1>1, <1>2, <1>3

(* A store replaces the datum of its line, a load reads it.                *)
LEMMA LineFacts ==
    ASSUME NEW r, GoodRequest(r), NEW line \in [{0} -> Int]
    PROVE  /\ Memory!merge(line, r) \in [{0} -> Int]
           /\ Memory!merge(line, r)[0] = r.val[0]
           /\ Memory!LoadResponse(r, line).value[0] \in Int
<1>1. Memory!Offsets = {0}
  BY DEF Memory!Offsets
<1>2. r.block < Cardinality(Addrs)
  BY LsqAssumption DEF GoodRequest
<1>3. Memory!merge(line, r) = [o \in {0} |-> r.val[0]]
  BY <1>1, <1>2 DEF Memory!merge, GoodRequest
<1>4. Memory!LoadResponse(r, line).value = [i \in {0} |-> line[0]]
  BY DEF Memory!LoadResponse, Memory!extract, GoodRequest
<1>5. r.val[0] \in Int
  BY DEF GoodRequest
<1> QED BY <1>3, <1>4, <1>5

(* What the cache does in a cycle: nothing, take a request, or serve one.  *)
LEMMA CacheStep ==
    ASSUME QInv, NEW pkt, NEW dispatch, NEW vals, NEW brs,
           StepOf(pkt, dispatch, vals, brs)
    PROVE  \/ /\ MemDispatch.op = "None"
              /\ memory' = memory /\ pending' = pending
              /\ ~answer'.valid
           \/ \E r : /\ r = MemRequest(MemDispatch) /\ MemDispatch.op # "None"
                     /\ pending = {} /\ pending' = {r} /\ memory' = memory
                     /\ ~answer'.valid
           \/ \E r : /\ \/ r = MemRequest(MemDispatch) /\ MemDispatch.op # "None"
                           /\ pending = {}
                        \/ pending = {r} /\ MemDispatch.op = "None"
                     /\ pending' = {}
                     /\ memory' = IF r.op = "Store"
                          THEN [memory EXCEPT ![r.block] = Memory!merge(memory[r.block], r)]
                          ELSE memory
                     /\ answer'.valid =>
                          answer'.value[0] = Memory!LoadResponse(r, memory[r.block]).value[0]
<1>1. MemTick
  BY DEF StepOf, Cycle
<1>2. ASSUME NEW r, GoodRequest(r), Memory!Serve(r)
      PROVE  /\ pending' = {}
             /\ memory' = IF r.op = "Store"
                  THEN [memory EXCEPT ![r.block] = Memory!merge(memory[r.block], r)]
                  ELSE memory
             /\ answer'.valid =>
                  answer'.value[0] = Memory!LoadResponse(r, memory[r.block]).value[0]
  <2>1. r.op \in {"Load", "Store"}
    BY <1>2 DEF GoodRequest
  <2> QED BY <1>2, <2>1 DEF Memory!Serve, Memory!NoResponse
<1>3. CASE MemDispatch.op # "None"
  <2> DEFINE r == MemRequest(MemDispatch)
  <2>1. GoodRequest(r) /\ pending = {}
    BY <1>3, RequestFacts
  <2>2. CASE Memory!Serve(r)
    BY <1>2, <1>3, <2>1, <2>2
  <2>3. CASE Memory!Accept(r)
    BY <1>3, <2>3 DEF Memory!Accept, Memory!NoResponse
  <2> QED BY <1>1, <1>3, <2>2, <2>3 DEF MemTick
<1>4. CASE MemDispatch.op = "None"
  <2>1. CASE Memory!Quiet
    BY <1>4, <2>1 DEF Memory!Quiet, Memory!NoResponse
  <2>2. CASE \E r \in pending : Memory!Serve(r)
    <3>1. PICK r \in pending : Memory!Serve(r)
      BY <2>2
    <3>2. GoodRequest(r)
      BY DEF QInv, MemoryTypes
    <3>3. pending = {r}
      BY <3>1 DEF Memory!Serve
    <3> QED BY <1>2, <1>4, <3>1, <3>2, <3>3
  <2> QED BY <1>1, <1>4, <2>1, <2>2 DEF MemTick
<1> QED BY <1>3, <1>4

(* The instruction that commits as a store.                                *)
LEMMA CommittingStore ==
    ASSUME QInv, storeWillCommit(squashDetect)
    PROVE  /\ willCommit(squashDetect)
           /\ head \in liveOf("STORE")
           /\ instr(head).addr \in Addrs /\ entry(head).pc \in Int
<1>1. /\ willCommit(squashDetect) /\ head \in LiveTags
      /\ entry(head).type = "STORE"
  BY CommitWaitsForAll DEF storeWillCommit, headEntry, entry
<1>2. instr(head).kind = "STORE"
  BY <1>1 DEF QInv, RobHolds
<1>3. /\ entry(head).pc \in 1 .. Len(program) /\ program \in Programs
      /\ Len(program) \in Nat
  BY <1>1, LiveFacts, ProgramFacts DEF LiveEntry, QInv, QueueTypes
<1>4. instr(head).addr \in Addrs
  BY <1>2, <1>3, ProgramFacts DEF instr
<1> QED BY <1>1, <1>2, <1>3, <1>4 DEF liveOf

(* The types of the memory side.                                           *)
LEMMA MemoryTypesStep ==
    ASSUME QInv, NEW pkt, NEW dispatch, NEW vals, NEW brs,
           StepOf(pkt, dispatch, vals, brs)
    PROVE  MemoryTypes'
<1>1. /\ memory \in [Addrs -> [{0} -> Int]] /\ refMem \in [Addrs -> Int]
      /\ \E r : pending \subseteq {r}
      /\ \A r \in pending : GoodRequest(r)
  BY DEF QInv, MemoryTypes
<1>2. refMem' \in [Addrs -> Int]
  <2>1. refMem' = IF storeWillCommit(squashDetect)
                    THEN [refMem EXCEPT ![instr(head).addr] = entry(head).pc]
                    ELSE refMem
    BY DEF StepOf, Cycle, HistoryTick
  <2>2. storeWillCommit(squashDetect) =>
          instr(head).addr \in Addrs /\ entry(head).pc \in Int
    BY CommittingStore
  <2> QED BY <1>1, <2>1, <2>2
<1>3. MemDispatch.op # "None" =>
        pending = {} /\ GoodRequest(MemRequest(MemDispatch))
  BY RequestFacts
<1>4. /\ memory' \in [Addrs -> [{0} -> Int]]
      /\ \E r : pending' \subseteq {r}
      /\ \A r \in pending' : GoodRequest(r)
      /\ answer'.valid => answer'.value[0] \in Int
  <2>1. CASE /\ memory' = memory /\ pending' = pending /\ ~answer'.valid
    BY <1>1, <2>1
  <2>2. CASE \E r : /\ r = MemRequest(MemDispatch) /\ MemDispatch.op # "None"
                    /\ pending' = {r} /\ memory' = memory /\ ~answer'.valid
    BY <1>1, <1>3, <2>2
  <2>3. CASE \E r : /\ \/ r = MemRequest(MemDispatch) /\ MemDispatch.op # "None"
                       \/ pending = {r}
                    /\ pending' = {}
                    /\ memory' = IF r.op = "Store"
                         THEN [memory EXCEPT ![r.block] = Memory!merge(memory[r.block], r)]
                         ELSE memory
                    /\ answer'.valid =>
                         answer'.value[0] = Memory!LoadResponse(r, memory[r.block]).value[0]
    <3>1. PICK r : /\ \/ r = MemRequest(MemDispatch) /\ MemDispatch.op # "None"
                      \/ pending = {r}
                   /\ pending' = {}
                   /\ memory' = IF r.op = "Store"
                        THEN [memory EXCEPT ![r.block] = Memory!merge(memory[r.block], r)]
                        ELSE memory
                   /\ answer'.valid =>
                        answer'.value[0] = Memory!LoadResponse(r, memory[r.block]).value[0]
      BY <2>3
    <3>2. GoodRequest(r)
      BY <1>1, <1>3, <3>1
    <3>3. r.block \in Addrs /\ memory[r.block] \in [{0} -> Int]
      BY <1>1, <3>2 DEF GoodRequest
    <3>4. /\ Memory!merge(memory[r.block], r) \in [{0} -> Int]
          /\ Memory!LoadResponse(r, memory[r.block]).value[0] \in Int
      BY <3>2, <3>3, LineFacts
    <3> QED BY <1>1, <3>1, <3>3, <3>4
  <2> QED BY <2>1, <2>2, <2>3, CacheStep
<1> QED BY <1>2, <1>4, Zenon DEF MemoryTypes, GoodRequest

(* Types of the queues.                                                    *)
LEMMA TypesStep ==
    ASSUME QInv, NEW pkt, NEW dispatch, NEW vals, NEW brs,
           StepOf(pkt, dispatch, vals, brs)
    PROVE  QueueTypes'
<1>1. /\ pkt = NoPacket \/ (canIssue /\ pkt = IssuePacket)
      /\ ROBtick(pkt, robDone(brs), squashDetect)
      /\ program' = program
      /\ pc' = IF squashDetect.needSquash THEN squashDetect.SquashPC
               ELSE IF pkt.valid THEN following(curr) ELSE pc
  BY DEF StepOf, Cycle, StationTick
<1>2. head' \in RobTags /\ next_tag' \in RobTags
  BY <1>1, WindowStep
<1>3. /\ program \in Programs /\ Len(program) \in Nat
      /\ pc \in 1 .. Len(program) + 1
      /\ StoreEntry' = StoreEntry /\ LoadEntry' = LoadEntry
  BY <1>1, ProgramFacts DEF QInv, QueueTypes, StoreEntry, LoadEntry
<1>4. pc' \in 1 .. Len(program) + 1
  <2>1. squashDetect.needSquash => squashDetect.SquashPC \in 1 .. Len(program)
    BY SquashFacts
  <2>2. pkt.valid => pc \in 1 .. Len(program)
    BY <1>1, PacketFacts
  <2>3. pkt.valid /\ curr.kind = "BRANCH" => curr.pred \in 1 .. Len(program)
    BY <1>3, <2>2, ProgramFacts DEF curr
  <2>4. pkt.valid => following(curr) \in 1 .. Len(program) + 1
    BY <1>3, <2>2, <2>3 DEF following
  <2> QED BY <1>1, <1>3, <2>1, <2>4
<1>5. SQqueue' \in [SqSlots -> StoreEntry] /\ LQqueue' \in [LqSlots -> LoadEntry]
  BY StoreStep, LoadStep
<1>6. /\ sqHead' \in SqSlots /\ sqTail' \in SqSlots
      /\ lqHead' \in LqSlots /\ lqTail' \in LqSlots
  BY SqStep, LqStep
<1> QED BY <1>1, <1>2, <1>3, <1>4, <1>5, <1>6 DEF QueueTypes

-----------------------------------------------------------------------------
(* The queues agree with the ROB.                                          *)

(* The empty machine.                                                      *)
LEMMA QueuesInit == Init => QInv
<1> SUFFICES ASSUME Init PROVE QInv
  OBVIOUS
<1> USE DEF Init, ROBInit, SQInit, LQInit
<1>1. 0 \in RobTags /\ dist(0, 0) = 0
  <2>1. 0 \in RobTags
    BY RobAssumption DEF RobTags, Codes, SlotOf
  <2> QED BY <2>1, DistFacts
<1>2. program \in Programs /\ Len(program) \in Nat /\ Len(program) >= 1 /\ 0 \in Addrs
  BY ProgramFacts
<1>3. head = 0 /\ next_tag = 0
  OBVIOUS
<1>4. LiveTags = {}
  <2>1. ASSUME NEW t \in LiveTags PROVE FALSE
    <3>1. t \in RobTags /\ dist(0, t) < dist(0, 0)
      BY <1>3 DEF LiveTags, Between
    <3>2. dist(0, t) \in 0 .. 2 * RobCap - 1
      BY <1>1, <3>1, DistFacts
    <3> QED BY <1>1, <3>1, <3>2
  <2> QED BY <2>1
<1>5. /\ Between(head, next_tag) = {} /\ \A kind : liveOf(kind) = {}
  BY <1>4 DEF LiveTags, liveOf
<1>6. sqActive = {} /\ lqActive = {}
  <2>1. \A i \in SqSlots : ~(sqPos(i) < sqPos(0))
    <3>1. 0 \in 0 .. SqCap - 1
      BY QueueTerms
    <3>2. pos(0, 0, SqCap) = 0 /\ \A i \in 0 .. SqCap - 1 : pos(i, 0, SqCap) \in 0 .. SqCap - 1
      BY <3>1, QueueTerms, PosFacts
    <3> QED BY <3>2, QueueTerms
  <2>2. \A i \in LqSlots : ~(lqPos(i) < lqPos(0))
    <3>1. 0 \in 0 .. LqCap - 1
      BY QueueTerms
    <3>2. pos(0, 0, LqCap) = 0 /\ \A i \in 0 .. LqCap - 1 : pos(i, 0, LqCap) \in 0 .. LqCap - 1
      BY <3>1, QueueTerms, PosFacts
    <3> QED BY <3>2, QueueTerms
  <2> QED BY <2>1, <2>2 DEF sqActive, lqActive
<1>7. SqFollows
  BY <1>5, <1>6, QueueTerms DEF SqFollows, Follows
<1>8. LqFollows /\ LqSpread
  BY <1>5, <1>6, QueueTerms DEF LqFollows, Follows, LqSpread, Spread
<1>9. QueueTypes
  <2>1. 0 \in SqSlots /\ 0 \in LqSlots /\ pc \in 1 .. Len(program) + 1
    BY <1>2, QueueTerms
  <2>2. NoStore \in StoreEntry
    BY <1>2 DEF NoStore, StoreEntry
  <2>3. NoLoad \in LoadEntry
    BY <1>2 DEF NoLoad, LoadEntry, ValueState
  <2> QED BY <1>1, <1>2, <2>1, <2>2, <2>3 DEF QueueTypes
<1>10. RobHolds
  BY <1>1, <1>3, <1>4, RobAssumption DEF RobHolds
<1>11. StationsLive /\ ReadyComplete /\ RequestsLive
  BY <1>4, <1>5 DEF StationsLive, ReadyComplete, RequestsLive
<1>12. MemoryTypes
  <2>1. \A a \in Addrs : -1 - a \in Int
    BY LsqAssumption
  <2>2. refMem \in [Addrs -> Int]
    BY <2>1
  <2>3. memory \in [Addrs -> [{0} -> Int]]
    BY <2>2
  <2> QED BY <2>2, <2>3 DEF MemoryTypes, Memory!NoResponse
<1> QED BY <1>7, <1>8, <1>9, <1>10, <1>11, <1>12 DEF QInv

(* A cycle keeps the invariant.                                            *)
LEMMA QueuesStep == QInv /\ [Next]_vars => QInv'
<1> SUFFICES ASSUME QInv, [Next]_vars PROVE QInv'
  OBVIOUS
<1>1. ASSUME NEW dispatch \in AtMostOne({t \in addrRS : live(t)}),
             NEW vals \in SUBSET valRS, NEW brs \in AtMostOne(brRS),
             Step(dispatch, vals, brs)
      PROVE  QInv'
  <2>1. PICK pkt : StepOf(pkt, dispatch, vals, brs)
    BY <1>1 DEF Step, StepOf, IssuePacket
  <2>2. RobHolds'
    BY <2>1, LiveStep
  <2>3. SqFollows' /\ LqFollows' /\ LqSpread'
    BY <2>1, SqStep, LqStep
  <2>4. StationsLive' /\ ReadyComplete' /\ RequestsLive'
    BY <2>1, StationsStep, RequestsStep
  <2>5. QueueTypes' /\ MemoryTypes'
    BY <2>1, TypesStep, MemoryTypesStep
  <2> QED BY <2>2, <2>3, <2>4, <2>5 DEF QInv
<1>2. CASE UNCHANGED vars
  <2> USE <1>2 DEF vars, robVars, sqVars, lqVars, restVars
  <2>1. QueueTypes' /\ RobHolds'
    BY DEF QInv, QueueTypes, RobHolds, StoreEntry, LoadEntry, LiveTags, Between,
           LiveEntry, entry, instr
  <2>2. LiveTags' = LiveTags /\ \A kind : liveOf(kind)' = liveOf(kind)
    BY DEF LiveTags, liveOf, Between, instr, entry
  <2>3. SqFollows' /\ LqFollows' /\ LqSpread'
    BY <2>2 DEF QInv, SqFollows, LqFollows, LqSpread, sqTags, lqTags, sqGone, lqGone,
                sqSnap, lqSnap, entry
  <2>4. StationsLive' /\ ReadyComplete' /\ RequestsLive' /\ MemoryTypes'
    BY <2>2 DEF QInv, StationsLive, ReadyComplete, RequestsLive, MemoryTypes,
                isReadyToCommit, entry, instr, sqSlotOf, lqSlotOf
  <2> QED BY <2>1, <2>3, <2>4 DEF QInv
<1>3. CASE Done
  BY <1>2, <1>3 DEF Done
<1> QED BY <1>1, <1>2, <1>3 DEF Next

(* The invariant that QueuesMatchRob and TypeOK follow from.               *)
THEOREM QueueInvariant == Spec => []QInv
<1>1. Init => QInv
  BY QueuesInit
<1>2. QInv /\ [Next]_vars => QInv'
  BY QueuesStep
<1> QED BY <1>1, <1>2, PTL DEF Spec

(* TypeOK of the run: the fields of the queues, the stations and the cache *)
(* request have their types, for every size and every program.             *)
THEOREM LsqTyped == Spec => []TypeOK
<1>1. QInv => TypeOK
  <2> SUFFICES ASSUME QInv PROVE TypeOK
    OBVIOUS
  <2>1. QueueTypes /\ Len(program) \in Nat
    BY ProgramFacts DEF QInv, QueueTypes
  <2>2. \A i \in SqSlots : SQqueue[i] \in StoreEntry
    BY <2>1 DEF QueueTypes
  <2>3. \A i \in LqSlots : LQqueue[i] \in LoadEntry
    BY <2>1 DEF QueueTypes
  <2>4. addrRS \cup valRS \cup brRS \cup agu \subseteq RobTags
    <3>1. addrRS \cup valRS \cup brRS \cup agu \subseteq LiveTags
      BY DEF QInv, StationsLive, liveOf
    <3> QED BY <3>1 DEF LiveTags, Between
  <2>5. Cardinality(pending) <= 1
    <3>1. PICK r : pending \subseteq {r}
      BY DEF QInv, MemoryTypes
    <3>2. pending = {} \/ pending = {r}
      BY <3>1
    <3>3. Cardinality({}) = 0 /\ Cardinality({r}) = 1
      BY FS_EmptySet, FS_Singleton
    <3> QED BY <3>2, <3>3
  <2> QED BY <2>1, <2>2, <2>3, <2>4, <2>5
          DEF TypeOK, QueueTypes, StoreEntry, LoadEntry
<1> QED BY <1>1, QueueInvariant, PTL

(* The distance test of liveTags is the window.                            *)
LEMMA LiveTagsFacts ==
    ASSUME NEW kind
    PROVE  liveTags(kind) = liveOf(kind)
BY DEF liveTags, liveOf, LiveTags, Between, dist

(* Of two slots of live instructions the one nearer to the head of the     *)
(* queue holds the older one.                                              *)
LEMMA FollowsOrder ==
    ASSUME NEW h \in RobTags, NEW n \in RobTags, dist(h, n) <= RobCap,
           NEW cap \in Nat, cap >= 2,
           NEW q \in 0 .. cap - 1, NEW e \in 0 .. cap - 1,
           NEW tag, NEW gone, NEW mine, NEW snap,
           Follows(h, n, q, e, cap, tag, gone, mine, snap),
           NEW i \in held(q, e, cap), i \notin gone
    PROVE  /\ \A j \in held(q, e, cap) : j \notin gone /\ pos(i, q, cap) < pos(j, q, cap)
                => isOlder(tag[i], tag[j])
           /\ \A j \in held(q, e, cap) :
                j \in gone => pos(j, q, cap) < pos(i, q, cap)
<1> DEFINE t == tag[i]
           w == snap[t]
<1>1. /\ t \in mine /\ prior(w, cap) = i /\ mine \subseteq Between(h, n)
      /\ w \in 0 .. cap - 1
      /\ \A j \in held(q, e, cap) :
           pos(j, q, cap) < pos(w, q, cap) <=> (j \in gone \/ dist(h, tag[j]) <= dist(h, t))
      /\ \A j \in held(q, e, cap) : j \notin gone => tag[j] \in mine
  BY DEF Follows
<1>2. \A j \in held(q, e, cap) : j \in 0 .. cap - 1 /\ pos(j, q, cap) \in Nat
  <2> SUFFICES ASSUME NEW j \in held(q, e, cap)
               PROVE  j \in 0 .. cap - 1 /\ pos(j, q, cap) \in Nat
    OBVIOUS
  <2>1. j \in 0 .. cap - 1
    BY DEF held
  <2>2. pos(j, q, cap) \in 0 .. cap - 1
    BY <2>1, PosFacts
  <2> QED BY <2>1, <2>2
<1>3. \A u \in mine : u \in RobTags /\ dist(h, u) \in Nat /\ dist(h, u) < RobCap
  <2> SUFFICES ASSUME NEW u \in mine
               PROVE  u \in RobTags /\ dist(h, u) \in Nat /\ dist(h, u) < RobCap
    OBVIOUS
  <2>1. u \in RobTags /\ dist(h, u) < dist(h, n)
    BY <1>1 DEF Between
  <2>2. dist(h, u) \in 0 .. 2 * RobCap - 1 /\ dist(h, n) \in 0 .. 2 * RobCap - 1
    BY <2>1, DistFacts
  <2> QED BY <2>1, <2>2, RobAssumption
<1> HIDE DEF w
(* The tail that the instruction of slot i recorded is the slot after it.  *)
<1>4. w # q /\ pos(w, q, cap) \in Nat /\ pos(i, q, cap) = pos(w, q, cap) - 1
  <2>1. pos(w, q, cap) \in 0 .. cap - 1
    BY <1>1, PosFacts
  <2>2. dist(h, t) <= dist(h, t)
    BY <1>1, <1>3
  <2>3. pos(i, q, cap) < pos(w, q, cap)
    BY <1>1, <2>2
  <2>4. w # q
    <3>1. pos(q, q, cap) = 0
      BY PosFacts
    <3> QED BY <1>2, <2>3, <3>1
  <2>5. pos(prior(w, cap), q, cap) = pos(w, q, cap) - 1
    BY <1>1, <2>4, StepFacts
  <2> QED BY <1>1, <2>1, <2>4, <2>5
<1>5. ASSUME NEW j \in held(q, e, cap), j \notin gone, pos(i, q, cap) < pos(j, q, cap)
      PROVE  isOlder(t, tag[j])
  <2>1. ~(pos(j, q, cap) < pos(w, q, cap))
    BY <1>2, <1>4, <1>5
  <2>2. ~(dist(h, tag[j]) <= dist(h, t))
    BY <1>1, <2>1
  <2>3. tag[j] \in mine
    BY <1>1, <1>5
  <2>4. dist(h, t) < dist(h, tag[j])
    BY <1>1, <1>3, <2>2, <2>3
  <2> QED BY <1>1, <1>3, <2>3, <2>4, DistOlder
<1>6. ASSUME NEW j \in held(q, e, cap), j \in gone
      PROVE  pos(j, q, cap) < pos(i, q, cap)
  <2>1. pos(j, q, cap) < pos(w, q, cap)
    BY <1>1, <1>6
  <2>2. pos(j, q, cap) # pos(i, q, cap)
    <3>1. pos(i, q, cap) = pos(j, q, cap) => i = j
      BY <1>2, PosFacts
    <3> QED BY <1>6, <3>1
  <2> QED BY <1>2, <1>4, <2>1, <2>2
<1> QED BY <1>5, <1>6

(* After every cycle the store queue holds its committed stores, then      *)
(* exactly the stores of the ROB, the load queue loads that have left the  *)
(* ROB, then exactly the loads of the ROB, each once and in program order, *)
(* and ROB::isOlder tells the two kinds of loads apart (the tail snapshots *)
(* of a squash, the retirement in LQ::tick).                               *)
THEOREM QueuesFollowRob == Spec => []QueuesMatchRob
<1>1. QInv => QueuesMatchRob
  <2> SUFFICES ASSUME QInv PROVE QueuesMatchRob
    OBVIOUS
  <2> DEFINE open == {i \in sqActive : ~SQqueue[i].isCommitted}
             unretired == {i \in lqActive : ~isOlder(LQqueue[i].robTag, head)}
  <2>1. /\ head \in RobTags /\ next_tag \in RobTags
        /\ dist(head, next_tag) <= RobCap
        /\ sqHead \in 0 .. SqCap - 1 /\ sqTail \in 0 .. SqCap - 1
        /\ lqHead \in 0 .. LqCap - 1 /\ lqTail \in 0 .. LqCap - 1
        /\ Follows(head, next_tag, sqHead, sqTail, SqCap, sqTags, sqGone,
                   liveOf("STORE"), sqSnap)
        /\ Follows(head, next_tag, lqHead, lqTail, LqCap, lqTags, lqGone,
                   liveOf("LOAD"), lqSnap)
    BY QueueTerms DEF QInv, QueueTypes, RobHolds, SqFollows, LqFollows
  <2>2. \A i \in sqActive : /\ i \in SqSlots /\ i \in held(sqHead, sqTail, SqCap)
                            /\ sqTags[i] = SQqueue[i].robTag
                            /\ i \in sqGone <=> SQqueue[i].isCommitted
    BY StoreSlots, QueueTerms DEF sqTags, sqGone
  <2>3. \A i \in lqActive : /\ i \in LqSlots /\ i \in held(lqHead, lqTail, LqCap)
                            /\ lqTags[i] = LQqueue[i].robTag
                            /\ i \in lqGone <=> isOlder(LQqueue[i].robTag, head)
    BY LoadSlots, QueueTerms DEF lqTags, lqGone
  <2>4. {SQqueue[i].robTag : i \in open} = liveOf("STORE")
    <3>1. \A i \in open : SQqueue[i].robTag \in liveOf("STORE")
      BY StoreSlots
    <3>2. \A t \in liveOf("STORE") : \E i \in open : SQqueue[i].robTag = t
      BY StoreSlots
    <3> QED BY <3>1, <3>2
  <2>5. {LQqueue[i].robTag : i \in unretired} = liveOf("LOAD")
    <3>1. \A i \in unretired : LQqueue[i].robTag \in liveOf("LOAD")
      BY LoadSlots
    <3>2. \A t \in liveOf("LOAD") : \E i \in unretired : LQqueue[i].robTag = t
      BY LoadSlots DEF liveOf
    <3> QED BY <3>1, <3>2
  <2>6. ASSUME NEW i \in open
        PROVE  /\ \A j \in open : sqPos(i) < sqPos(j)
                     => isOlder(SQqueue[i].robTag, SQqueue[j].robTag)
               /\ sqBehind(i) \subseteq open
    <3>1. i \in sqActive /\ i \notin sqGone /\ i \in held(sqHead, sqTail, SqCap)
      BY <2>2
    <3>2. /\ \A j \in held(sqHead, sqTail, SqCap) :
                j \notin sqGone /\ pos(i, sqHead, SqCap) < pos(j, sqHead, SqCap)
                  => isOlder(sqTags[i], sqTags[j])
          /\ \A j \in held(sqHead, sqTail, SqCap) :
                j \in sqGone => pos(j, sqHead, SqCap) < pos(i, sqHead, SqCap)
      BY <2>1, <3>1, QueueTerms, FollowsOrder
    <3>3. \A j \in sqActive : sqPos(j) \in Nat
      <4> SUFFICES ASSUME NEW j \in sqActive PROVE sqPos(j) \in Nat
        OBVIOUS
      <4>1. pos(j, sqHead, SqCap) \in 0 .. SqCap - 1
        BY <2>1, <2>2, QueueTerms, PosFacts
      <4> QED BY <4>1, QueueTerms
    <3>4. \A j \in open : sqPos(i) < sqPos(j)
             => isOlder(SQqueue[i].robTag, SQqueue[j].robTag)
      BY <2>2, <3>1, <3>2, QueueTerms
    <3>5. \A j \in sqActive : sqPos(j) > sqPos(i) => j \in open
      BY <2>2, <3>1, <3>2, <3>3, QueueTerms
    <3> QED BY <3>4, <3>5 DEF sqBehind
  <2>7. ASSUME NEW i \in unretired
        PROVE  /\ \A j \in unretired : lqPos(i) < lqPos(j)
                     => isOlder(LQqueue[i].robTag, LQqueue[j].robTag)
               /\ \A j \in lqActive \ unretired : lqPos(j) < lqPos(i)
    <3>1. i \in lqActive /\ i \notin lqGone /\ i \in held(lqHead, lqTail, LqCap)
      BY <2>3
    <3>2. /\ \A j \in held(lqHead, lqTail, LqCap) :
                j \notin lqGone /\ pos(i, lqHead, LqCap) < pos(j, lqHead, LqCap)
                  => isOlder(lqTags[i], lqTags[j])
          /\ \A j \in held(lqHead, lqTail, LqCap) :
                j \in lqGone => pos(j, lqHead, LqCap) < pos(i, lqHead, LqCap)
      BY <2>1, <3>1, QueueTerms, FollowsOrder
    <3> QED BY <2>3, <3>1, <3>2, QueueTerms
  <2> HIDE DEF open, unretired
  <2>8. \A kind : liveTags(kind) = liveOf(kind)
    BY LiveTagsFacts
  <2> QED BY <2>4, <2>5, <2>6, <2>7, <2>8 DEF QueuesMatchRob, open, unretired
<1> QED BY <1>1, QueueInvariant, PTL

-----------------------------------------------------------------------------
(* Memory is written in program order.                                     *)

(* The committed stores to an address, and what lies behind the queue: the *)
(* store the cache is busy with, or the memory.                            *)
drainedTo(a) ==
    {i \in sqActive : SQqueue[i].isCommitted /\ SQqueue[i].address = a}

parkedFor(a) == {r \in pending : r.op = "Store" /\ r.block = a}

behind(a) ==
    IF parkedFor(a) # {} THEN (CHOOSE r \in parkedFor(a) : TRUE).val[0]
    ELSE memory[a][0]

(* Committed, or committing in this cycle; sent to the cache in it.        *)
leaving(i) ==
    SQqueue[i].isCommitted
      \/ (storeWillCommit(squashDetect) /\ SQqueue[i].robTag = head)

sentNow(i) == MemDispatch.op = "Store" /\ i = sqHead

(* The store that is sent, and nothing else, passes behind the queue.      *)
LEMMA BehindStep ==
    ASSUME QInv, NEW pkt, NEW dispatch, NEW vals, NEW brs,
           StepOf(pkt, dispatch, vals, brs), NEW a \in Addrs
    PROVE  behind(a)' =
             IF MemDispatch.op = "Store" /\ SQqueue[sqHead].address = a
               THEN SQqueue[sqHead].value ELSE behind(a)
<1> DEFINE q == MemRequest(MemDispatch)
           put == MemDispatch.op = "Store" /\ SQqueue[sqHead].address = a
<1>1. /\ MemDispatch.op # "None" =>
           pending = {} /\ GoodRequest(q) /\ q.op = MemDispatch.op
      /\ MemDispatch.op = "Store" =>
           q.block = SQqueue[sqHead].address /\ q.val[0] = SQqueue[sqHead].value
      /\ \A r \in pending : GoodRequest(r)
      /\ memory \in [Addrs -> [{0} -> Int]]
  BY RequestFacts DEF QInv, MemoryTypes
<1>2. pending = {} => behind(a) = memory[a][0]
  BY DEF behind, parkedFor
<1>3. \A r : pending = {r} =>
         behind(a) = IF r.op = "Store" /\ r.block = a THEN r.val[0]
                     ELSE memory[a][0]
  <2> SUFFICES ASSUME NEW r, pending = {r}
               PROVE  behind(a) = IF r.op = "Store" /\ r.block = a THEN r.val[0]
                                  ELSE memory[a][0]
    OBVIOUS
  <2>1. CASE r.op = "Store" /\ r.block = a
    <3>1. parkedFor(a) = {r}
      BY <2>1 DEF parkedFor
    <3> QED BY <2>1, <3>1 DEF behind
  <2>2. CASE ~(r.op = "Store" /\ r.block = a)
    BY <2>2 DEF behind, parkedFor
  <2> QED BY <2>1, <2>2
<1>4. pending' = {} => behind(a)' = memory'[a][0]
  BY DEF behind, parkedFor
<1>5. \A r : pending' = {r} =>
         behind(a)' = IF r.op = "Store" /\ r.block = a THEN r.val[0]
                      ELSE memory'[a][0]
  <2> SUFFICES ASSUME NEW r, pending' = {r}
               PROVE  behind(a)' = IF r.op = "Store" /\ r.block = a THEN r.val[0]
                                   ELSE memory'[a][0]
    OBVIOUS
  <2>1. CASE r.op = "Store" /\ r.block = a
    <3>1. parkedFor(a)' = {r}
      BY <2>1 DEF parkedFor
    <3> QED BY <2>1, <3>1 DEF behind
  <2>2. CASE ~(r.op = "Store" /\ r.block = a)
    BY <2>2 DEF behind, parkedFor
  <2> QED BY <2>1, <2>2
<1> HIDE DEF q
<1>6. CASE /\ MemDispatch.op = "None"
           /\ memory' = memory /\ pending' = pending
  BY <1>6 DEF behind, parkedFor
<1>7. CASE /\ MemDispatch.op # "None"
           /\ pending = {} /\ pending' = {q} /\ memory' = memory
  BY <1>1, <1>2, <1>5, <1>7
<1>8. CASE \E r : /\ \/ r = q /\ MemDispatch.op # "None" /\ pending = {}
                     \/ pending = {r} /\ MemDispatch.op = "None"
                  /\ pending' = {}
                  /\ memory' = IF r.op = "Store"
                       THEN [memory EXCEPT ![r.block] = Memory!merge(memory[r.block], r)]
                       ELSE memory
  <2>1. PICK r : /\ \/ r = q /\ MemDispatch.op # "None" /\ pending = {}
                    \/ pending = {r} /\ MemDispatch.op = "None"
                 /\ pending' = {}
                 /\ memory' = IF r.op = "Store"
                      THEN [memory EXCEPT ![r.block] = Memory!merge(memory[r.block], r)]
                      ELSE memory
    BY <1>8
  <2>2. GoodRequest(r) /\ r.block \in Addrs
    BY <1>1, <2>1 DEF GoodRequest
  <2>3. Memory!merge(memory[r.block], r)[0] = r.val[0]
    BY <1>1, <2>2, LineFacts
  <2>4. memory'[a][0] = IF r.op = "Store" /\ r.block = a THEN r.val[0]
                        ELSE memory[a][0]
    BY <1>1, <2>1, <2>2, <2>3
  <2>5. behind(a)' = memory'[a][0]
    BY <1>4, <2>1
  <2>6. CASE r = q /\ MemDispatch.op # "None" /\ pending = {}
    BY <1>1, <1>2, <2>4, <2>5, <2>6
  <2>7. CASE pending = {r} /\ MemDispatch.op = "None"
    BY <1>3, <2>4, <2>5, <2>7
  <2> QED BY <2>1, <2>6, <2>7
<1> QED BY <1>6, <1>7, <1>8, CacheStep DEF q

(* What the queue has to drain after the cycle.                            *)
LEMMA DrainStep ==
    ASSUME QInv, NEW pkt, NEW dispatch, NEW vals, NEW brs,
           StepOf(pkt, dispatch, vals, brs)
    PROVE  /\ \A a : drainedTo(a)' =
                {i \in sqActive : leaving(i) /\ ~sentNow(i) /\ SQqueue[i].address = a}
           /\ \A i \in sqActive : leaving(i) => SQqueue'[i].value = SQqueue[i].value
           /\ \A i, j \in sqActive : ~sentNow(i) /\ ~sentNow(j) =>
                (pos(i, sqHead', SqCap) <= pos(j, sqHead', SqCap)
                  <=> sqPos(i) <= sqPos(j))
<1>1. /\ sqHead \in 0 .. SqCap - 1 /\ sqActive = held(sqHead, sqTail, SqCap)
      /\ SqCap \in Nat /\ SqCap >= 2
      /\ sqTail' \in 0 .. SqCap - 1
  BY QueueTerms, SqStep DEF QInv, QueueTypes
<1>2. vals \in SUBSET valRS
  BY DEF StepOf
<1>3. ASSUME NEW i \in sqActive, leaving(i)
      PROVE  i \notin DOMAIN storeAddress /\ i \notin DOMAIN storeValues(vals)
  <2>1. i \in DOMAIN storeAddress =>
          ~SQqueue[i].isCommitted /\ SQqueue[i].robTag \in agu
    BY <1>2, WriteFacts DEF aguHead
  <2>2. i \in DOMAIN storeValues(vals) =>
          ~SQqueue[i].isCommitted /\ SQqueue[i].robTag \in valRS
    BY <1>2, WriteFacts
  <2>3. storeWillCommit(squashDetect) => head \notin agu /\ head \notin valRS
    BY CommitWaitsForAll DEF storeWillCommit
  <2> QED BY <1>3, <2>1, <2>2, <2>3 DEF leaving
<1>4. ASSUME NEW i \in sqActive, leaving(i)
      PROVE  /\ SQqueue'[i].value = SQqueue[i].value
             /\ SQqueue'[i].address = SQqueue[i].address
  BY <1>3, <1>4, StoreStep
<1>5. \A i \in sqActive : SQqueue'[i].isCommitted <=> leaving(i)
  BY StoreStep DEF leaving
<1>6. sqActive' = held(sqHead', sqTail', SqCap)
  BY DEF sqActive, sqPos, SqSlots, held, pos
<1>7. \A i : i \in sqActive' <=> (i \in held(sqHead, sqTail', SqCap) /\ ~sentNow(i))
  <2>1. CASE MemDispatch.op = "Store"
    <3>1. sqHead' = after(sqHead, SqCap) /\ sqHead # sqTail'
      BY <2>1, SqStep
    <3>2. held(after(sqHead, SqCap), sqTail', SqCap) = held(sqHead, sqTail', SqCap) \ {sqHead}
      BY <1>1, <3>1, HeldPop
    <3> QED BY <1>6, <2>1, <3>1, <3>2 DEF sentNow
  <2>2. CASE MemDispatch.op # "Store"
    BY <1>6, <2>2, SqStep DEF sentNow
  <2> QED BY <2>1, <2>2
<1>8. /\ \A i \in sqActive : leaving(i) => i \in held(sqHead, sqTail', SqCap)
      /\ \A i \in held(sqHead, sqTail', SqCap) : i \in sqActive \/ ~SQqueue'[i].isCommitted
  BY SqStep DEF leaving
<1>9. ASSUME NEW a
      PROVE  drainedTo(a)' =
               {i \in sqActive : leaving(i) /\ ~sentNow(i) /\ SQqueue[i].address = a}
  <2>1. drainedTo(a)' = {i \in sqActive' : SQqueue'[i].isCommitted
                                             /\ SQqueue'[i].address = a}
    BY DEF drainedTo
  <2>2. ASSUME NEW i
        PROVE  (i \in sqActive' /\ SQqueue'[i].isCommitted /\ SQqueue'[i].address = a)
                 <=> (i \in sqActive /\ leaving(i) /\ ~sentNow(i)
                        /\ SQqueue[i].address = a)
    BY <1>4, <1>5, <1>7, <1>8
  <2> QED BY <2>1, <2>2
<1>10. ASSUME NEW i \in sqActive, NEW j \in sqActive, ~sentNow(i), ~sentNow(j)
       PROVE  pos(i, sqHead', SqCap) <= pos(j, sqHead', SqCap)
                  <=> sqPos(i) <= sqPos(j)
  <2>1. \A k : sqPos(k) = pos(k, sqHead, SqCap)
    BY DEF sqPos, pos
  <2>2. i \in 0 .. SqCap - 1 /\ j \in 0 .. SqCap - 1
    BY <1>1 DEF held
  <2>3. pos(i, sqHead, SqCap) \in Nat /\ pos(j, sqHead, SqCap) \in Nat
    <3>1. pos(i, sqHead, SqCap) \in 0 .. SqCap - 1 /\ pos(j, sqHead, SqCap) \in 0 .. SqCap - 1
      BY <1>1, <2>2, PosFacts
    <3> QED BY <3>1
  <2>4. CASE MemDispatch.op = "Store"
    <3>1. sqHead' = after(sqHead, SqCap) /\ i # sqHead /\ j # sqHead
      BY <1>10, <2>4, SqStep DEF sentNow
    <3>2. /\ pos(i, after(sqHead, SqCap), SqCap) = pos(i, sqHead, SqCap) - 1
          /\ pos(j, after(sqHead, SqCap), SqCap) = pos(j, sqHead, SqCap) - 1
      BY <1>1, <2>2, <3>1, StepFacts
    <3> QED BY <2>1, <2>3, <3>1, <3>2
  <2>5. CASE MemDispatch.op # "Store"
    BY <2>1, <2>5, SqStep
  <2> QED BY <2>4, <2>5
<1> QED BY <1>4, <1>9, <1>10

(* A store writes its own address and value (memIndex through station and  *)
(* AGU).                                                                   *)
LEMMA StoresSoundStep ==
    ASSUME QInv, StoresSound, NEW pkt, NEW dispatch, NEW vals, NEW brs,
           StepOf(pkt, dispatch, vals, brs)
    PROVE  StoresSound'
<1> SUFFICES ASSUME NEW t \in liveOf("STORE")'
             PROVE  LET e == SQqueue'[sqSlotOf(t)']
                    IN  /\ e.isAddressReady => e.address = instr(t)'.addr
                        /\ e.isValueReady => e.value = entry(t)'.pc
  BY DEF StoresSound
<1>1. t \in LiveTags' /\ instr(t)'.kind = "STORE"
  BY DEF liveOf
<1>2. vals \in SUBSET valRS
  BY DEF StepOf
<1>3. CASE t \in LiveTags
  <2> DEFINE i == sqSlotOf(t)
  <2>1. /\ instr(t)' = instr(t) /\ entry(t)'.pc = entry(t).pc
        /\ sqSlotOf(t)' = i
    BY <1>3, LiveStep
  <2>2. t \in liveOf("STORE")
    BY <1>1, <1>3, <2>1 DEF liveOf
  <2>3. i \in sqActive /\ SQqueue[i].robTag = t
    BY <2>2, StoreSlots
  <2>4. /\ SQqueue[i].isAddressReady => SQqueue[i].address = instr(t).addr
        /\ SQqueue[i].isValueReady => SQqueue[i].value = entry(t).pc
    BY <2>2 DEF StoresSound
  <2>5. /\ i \in DOMAIN storeAddress => storeAddress[i] = instr(t).addr
        /\ i \in DOMAIN storeValues(vals) => storeValues(vals)[i] = entry(t).pc
    BY <1>2, <2>3, WriteFacts
  <2> HIDE DEF i
  <2>6. /\ SQqueue'[i].isAddressReady => SQqueue'[i].address = instr(t).addr
        /\ SQqueue'[i].isValueReady => SQqueue'[i].value = entry(t).pc
    BY <2>3, <2>4, <2>5, StoreStep
  <2> QED BY <2>1, <2>6
<1>4. CASE pkt.valid /\ t = next_tag
  <2>1. /\ instr(t)' = curr
        /\ sqSlotOf(t)' = prior(IF curr.kind = "STORE" THEN sqNext(sqTail)
                                ELSE sqTail, SqCap)
    BY <1>4, LiveStep
  <2>2. sqSlotOf(t)' = sqTail
    BY <1>1, <2>1, QueueTerms, StepFacts DEF QInv, QueueTypes
  <2>3. SQqueue'[sqTail] = [NoStore EXCEPT !.robTag = next_tag]
    BY <1>1, <1>4, <2>1, StoreStep
  <2> QED BY <2>2, <2>3 DEF NoStore
<1> QED BY <1>1, <1>3, <1>4, LiveStep

(* The store that commits is complete, and behind every committed one.     *)
LEMMA CommittingSlot ==
    ASSUME QInv, StoresSound, storeWillCommit(squashDetect)
    PROVE  LET h == sqSlotOf(head)
           IN  /\ h \in sqActive /\ ~SQqueue[h].isCommitted /\ leaving(h)
               /\ SQqueue[h].address = instr(head).addr
               /\ SQqueue[h].value = entry(head).pc
               /\ \A i \in sqActive : SQqueue[i].isCommitted => sqPos(i) < sqPos(h)
               /\ \A i \in sqActive : leaving(i) => SQqueue[i].isCommitted \/ i = h
<1> DEFINE h == sqSlotOf(head)
<1>1. willCommit(squashDetect) /\ head \in liveOf("STORE") /\ head \in LiveTags
  BY CommittingStore DEF liveOf
<1>2. h \in sqActive /\ ~SQqueue[h].isCommitted /\ SQqueue[h].robTag = head
  BY <1>1, StoreSlots
<1>3. entry(head).isCommitReady /\ instr(head).kind = "STORE"
  BY <1>1 DEF willCommit, headEntry, entry, liveOf
<1>4. SQqueue[h].isAddressReady /\ SQqueue[h].isValueReady
  BY <1>1, <1>3 DEF QInv, ReadyComplete, isReadyToCommit
<1>5. SQqueue[h].address = instr(head).addr /\ SQqueue[h].value = entry(head).pc
  BY <1>1, <1>4 DEF StoresSound
<1>6. ASSUME NEW i \in sqActive, SQqueue[i].isCommitted
      PROVE  sqPos(i) < sqPos(h)
  <2>1. /\ head \in RobTags /\ next_tag \in RobTags
        /\ dist(head, next_tag) <= RobCap
        /\ sqHead \in 0 .. SqCap - 1 /\ sqTail \in 0 .. SqCap - 1
        /\ Follows(head, next_tag, sqHead, sqTail, SqCap, sqTags, sqGone,
                   liveOf("STORE"), sqSnap)
    BY QueueTerms DEF QInv, QueueTypes, RobHolds, SqFollows
  <2>2. /\ h \in held(sqHead, sqTail, SqCap) /\ h \notin sqGone
        /\ i \in held(sqHead, sqTail, SqCap) /\ i \in sqGone
    <3>1. i \in SqSlots
      BY StoreSlots
    <3> QED BY <1>2, <1>6, <3>1, QueueTerms DEF sqGone
  <2> HIDE DEF h
  <2>3. pos(i, sqHead, SqCap) < pos(h, sqHead, SqCap)
    BY <2>1, <2>2, QueueTerms, FollowsOrder
  <2> QED BY <2>3, QueueTerms
<1>7. ASSUME NEW i \in sqActive, leaving(i), ~SQqueue[i].isCommitted
      PROVE  i = h
  BY <1>7, StoreSlots DEF leaving
<1> QED BY <1>1, <1>2, <1>5, <1>6, <1>7 DEF leaving

(* Commit and drain keep the order.                                        *)
LEMMA MemoryOrderStep ==
    ASSUME QInv, StoresSound, MemoryInOrder, NEW pkt, NEW dispatch, NEW vals, NEW brs,
           StepOf(pkt, dispatch, vals, brs)
    PROVE  MemoryInOrder'
<1> DEFINE p2(i) == pos(i, sqHead', SqCap)
           last(S) == CHOOSE i \in S : \A k \in S : p2(k) <= p2(i)
<1> SUFFICES ASSUME NEW a \in Addrs, NEW D2, D2 = drainedTo(a)'
             PROVE  refMem'[a] = IF D2 # {} THEN SQqueue'[last(D2)].value
                                 ELSE behind(a)'
  BY DEF MemoryInOrder, committedAt, drainedTo, behind, parkedFor, sqYoungest, sqPos, pos
<1>1. refMem[a] = IF drainedTo(a) # {} THEN SQqueue[sqYoungest(drainedTo(a))].value
                  ELSE behind(a)
  BY DEF MemoryInOrder, committedAt, drainedTo, behind, parkedFor
<1> DEFINE L == {i \in sqActive : leaving(i) /\ SQqueue[i].address = a}
           y == sqYoungest(L)
           h == sqSlotOf(head)
           comm == storeWillCommit(squashDetect) /\ instr(head).addr = a
<1>2. refMem'[a] = IF comm THEN entry(head).pc ELSE refMem[a]
  <2>1. refMem' = IF storeWillCommit(squashDetect)
                    THEN [refMem EXCEPT ![instr(head).addr] = entry(head).pc]
                    ELSE refMem
    BY DEF StepOf, Cycle, HistoryTick
  <2>2. refMem \in [Addrs -> Int]
    BY DEF QInv, MemoryTypes
  <2> QED BY <2>1, <2>2
<1>3. L \in SUBSET sqActive /\ drainedTo(a) \subseteq L
  BY DEF drainedTo, leaving
<1>4. L # {} => y \in L /\ \A j \in L : sqPos(j) <= sqPos(y)
  BY <1>3, YoungestStore
<1>5. ASSUME NEW i \in sqActive, NEW j \in sqActive
      PROVE  sqPos(i) \in Nat /\ (sqPos(i) = sqPos(j) => i = j)
  <2>1. sqHead \in 0 .. SqCap - 1 /\ i \in 0 .. SqCap - 1 /\ j \in 0 .. SqCap - 1
    BY StoreSlots, QueueTerms DEF QInv, QueueTypes
  <2>2. pos(i, sqHead, SqCap) \in 0 .. SqCap - 1
    BY <2>1, QueueTerms, PosFacts
  <2>3. pos(i, sqHead, SqCap) = pos(j, sqHead, SqCap) => i = j
    BY <2>1, QueueTerms, PosFacts
  <2> QED BY <2>2, <2>3, QueueTerms
(* The value of the youngest store that leaves the ROB or has left it.     *)
<1>6. refMem'[a] = IF L # {} THEN SQqueue[y].value ELSE behind(a)
  <2>1. CASE comm
    <3>1. /\ h \in L /\ SQqueue[h].value = entry(head).pc
          /\ \A i \in L : i = h \/ sqPos(i) < sqPos(h)
      BY <2>1, CommittingSlot
    <3>2. y = h
      <4>1. y \in L /\ sqPos(h) <= sqPos(y)
        BY <1>4, <3>1
      <4>2. sqPos(h) \in Nat /\ sqPos(y) \in Nat
        BY <1>3, <1>5, <3>1, <4>1
      <4> HIDE DEF L, y, h
      <4> QED BY <3>1, <4>1, <4>2
    <3> QED BY <1>2, <2>1, <3>1, <3>2
  <2>2. CASE ~comm
    <3>1. \A i \in L : SQqueue[i].isCommitted
      <4> SUFFICES ASSUME NEW i \in L, ~SQqueue[i].isCommitted PROVE FALSE
        OBVIOUS
      <4>1. storeWillCommit(squashDetect)
        BY DEF leaving
      <4>2. i = h /\ SQqueue[h].address = instr(head).addr
        BY <4>1, CommittingSlot
      <4> QED BY <2>2, <4>1, <4>2
    <3>2. drainedTo(a) = L
      BY <1>3, <3>1 DEF drainedTo
    <3> QED BY <1>1, <1>2, <2>2, <3>2
  <2> QED BY <2>1, <2>2
<1>7. /\ D2 = {i \in L : ~sentNow(i)}
      /\ \A i \in L : SQqueue'[i].value = SQqueue[i].value
      /\ \A i, j \in L : ~sentNow(i) /\ ~sentNow(j) =>
            (pos(i, sqHead', SqCap) <= pos(j, sqHead', SqCap)
                  <=> sqPos(i) <= sqPos(j))
  BY DrainStep
<1>8. MemDispatch.op = "Store" =>
        /\ sqHead \in sqActive /\ leaving(sqHead) /\ sqPos(sqHead) = 0
  <2> SUFFICES ASSUME MemDispatch.op = "Store"
               PROVE  sqHead \in sqActive /\ leaving(sqHead) /\ sqPos(sqHead) = 0
    OBVIOUS
  <2>1. headStoreGoes /\ sqHead \in sqActive
    BY RequestFacts
  <2>2. sqPos(sqHead) = 0
    BY QueueTerms, PosFacts DEF QInv, QueueTypes
  <2> QED BY <2>1, <2>2 DEF headStoreGoes, sqIsCommitted, leaving
<1>9. behind(a)' = IF MemDispatch.op = "Store" /\ SQqueue[sqHead].address = a
                     THEN SQqueue[sqHead].value ELSE behind(a)
  BY BehindStep
<1>10. CASE D2 # {}
  <2>1. PICK j \in L : ~sentNow(j)
    BY <1>7, <1>10
  <2>2. y \in L /\ \A k \in L : sqPos(k) <= sqPos(y)
    BY <1>4, <2>1
  <2> HIDE DEF L, y
  <2>3. ~sentNow(y)
    <3> SUFFICES ASSUME sentNow(y) PROVE FALSE
      OBVIOUS
    <3>1. sqPos(y) = 0
      BY <1>8 DEF sentNow
    <3>2. sqPos(j) <= sqPos(y) /\ sqPos(j) \in Nat
      BY <1>3, <1>5, <2>1, <2>2
    <3>3. j = y
      BY <1>3, <1>5, <2>1, <2>2, <3>1, <3>2
    <3> QED BY <2>1, <3>3
  <2>4. y \in D2 /\ \A k \in D2 : p2(k) <= p2(y)
    BY <1>7, <2>2, <2>3
  <2> DEFINE z == last(D2)
  <2>5. z \in D2 /\ \A k \in D2 : p2(k) <= p2(z)
    BY <2>4
  <2>6. last(D2) = z
    OBVIOUS
  <2> HIDE DEF z, last
  <2>7. sqPos(y) <= sqPos(z) /\ sqPos(z) <= sqPos(y) /\ z \in L
    BY <1>7, <2>2, <2>3, <2>4, <2>5
  <2>8. z = y
    BY <1>3, <1>5, <2>2, <2>7
  <2> QED BY <1>6, <1>7, <1>10, <2>2, <2>6, <2>8
<1>11. CASE D2 = {}
  <2>1. CASE L = {}
    <3>1. ~(MemDispatch.op = "Store" /\ SQqueue[sqHead].address = a)
      BY <1>8, <2>1
    <3> QED BY <1>6, <1>9, <1>11, <2>1, <3>1
  <2>2. CASE L # {}
    <3>1. y \in L /\ sentNow(y)
      BY <1>4, <1>7, <1>11, <2>2
    <3>2. y = sqHead /\ MemDispatch.op = "Store" /\ SQqueue[sqHead].address = a
      BY <3>1 DEF sentNow
    <3> HIDE DEF y
    <3> QED BY <1>6, <1>9, <1>11, <2>2, <3>2
  <2> QED BY <2>1, <2>2
<1> QED BY <1>10, <1>11

(* The stores through any run.                                             *)
LEMMA StoresInvariant == Spec => [](StoresSound /\ MemoryInOrder)
<1> DEFINE MInv == StoresSound /\ MemoryInOrder
<1>1. Init => MInv
  <2> SUFFICES ASSUME Init PROVE MInv
    OBVIOUS
  <2>1. StoresSound
    <3>1. QInv /\ head = 0 /\ next_tag = 0
      BY QueuesInit DEF Init, ROBInit
    <3>2. ASSUME NEW t \in LiveTags PROVE FALSE
      BY <3>1, LiveFacts
    <3> QED BY <3>2 DEF StoresSound, liveOf
  <2>2. ASSUME NEW i \in sqActive PROVE ~SQqueue[i].isCommitted
    BY DEF sqActive, Init, SQInit, NoStore
  <2>3. pending = {} /\ \A a \in Addrs : memory[a][0] = refMem[a]
    BY DEF Init
  <2> QED BY <2>1, <2>2, <2>3 DEF MemoryInOrder, committedAt
<1>2. QInv /\ MInv /\ [Next]_vars => MInv'
  <2> SUFFICES ASSUME QInv, StoresSound, MemoryInOrder, [Next]_vars PROVE MInv'
    OBVIOUS
  <2>1. ASSUME NEW dispatch \in AtMostOne({t \in addrRS : live(t)}),
               NEW vals \in SUBSET valRS, NEW brs \in AtMostOne(brRS),
               Step(dispatch, vals, brs)
        PROVE  MInv'
    <3>1. PICK pkt : StepOf(pkt, dispatch, vals, brs)
      BY <2>1 DEF Step, StepOf, IssuePacket
    <3> QED BY <3>1, StoresSoundStep, MemoryOrderStep
  <2>2. CASE UNCHANGED vars
    <3> USE <2>2 DEF vars, robVars, sqVars, lqVars, restVars
    <3>1. StoresSound'
      BY DEF StoresSound, liveOf, LiveTags, Between, instr, entry, sqSlotOf
    <3>2. MemoryInOrder'
      BY DEF MemoryInOrder, committedAt, sqActive, sqYoungest, sqPos
    <3> QED BY <3>1, <3>2
  <2>3. CASE Done
    BY <2>2, <2>3 DEF Done
  <2> QED BY <2>1, <2>2, <2>3 DEF Next
<1> QED BY <1>1, <1>2, QueueInvariant, PTL DEF Spec

(* No store is lost, doubled, reordered or written before it commits, for  *)
(* every size and every program: memory, then the store the cache is busy  *)
(* with, then the committed stores of the queue are the memory of the      *)
(* committed program (MemArbiter, SQ::tick).                               *)
THEOREM StoresDrainInOrder == Spec => []MemoryInOrder
BY StoresInvariant, PTL

-----------------------------------------------------------------------------
(***************************************************************************)
(* The values of the loads: every load commits with the value of the       *)
(* youngest older store to its address, whatever the order in which        *)
(* addresses, values, cache answers and squashes arrive, except in the     *)
(* cases that LoadsRight names.                                            *)
(*                                                                         *)
(* A load may hold a wrong value for a while: LoadSound says when, and     *)
(* that what gave it the value, a store's broadcast, the queue's reply or  *)
(* the cache, was right at that time.  The cases end before the load       *)
(* commits: a store older than it has resolved, and the violation that the *)
(* store reports is a pending squash, which recalls the load.              *)
(***************************************************************************)

-----------------------------------------------------------------------------
(* The value of a load.                                                    *)

(* The uncommitted stores older than a live load that write its address.   *)
olderStores(t) ==
    {s \in liveOf("STORE") : /\ dist(head, s) < dist(head, t)
                             /\ instr(s).addr = instr(t).addr}

(* The value program order gives a live load: of the youngest of them, or  *)
(* what the committed program has left at the address.                     *)
Right(t, v) ==
    \/ olderStores(t) = {} /\ v = refMem[instr(t).addr]
    \/ \E s \in olderStores(t) :
         /\ v = entry(s).pc
         /\ \A u \in olderStores(t) : dist(head, u) <= dist(head, s)

(* A load that may hold a wrong value: one of the excuses of LoadsRight,   *)
(* or a store that may still find out, or a squash that has found out.     *)
unresolved(t) ==
    \E s \in olderStores(t) : ~SQqueue[sqSlotOf(s)].isAddressReady

recalled(t) == \E r \in requests : ~isOlder(t, r.SquashTag)

Excused(t) ==
    \/ t \in replayed
    \/ \E r \in Races : <<t, r>> \in exposed
    \/ unresolved(t)
    \/ recalled(t)

(* What the cache has been asked for a load, and has answered it.          *)
AskedRight(t) ==
    \A r \in pending :
      r.op = "Load" /\ r.id.slot = lqSlotOf(t) /\ r.id.robTag = t
        => Right(t, memory[r.block][0])

AnswerRight(t) ==
    answer.valid /\ answer.id.slot = lqSlotOf(t) /\ answer.id.robTag = t
      => Right(t, answer.value[0])

(* A load has its own address, and unless it is excused its value is right *)
(* wherever it is: at the cache, in the queue, in the register file.       *)
LoadSound(t) ==
    LET e == LQqueue[lqSlotOf(t)]
    IN  /\ e.isAddressReady => e.address = instr(t).addr
        /\ e.valueState # "NOTREADY" => e.isAddressReady
        /\ entry(t).isCommitReady => e.valueState = "READY"
        /\ ~Excused(t) =>
             /\ e.valueState = "READY" => Right(t, e.value)
             /\ e.valueState = "FETCHING" => AskedRight(t) /\ AnswerRight(t)
             /\ entry(t).isCommitReady => Right(t, result[robSlot(t)])

LoadsSound == \A t \in liveOf("LOAD") : LoadSound(t)

-----------------------------------------------------------------------------
(* The order of the queues.                                                *)

(* The uncommitted stores lie behind the committed ones, in program order. *)
LEMMA StoreOrder ==
    ASSUME QInv, NEW i \in sqActive, ~SQqueue[i].isCommitted, NEW j \in sqActive
    PROVE  /\ sqPos(i) \in Nat /\ sqPos(j) \in Nat
           /\ SQqueue[j].isCommitted => sqPos(j) < sqPos(i)
           /\ ~SQqueue[j].isCommitted =>
                (sqPos(i) <= sqPos(j) <=> dist(head, SQqueue[i].robTag)
                                            <= dist(head, SQqueue[j].robTag))
           /\ sqPos(i) = sqPos(j) => i = j
<1> DEFINE a == SQqueue[i].robTag
           b == SQqueue[j].robTag
<1>1. /\ head \in RobTags /\ next_tag \in RobTags
      /\ dist(head, next_tag) <= RobCap
      /\ sqHead \in 0 .. SqCap - 1 /\ sqTail \in 0 .. SqCap - 1
      /\ Follows(head, next_tag, sqHead, sqTail, SqCap, sqTags, sqGone,
                 liveOf("STORE"), sqSnap)
  BY QueueTerms DEF QInv, QueueTypes, RobHolds, SqFollows
<1>2. /\ i \in SqSlots /\ j \in SqSlots
      /\ i \in held(sqHead, sqTail, SqCap) /\ j \in held(sqHead, sqTail, SqCap)
  BY StoreSlots, QueueTerms
<1>3. /\ i \notin sqGone
      /\ j \in sqGone <=> SQqueue[j].isCommitted
      /\ sqTags[i] = a /\ sqTags[j] = b
  BY <1>2 DEF sqGone, sqTags
<1>4. /\ j \in sqGone => pos(j, sqHead, SqCap) < pos(i, sqHead, SqCap)
      /\ j \notin sqGone /\ pos(i, sqHead, SqCap) < pos(j, sqHead, SqCap)
           => isOlder(a, b)
      /\ j \notin sqGone /\ pos(j, sqHead, SqCap) < pos(i, sqHead, SqCap)
           => isOlder(b, a)
  BY <1>1, <1>2, <1>3, QueueTerms, FollowsOrder
<1>5. /\ pos(i, sqHead, SqCap) \in Nat /\ pos(j, sqHead, SqCap) \in Nat
      /\ pos(i, sqHead, SqCap) = pos(j, sqHead, SqCap) => i = j
  <2>1. /\ pos(i, sqHead, SqCap) \in 0 .. SqCap - 1
        /\ pos(j, sqHead, SqCap) \in 0 .. SqCap - 1
        /\ pos(i, sqHead, SqCap) = pos(j, sqHead, SqCap) => i = j
    BY <1>1, <1>2, QueueTerms, PosFacts
  <2> QED BY <2>1
<1>6. ~SQqueue[j].isCommitted =>
        /\ dist(head, a) \in Nat /\ dist(head, b) \in Nat
        /\ isOlder(a, b) <=> dist(head, a) < dist(head, b)
        /\ isOlder(b, a) <=> dist(head, b) < dist(head, a)
  <2> SUFFICES ASSUME ~SQqueue[j].isCommitted
               PROVE  /\ dist(head, a) \in Nat /\ dist(head, b) \in Nat
                      /\ isOlder(a, b) <=> dist(head, a) < dist(head, b)
                      /\ isOlder(b, a) <=> dist(head, b) < dist(head, a)
    OBVIOUS
  <2>1. a \in LiveTags /\ b \in LiveTags
    BY StoreSlots DEF liveOf
  <2>2. /\ a \in RobTags /\ dist(head, a) \in Nat /\ dist(head, a) < RobCap
        /\ b \in RobTags /\ dist(head, b) \in Nat /\ dist(head, b) < RobCap
    BY <2>1, LiveFacts
  <2> QED BY <1>1, <2>2, DistOlder
<1>7. sqPos(i) = pos(i, sqHead, SqCap) /\ sqPos(j) = pos(j, sqHead, SqCap)
  BY QueueTerms
<1>8. i = j => a = b
  OBVIOUS
<1> HIDE DEF a, b
<1>9. ~SQqueue[j].isCommitted =>
        (sqPos(i) <= sqPos(j) <=> dist(head, a) <= dist(head, b))
  BY <1>3, <1>4, <1>5, <1>6, <1>7, <1>8
<1> QED BY <1>3, <1>4, <1>5, <1>7, <1>9 DEF a, b

(* So do the loads that are still in the ROB.                              *)
LEMMA LoadOrder ==
    ASSUME QInv, NEW i \in lqActive, NEW j \in lqActive
    PROVE  /\ lqPos(i) \in Nat /\ lqPos(j) \in Nat
           /\ lqPos(i) = lqPos(j) => i = j
           /\ LQqueue[i].robTag \in LiveTags /\ LQqueue[j].robTag \in LiveTags =>
                (lqPos(i) <= lqPos(j) => dist(head, LQqueue[i].robTag)
                                            <= dist(head, LQqueue[j].robTag))
<1> DEFINE a == LQqueue[i].robTag
           b == LQqueue[j].robTag
<1>1. /\ head \in RobTags /\ next_tag \in RobTags
      /\ dist(head, next_tag) <= RobCap
      /\ lqHead \in 0 .. LqCap - 1 /\ lqTail \in 0 .. LqCap - 1
      /\ Follows(head, next_tag, lqHead, lqTail, LqCap, lqTags, lqGone,
                 liveOf("LOAD"), lqSnap)
  BY QueueTerms DEF QInv, QueueTypes, RobHolds, LqFollows
<1>2. /\ i \in LqSlots /\ j \in LqSlots
      /\ i \in held(lqHead, lqTail, LqCap) /\ j \in held(lqHead, lqTail, LqCap)
  BY LoadSlots, QueueTerms
<1>3. /\ i \in lqGone <=> a \notin LiveTags
      /\ j \in lqGone <=> b \notin LiveTags
      /\ lqTags[i] = a /\ lqTags[j] = b
  BY <1>2 DEF lqGone, lqTags
<1>4. i \notin lqGone /\ j \notin lqGone
        /\ pos(i, lqHead, LqCap) < pos(j, lqHead, LqCap) => isOlder(a, b)
  BY <1>1, <1>2, <1>3, QueueTerms, FollowsOrder
<1>5. /\ pos(i, lqHead, LqCap) \in Nat /\ pos(j, lqHead, LqCap) \in Nat
      /\ pos(i, lqHead, LqCap) = pos(j, lqHead, LqCap) => i = j
  <2>1. /\ pos(i, lqHead, LqCap) \in 0 .. LqCap - 1
        /\ pos(j, lqHead, LqCap) \in 0 .. LqCap - 1
        /\ pos(i, lqHead, LqCap) = pos(j, lqHead, LqCap) => i = j
    BY <1>1, <1>2, QueueTerms, PosFacts
  <2> QED BY <2>1
<1>6. a \in LiveTags /\ b \in LiveTags =>
        /\ dist(head, a) \in Nat /\ dist(head, b) \in Nat
        /\ isOlder(a, b) <=> dist(head, a) < dist(head, b)
  <2> SUFFICES ASSUME a \in LiveTags, b \in LiveTags
               PROVE  /\ dist(head, a) \in Nat /\ dist(head, b) \in Nat
                      /\ isOlder(a, b) <=> dist(head, a) < dist(head, b)
    OBVIOUS
  <2>1. /\ a \in RobTags /\ dist(head, a) \in Nat /\ dist(head, a) < RobCap
        /\ b \in RobTags /\ dist(head, b) \in Nat /\ dist(head, b) < RobCap
    BY LiveFacts
  <2> QED BY <1>1, <2>1, DistOlder
<1>7. lqPos(i) = pos(i, lqHead, LqCap) /\ lqPos(j) = pos(j, lqHead, LqCap)
  BY QueueTerms
<1>8. i = j => a = b
  OBVIOUS
<1> HIDE DEF a, b
<1>9. a \in LiveTags /\ b \in LiveTags =>
        (lqPos(i) <= lqPos(j) => dist(head, a) <= dist(head, b))
  BY <1>3, <1>4, <1>5, <1>6, <1>7, <1>8
<1> QED BY <1>5, <1>7, <1>9 DEF a, b

(* Among some of the stores there is an oldest one, among some loads too.  *)
LEMMA OldestStore ==
    ASSUME QInv, NEW S \in SUBSET sqActive, S # {}
    PROVE  /\ sqOldest(S) \in S
           /\ \A j \in S : sqPos(sqOldest(S)) <= sqPos(j)
<1>1. \A i \in S : sqPos(i) \in Nat
  <2>1. \A i \in S : i \in SqSlots /\ sqHead \in 0 .. SqCap - 1
    BY StoreSlots, QueueTerms DEF QInv, QueueTypes
  <2>2. \A i \in S : sqPos(i) \in 0 .. SqCap - 1
    BY <2>1, QueueTerms, PosFacts
  <2> QED BY <2>2
<1>2. {sqPos(i) : i \in S} \in SUBSET Nat /\ {sqPos(i) : i \in S} # {}
  BY <1>1
<1>3. \E x \in {sqPos(i) : i \in S} : \A y \in {sqPos(i) : i \in S} : x <= y
  BY <1>2, LeastNumber
<1>4. \E i \in S : \A j \in S : sqPos(i) <= sqPos(j)
  BY <1>3
<1> QED BY <1>4 DEF sqOldest

LEMMA OldestLoad ==
    ASSUME QInv, NEW S \in SUBSET lqActive, S # {}
    PROVE  \E i \in lqOldest(S) : i \in S /\ \A j \in S : lqPos(i) <= lqPos(j)
<1>1. \A i \in S : lqPos(i) \in Nat
  BY LoadOrder
<1>2. {lqPos(i) : i \in S} \in SUBSET Nat /\ {lqPos(i) : i \in S} # {}
  BY <1>1
<1>3. \E x \in {lqPos(i) : i \in S} : \A y \in {lqPos(i) : i \in S} : x <= y
  BY <1>2, LeastNumber
<1>4. \E i \in S : \A j \in S : lqPos(i) <= lqPos(j)
  BY <1>3
<1> QED BY <1>4 DEF lqOldest

-----------------------------------------------------------------------------
(* What is forwarded.                                                      *)

(* An older store to the address of a load lies in the store queue, not    *)
(* committed, with that address once it is known.                          *)
LEMMA OlderStore ==
    ASSUME QInv, StoresSound, NEW t \in LiveTags, NEW u \in olderStores(t)
    PROVE  /\ u \in liveOf("STORE") /\ u \in LiveTags /\ instr(u).addr = instr(t).addr
           /\ sqSlotOf(u) \in sqActive /\ ~SQqueue[sqSlotOf(u)].isCommitted
           /\ SQqueue[sqSlotOf(u)].robTag = u
           /\ SQqueue[sqSlotOf(u)].isAddressReady =>
                SQqueue[sqSlotOf(u)].address = instr(t).addr
           /\ dist(head, u) \in Nat /\ dist(head, t) \in Nat
           /\ dist(head, u) < dist(head, t)
           /\ isOlder(u, t) /\ ~isOlder(t, u)
<1>1. /\ u \in liveOf("STORE") /\ u \in LiveTags /\ instr(u).addr = instr(t).addr
      /\ dist(head, u) < dist(head, t)
  BY DEF olderStores, liveOf
<1>2. /\ u \in RobTags /\ dist(head, u) \in Nat /\ dist(head, u) < RobCap
      /\ t \in RobTags /\ dist(head, t) \in Nat /\ dist(head, t) < RobCap
      /\ head \in RobTags
  BY <1>1, LiveFacts DEF QInv, QueueTypes
<1>3. isOlder(u, t) /\ ~isOlder(t, u)
  <2>1. /\ isOlder(u, t) <=> dist(head, u) < dist(head, t)
        /\ isOlder(t, u) <=> dist(head, t) < dist(head, u)
    BY <1>2, DistOlder
  <2> QED BY <1>1, <1>2, <2>1
<1> QED BY <1>1, <1>2, <1>3, StoreSlots DEF StoresSound

(* Two live tags, by age.                                                  *)
LEMMA LiveOlder ==
    ASSUME QInv, NEW a \in LiveTags, NEW b \in LiveTags
    PROVE  /\ isOlder(a, b) <=> dist(head, a) < dist(head, b)
           /\ dist(head, a) \in Nat /\ dist(head, b) \in Nat
           /\ dist(head, a) = dist(head, b) => a = b
<1>1. /\ a \in RobTags /\ dist(head, a) \in Nat /\ dist(head, a) < RobCap
      /\ b \in RobTags /\ dist(head, b) \in Nat /\ dist(head, b) < RobCap
      /\ head \in RobTags
  BY LiveFacts DEF QInv, QueueTypes
<1> QED BY <1>1, DistOlder, DistFacts

(* A broadcast carries address, value and blockers of a store of the queue *)
(* that gets its value, or its address, in this cycle.                     *)
LEMMA NotifyFacts ==
    ASSUME QInv, StoresSound, NEW vals \in SUBSET valRS, NEW n \in storeNotifies(vals)
    PROVE  \E i \in sqActive :
             /\ ~SQqueue[i].isCommitted
             /\ n = StoreNotify(i, instr(SQqueue[i].robTag).addr,
                                entry(SQqueue[i].robTag).pc)
             /\ \/ /\ SQqueue[i].isAddressReady
                   /\ SQqueue[i].address = instr(SQqueue[i].robTag).addr
                \/ /\ i \in DOMAIN storeAddress
                   /\ storeAddress[i] = instr(SQqueue[i].robTag).addr
<1>1. \/ n \in UNION {planDataForward(i, storeValues(vals)[i]) :
                       i \in DOMAIN storeValues(vals)}
      \/ n \in UNION {planAddressForward(i, storeAddress[i]) :
                       i \in DOMAIN storeAddress}
  BY Zenon DEF storeNotifies
<1>2. \/ \E i \in DOMAIN storeValues(vals) :
           n \in planDataForward(i, storeValues(vals)[i])
      \/ \E i \in DOMAIN storeAddress :
           n \in planAddressForward(i, storeAddress[i])
  BY <1>1, Zenon
<1>3. ASSUME NEW i \in sqActive, ~SQqueue[i].isCommitted
      PROVE  /\ SQqueue[i].isAddressReady =>
                  SQqueue[i].address = instr(SQqueue[i].robTag).addr
             /\ SQqueue[i].isValueReady =>
                  SQqueue[i].value = entry(SQqueue[i].robTag).pc
  <2>1. /\ SQqueue[i].robTag \in liveOf("STORE")
        /\ sqSlotOf(SQqueue[i].robTag) = i
    BY <1>3, StoreSlots
  <2> QED BY <2>1 DEF StoresSound
<1>4. CASE \E i \in DOMAIN storeValues(vals) :
             n \in planDataForward(i, storeValues(vals)[i])
  <2>1. PICK i \in DOMAIN storeValues(vals) :
          n \in planDataForward(i, storeValues(vals)[i])
    BY <1>4
  <2>2. /\ i \in sqActive /\ ~SQqueue[i].isCommitted
        /\ storeValues(vals)[i] = entry(SQqueue[i].robTag).pc
    BY <2>1, WriteFacts
  <2>3. /\ SQqueue[i].isAddressReady
        /\ n = StoreNotify(i, SQqueue[i].address, storeValues(vals)[i])
    BY <2>1 DEF planDataForward
  <2> QED BY <1>3, <2>2, <2>3
<1>5. CASE \E i \in DOMAIN storeAddress :
             n \in planAddressForward(i, storeAddress[i])
  <2>1. PICK i \in DOMAIN storeAddress :
          n \in planAddressForward(i, storeAddress[i])
    BY <1>5
  <2>2. /\ i \in sqActive /\ ~SQqueue[i].isCommitted
        /\ storeAddress[i] = instr(SQqueue[i].robTag).addr
    BY <2>1, WriteFacts
  <2>3. /\ SQqueue[i].isValueReady
        /\ n = StoreNotify(i, storeAddress[i], SQqueue[i].value)
    BY <2>1 DEF planAddressForward
  <2> QED BY <1>3, <2>1, <2>2, <2>3
<1> QED BY <1>2, <1>4, <1>5

(* A broadcast that reaches a load carries its right value: its blockers   *)
(* keep it from the loads behind a younger store that writes, or may yet   *)
(* write, the address (SQ::planDataForward, planAddressForward).   *)
LEMMA ForwardRight ==
    ASSUME QInv, StoresSound, NEW vals \in SUBSET valRS,
           NEW n \in storeNotifies(vals), NEW t \in liveOf("LOAD"),
           LQqueue[lqSlotOf(t)].address = instr(t).addr,
           forwardsTo(n, LQqueue[lqSlotOf(t)])
    PROVE  Right(t, n.value)
<1>1. PICK i \in sqActive :
        /\ ~SQqueue[i].isCommitted
        /\ n = StoreNotify(i, instr(SQqueue[i].robTag).addr,
                           entry(SQqueue[i].robTag).pc)
  BY NotifyFacts
<1> DEFINE s == SQqueue[i].robTag
           a == instr(s).addr
           same == sameAddress(sqBehind(i), a)
           unknown == unknownAddress(sqBehind(i))
<1>2. /\ n.storeTag = s /\ n.addr = a /\ n.value = entry(s).pc
      /\ n.blockers = {SQqueue[sqOldest(S)].robTag : S \in {same, unknown} \ {{}}}
  BY <1>1 DEF StoreNotify
<1>3. t \in LiveTags /\ instr(t).kind = "LOAD" /\ LQqueue[lqSlotOf(t)].robTag = t
  BY LoadSlots DEF liveOf
<1>4. /\ a = instr(t).addr /\ isOlder(s, t)
      /\ \A b \in n.blockers : ~isOlder(b, t)
  BY <1>2, <1>3 DEF forwardsTo
<1>5. s \in liveOf("STORE") /\ s \in LiveTags /\ sqSlotOf(s) = i
  BY <1>1, StoreSlots DEF liveOf
<1>6. s \in olderStores(t)
  BY <1>3, <1>4, <1>5, LiveOlder DEF olderStores
<1> HIDE DEF same, unknown, a, s
<1>7. ASSUME NEW S \in {same, unknown}, S # {}, S \subseteq sqBehind(i),
             NEW j \in S
      PROVE  ~(dist(head, SQqueue[j].robTag) < dist(head, t))
  <2> DEFINE k == sqOldest(S)
             b == SQqueue[k].robTag
             c == SQqueue[j].robTag
  <2>1. S \in SUBSET sqActive /\ \A l \in S : l \in sqActive /\ sqPos(l) > sqPos(i)
    BY <1>7 DEF sqBehind
  <2>2. k \in S /\ sqPos(k) <= sqPos(j)
    BY <1>7, <2>1, OldestStore
  <2>3. ~isOlder(b, t)
    <3>1. b \in n.blockers
      BY <1>2, <1>7
    <3> QED BY <1>4, <3>1
  <2> HIDE DEF k
  <2>4. \A l \in S : ~SQqueue[l].isCommitted
    <3> SUFFICES ASSUME NEW l \in S, SQqueue[l].isCommitted PROVE FALSE
      OBVIOUS
    <3>1. sqPos(l) < sqPos(i) /\ sqPos(l) \in Nat /\ sqPos(i) \in Nat
      BY <1>1, <2>1, StoreOrder
    <3> QED BY <2>1, <3>1
  <2>5. dist(head, b) <= dist(head, c)
    BY <2>1, <2>2, <2>4, StoreOrder
  <2>6. b \in LiveTags /\ c \in LiveTags
    BY <2>1, <2>2, <2>4, StoreSlots DEF liveOf
  <2>7. ~(dist(head, b) < dist(head, t)) /\ dist(head, b) \in Nat /\ dist(head, t) \in Nat
    BY <1>3, <2>3, <2>6, LiveOlder
  <2>8. dist(head, c) \in Nat
    BY <2>6, LiveFacts
  <2> HIDE DEF b, c
  <2>9. ~(dist(head, c) < dist(head, t))
    BY <2>5, <2>7, <2>8
  <2> QED BY <2>9 DEF c
<1>8. ASSUME NEW u \in olderStores(t), dist(head, s) < dist(head, u) PROVE FALSE
  <2> DEFINE j == sqSlotOf(u)
  <2>1. /\ j \in sqActive /\ ~SQqueue[j].isCommitted /\ SQqueue[j].robTag = u
        /\ SQqueue[j].isAddressReady => SQqueue[j].address = instr(t).addr
        /\ dist(head, u) < dist(head, t)
    BY <1>3, OlderStore
  <2> HIDE DEF j
  <2>2. sqPos(j) > sqPos(i)
    <3>1. /\ sqPos(j) \in Nat /\ sqPos(i) \in Nat
          /\ sqPos(j) <= sqPos(i) <=> dist(head, u) <= dist(head, s)
      BY <1>1, <2>1, StoreOrder DEF s
    <3>2. dist(head, u) \in Nat /\ dist(head, s) \in Nat
      BY <1>3, <1>6, OlderStore
    <3> QED BY <1>8, <3>1, <3>2
  <2>3. j \in sqBehind(i)
    BY <2>1, <2>2 DEF sqBehind
  <2>4. j \in same \/ j \in unknown
    BY <1>4, <2>1, <2>3 DEF same, unknown, sameAddress, unknownAddress
  <2>5. same \subseteq sqBehind(i) /\ unknown \subseteq sqBehind(i)
    BY DEF same, unknown, sameAddress, unknownAddress
  <2> QED BY <1>7, <2>1, <2>4, <2>5
<1>9. \A u \in olderStores(t) : dist(head, u) <= dist(head, s)
  <2> SUFFICES ASSUME NEW u \in olderStores(t)
               PROVE  dist(head, u) <= dist(head, s)
    OBVIOUS
  <2>1. dist(head, u) \in Nat /\ dist(head, s) \in Nat
    BY <1>3, <1>6, OlderStore
  <2> QED BY <1>8, <2>1
<1> QED BY <1>2, <1>6, <1>9 DEF Right

(* The value the store queue replies to the address of a load is right:    *)
(* the walk ends at the load, and the last store to the address, if no     *)
(* store after it may write it too, is the one program order asks for, be  *)
(* it committed or not (SQ::replyToLoadRequest).                           *)
LEMMA ReplyRight ==
    ASSUME QInv, StoresSound, MemoryInOrder, NEW t \in liveOf("LOAD"),
           NEW v \in replyToLoadRequest(instr(t).addr, t)
    PROVE  Right(t, v)
<1> DEFINE a == instr(t).addr
           before == storesBefore(t)
           same == sameAddress(before, a)
           unknown == unknownAddress(before)
           i == sqYoungest(same)
<1>1. /\ same # {} /\ SQqueue[i].isValueReady
      /\ \A j \in unknown : sqPos(j) < sqPos(i)
      /\ v = SQqueue[i].value
  <2>1. replyToLoadRequest(a, t) =
          IF /\ same # {}
             /\ SQqueue[i].isValueReady
             /\ \A j \in unknown : sqPos(j) < sqPos(i)
            THEN {SQqueue[i].value} ELSE {}
    BY DEF replyToLoadRequest
  <2> HIDE DEF same, unknown, i
  <2> QED BY <2>1
<1>2. t \in LiveTags /\ instr(t).kind = "LOAD" /\ a \in Addrs
  <2>1. t \in LiveTags /\ instr(t).kind = "LOAD"
    BY DEF liveOf
  <2>2. entry(t).pc \in 1 .. Len(program) /\ program \in Programs
    BY <2>1, LiveFacts DEF LiveEntry, QInv, QueueTypes
  <2> QED BY <2>1, <2>2, ProgramFacts DEF instr
<1>3. /\ before \in SUBSET sqActive /\ same \in SUBSET sqActive
      /\ \A j \in before : j \in same <=>
           (SQqueue[j].isAddressReady /\ SQqueue[j].address = a)
      /\ \A j \in before : j \in unknown <=> ~SQqueue[j].isAddressReady
      /\ same \subseteq before /\ unknown \subseteq before
  BY DEF storesBefore, sameAddress, unknownAddress
<1>4. i \in same /\ \A j \in same : sqPos(j) <= sqPos(i)
  BY <1>1, <1>3, YoungestStore
<1> HIDE DEF i
<1>5. i \in sqActive /\ i \in before /\ SQqueue[i].isAddressReady /\ SQqueue[i].address = a
  BY <1>3, <1>4
(* The committed stores, and those of the older instructions, are before   *)
(* the load.                                                               *)
<1>6. ASSUME NEW j \in sqActive,
             \/ SQqueue[j].isCommitted
             \/ dist(head, SQqueue[j].robTag) < dist(head, t)
      PROVE  j \in before
  <2> SUFFICES ASSUME NEW k \in sqActive, sqPos(k) <= sqPos(j),
                      ~SQqueue[k].isCommitted
               PROVE  ~isOlder(t, SQqueue[k].robTag)
    BY DEF storesBefore, isYounger
  <2>1. /\ sqPos(k) \in Nat /\ sqPos(j) \in Nat
        /\ SQqueue[j].isCommitted => sqPos(j) < sqPos(k)
        /\ ~SQqueue[j].isCommitted =>
              (sqPos(k) <= sqPos(j) <=> dist(head, SQqueue[k].robTag)
                                            <= dist(head, SQqueue[j].robTag))
    BY StoreOrder
  <2>2. ~SQqueue[j].isCommitted
    BY <2>1
  <2>3. SQqueue[k].robTag \in LiveTags /\ SQqueue[j].robTag \in LiveTags
    BY <2>2, StoreSlots DEF liveOf
  <2>4. /\ dist(head, SQqueue[k].robTag) \in Nat /\ dist(head, SQqueue[j].robTag) \in Nat
        /\ dist(head, t) \in Nat
        /\ isOlder(t, SQqueue[k].robTag) <=> dist(head, t) < dist(head, SQqueue[k].robTag)
    BY <1>2, <2>3, LiveOlder
  <2>5. dist(head, SQqueue[k].robTag) <= dist(head, SQqueue[j].robTag)
    BY <2>1, <2>2
  <2> QED BY <1>6, <2>2, <2>4, <2>5
<1>7. ASSUME NEW u \in olderStores(t)
      PROVE  /\ sqSlotOf(u) \in sqActive /\ ~SQqueue[sqSlotOf(u)].isCommitted
             /\ SQqueue[sqSlotOf(u)].robTag = u
             /\ sqPos(sqSlotOf(u)) <= sqPos(i)
             /\ dist(head, u) \in Nat
  <2> DEFINE j == sqSlotOf(u)
  <2>1. /\ j \in sqActive /\ ~SQqueue[j].isCommitted /\ SQqueue[j].robTag = u
        /\ SQqueue[j].isAddressReady => SQqueue[j].address = a
        /\ dist(head, u) < dist(head, t) /\ dist(head, u) \in Nat
    BY <1>2, OlderStore
  <2> HIDE DEF j
  <2>2. j \in before
    BY <1>6, <2>1
  <2>3. sqPos(j) \in Nat /\ sqPos(i) \in Nat
    BY <1>5, <2>1, StoreOrder
  <2>4. CASE SQqueue[j].isAddressReady
    <3>1. sqPos(j) <= sqPos(i)
      BY <1>3, <1>4, <2>1, <2>2, <2>4
    <3> QED BY <2>1, <3>1 DEF j
  <2>5. CASE ~SQqueue[j].isAddressReady
    <3>1. sqPos(j) < sqPos(i)
      BY <1>1, <1>3, <2>2, <2>5
    <3> QED BY <2>1, <2>3, <3>1 DEF j
  <2> QED BY <2>4, <2>5
<1>8. CASE SQqueue[i].isCommitted
  <2>1. olderStores(t) = {}
    <3> SUFFICES ASSUME NEW u \in olderStores(t) PROVE FALSE
      OBVIOUS
    <3> DEFINE j == sqSlotOf(u)
    <3>1. /\ sqPos(i) < sqPos(j) /\ sqPos(j) \in Nat /\ sqPos(i) \in Nat
          /\ sqPos(j) <= sqPos(i)
      BY <1>5, <1>7, <1>8, StoreOrder
    <3> QED BY <3>1
  <2>2. i \in drainedTo(a)
    BY <1>5, <1>8 DEF drainedTo
  <2>3. drainedTo(a) \in SUBSET sqActive
    BY DEF drainedTo
  <2> DEFINE y == sqYoungest(drainedTo(a))
  <2>4. y \in drainedTo(a) /\ sqPos(i) <= sqPos(y)
    BY <2>2, <2>3, YoungestStore
  <2> HIDE DEF y
  <2>5. y \in sqActive /\ SQqueue[y].isCommitted /\ SQqueue[y].address = a
    BY <2>4 DEF drainedTo
  <2>6. y \in before
    BY <1>6, <2>5
  <2>7. y \in SqSlots /\ i \in SqSlots /\ sqHead \in 0 .. SqCap - 1
    BY <1>5, <2>5, StoreSlots, QueueTerms DEF QInv, QueueTypes
  <2>8. /\ sqPos(y) \in 0 .. SqCap - 1 /\ sqPos(i) \in 0 .. SqCap - 1
        /\ sqPos(y) = sqPos(i) => y = i
    BY <2>7, QueueTerms, PosFacts
  <2>9. SQqueue[y].isAddressReady
    <3> SUFFICES ASSUME ~SQqueue[y].isAddressReady PROVE FALSE
      OBVIOUS
    <3>1. sqPos(y) < sqPos(i)
      BY <1>1, <1>3, <2>6
    <3> QED BY <2>4, <2>8, <3>1
  <2>10. sqPos(y) <= sqPos(i)
    BY <1>3, <1>4, <2>5, <2>6, <2>9
  <2>11. y = i
    BY <2>4, <2>8, <2>10
  <2>12. refMem[a] = SQqueue[y].value
    BY <1>2, <2>2 DEF MemoryInOrder, committedAt, drainedTo, y
  <2> QED BY <1>1, <2>1, <2>11, <2>12 DEF Right
<1>9. CASE ~SQqueue[i].isCommitted
  <2> DEFINE s == SQqueue[i].robTag
  <2>1. s \in liveOf("STORE") /\ s \in LiveTags /\ sqSlotOf(s) = i
    BY <1>5, <1>9, StoreSlots DEF liveOf
  <2>2. instr(s).addr = a /\ v = entry(s).pc
    BY <1>1, <1>5, <2>1 DEF StoresSound
  <2>3. ~isOlder(t, s)
    <3>1. sqPos(i) <= sqPos(i)
      BY <1>5, <1>9, StoreOrder
    <3> QED BY <1>5, <1>9, <3>1 DEF storesBefore, isYounger
  <2>4. s # t
    BY <1>2, <2>1 DEF liveOf
  <2> HIDE DEF s
  <2>5. dist(head, s) < dist(head, t)
    BY <1>2, <2>1, <2>3, <2>4, LiveOlder
  <2>6. s \in olderStores(t)
    BY <2>1, <2>2, <2>5 DEF olderStores
  <2>7. \A u \in olderStores(t) : dist(head, u) <= dist(head, s)
    BY <1>5, <1>7, <1>9, StoreOrder DEF s
  <2> QED BY <2>2, <2>6, <2>7 DEF Right
<1> QED BY <1>8, <1>9

-----------------------------------------------------------------------------
(* What the cache is asked.                                                *)

(* The load of the cycle waits for the cache, is live, and no older store  *)
(* is known to write its address; nothing committed is left in the store   *)
(* queue, so that memory is up to date (MemArbiter::arbitrate).            *)
LEMMA SentLoad ==
    ASSUME QInv, StoresSound, MemoryInOrder, MemDispatch.op = "Load"
    PROVE  LET i == MemDispatch.slot
           IN  /\ i \in lqActive /\ pending = {}
               /\ LQqueue[i].isAddressReady /\ LQqueue[i].valueState = "NOTREADY"
               /\ live(LQqueue[i].robTag)
               /\ canDispatchLoad(LQqueue[i].address, LQqueue[i].robTag)
               /\ MemRequest(MemDispatch).op = "Load"
               /\ MemRequest(MemDispatch).block = LQqueue[i].address
               /\ MemRequest(MemDispatch).id = [slot |-> i, robTag |-> LQqueue[i].robTag]
               /\ \A a \in Addrs : refMem[a] = memory[a][0]
<1> DEFINE i == MemDispatch.slot
<1>1. ~headStoreGoes /\ loadGoes # {}
  BY DEF MemDispatch, noneSent
<1>2. MemDispatch = [op |-> "Load", slot |-> CHOOSE k \in loadGoes : TRUE]
  BY <1>1 DEF MemDispatch
<1>3. i \in loadGoes
  BY <1>1, <1>2
<1>4. /\ i \in lqActive /\ pending = {}
      /\ LQqueue[i].isAddressReady /\ LQqueue[i].valueState = "NOTREADY"
      /\ live(LQqueue[i].robTag)
      /\ canDispatchLoad(LQqueue[i].address, LQqueue[i].robTag)
  BY <1>3 DEF loadGoes, LoadDetect, lqOldest
<1>5. /\ MemRequest(MemDispatch).op = "Load"
      /\ MemRequest(MemDispatch).block = LQqueue[i].address
      /\ MemRequest(MemDispatch).id = [slot |-> i, robTag |-> LQqueue[i].robTag]
  BY DEF MemRequest
<1>6. \A j \in sqActive : ~SQqueue[j].isCommitted
  <2> SUFFICES ASSUME NEW j \in sqActive, SQqueue[j].isCommitted PROVE FALSE
    OBVIOUS
  <2>1. sqHead \in 0 .. SqCap - 1 /\ sqTail \in 0 .. SqCap - 1 /\ j \in 0 .. SqCap - 1
    BY StoreSlots, QueueTerms DEF QInv, QueueTypes
  <2>2. /\ sqPos(j) \in 0 .. SqCap - 1 /\ sqPos(sqHead) = 0
        /\ sqPos(sqTail) \in 0 .. SqCap - 1
    BY <2>1, QueueTerms, PosFacts
  <2>3. sqPos(j) < sqPos(sqTail)
    BY DEF sqActive
  <2>4. sqHead \in sqActive
    BY <2>1, <2>2, <2>3 DEF sqActive, SqSlots
  <2>5. SQqueue[sqHead].isCommitted
    <3> SUFFICES ASSUME ~SQqueue[sqHead].isCommitted PROVE FALSE
      OBVIOUS
    <3>1. sqPos(j) < sqPos(sqHead)
      BY <2>4, StoreOrder
    <3> QED BY <2>2, <3>1
  <2>6. ~sqIsEmpty
    BY <2>2, <2>3 DEF sqIsEmpty
  <2> QED BY <1>1, <1>4, <2>4, <2>5, <2>6 DEF headStoreGoes, sqIsCommitted
<1>7. ASSUME NEW a \in Addrs PROVE refMem[a] = memory[a][0]
  <2>1. drainedTo(a) = {} /\ behind(a) = memory[a][0]
    BY <1>4, <1>6 DEF drainedTo, behind, parkedFor
  <2> QED BY <2>1 DEF MemoryInOrder, committedAt, drainedTo, behind, parkedFor
<1> QED BY <1>4, <1>5, <1>7

(* The AGU gives a load its own address (memIndex).                        *)
LEMMA LoadAddressFacts ==
    ASSUME QInv, NEW i \in DOMAIN loadAddress
    PROVE  /\ i \in lqActive /\ LQqueue[i].robTag \in liveOf("LOAD")
           /\ loadAddress[i] = instr(LQqueue[i].robTag).addr
<1> DEFINE u == CHOOSE t \in aguOut("LOAD") : lqSlotOf(t) = i
<1>1. u \in aguOut("LOAD") /\ lqSlotOf(u) = i
  BY DEF loadAddress
<1>2. loadAddress[i] = instr(u).addr
  BY DEF loadAddress
<1> HIDE DEF u
<1>3. u \in agu /\ instr(u).kind = "LOAD"
  BY <1>1 DEF aguOut, aguHead
<1>4. u \in liveOf("LOAD")
  BY <1>3 DEF QInv, StationsLive, liveOf
<1> QED BY <1>1, <1>2, <1>4, LoadSlots

-----------------------------------------------------------------------------
(* One cycle: the entries of the load queue.                               *)

(* writeValue: the entry takes the value and keeps the rest.               *)
LEMMA ValueTaken ==
    ASSUME NEW e \in LoadEntry, NEW v \in Int
    PROVE  /\ withValue(e, v) \in LoadEntry
           /\ withValue(e, v).robTag = e.robTag
           /\ withValue(e, v).address = e.address
           /\ withValue(e, v).value = v
           /\ withValue(e, v).valueState = "READY"
BY DEF withValue, LoadEntry, ValueState

sentLoad(i) == MemDispatch.op = "Load" /\ MemDispatch.slot = i

answered(i) ==
    /\ loadResp.valid /\ loadResp.id.slot = i
    /\ loadResp.id.robTag = LQqueue[i].robTag

(* LQ::tick on one slot: the load is sent to the cache, or takes the       *)
(* answer of the cache, the reply of the store queue or a broadcast, or    *)
(* keeps what it has.                                                      *)
LEMMA LoadValueStep ==
    ASSUME QInv, NEW pkt, NEW dispatch, NEW vals, NEW brs,
           StepOf(pkt, dispatch, vals, brs), NEW i \in lqActive
    PROVE  /\ LQqueue'[i].address = IF i \in DOMAIN loadAddress THEN loadAddress[i]
                                    ELSE LQqueue[i].address
           /\ \/ sentLoad(i) /\ LQqueue'[i].valueState = "FETCHING"
              \/ sentLoad(i) /\ LQqueue'[i].valueState = "READY" /\ answered(i)
              \/ /\ ~sentLoad(i) /\ LQqueue[i].valueState = "FETCHING" /\ answered(i)
                 /\ LQqueue'[i].valueState = "READY"
                 /\ LQqueue'[i].value = loadResp.value[0]
              \/ /\ ~sentLoad(i) /\ i \in DOMAIN loadAddress
                 /\ LQqueue'[i].valueState = "READY"
                 /\ LQqueue'[i].value
                      \in replyToLoadRequest(loadAddress[i], LQqueue[i].robTag)
              \/ /\ ~sentLoad(i) /\ LQqueue'[i].valueState = "READY"
                 /\ \E n \in storeNotifies(vals) :
                      forwardsTo(n, LQqueue[i]) /\ LQqueue'[i].value = n.value
              \/ /\ ~sentLoad(i)
                 /\ LQqueue'[i].valueState = LQqueue[i].valueState
                 /\ LQqueue'[i].value = LQqueue[i].value
<1> DEFINE push == pkt.valid /\ curr.kind = "LOAD"
           sent == IF MemDispatch.op = "Load" THEN {MemDispatch.slot} ELSE {}
           q0 == lqPushed(pkt, push)
           q1 == lqForwarded(q0, storeNotifies(vals))
           q2 == lqAddressed(q1, loadAddress)
           q3 == lqFetching(q2, sent)
           q4 == lqAnswered(q3, loadResp)
           o == LQqueue[i]
           from == {n \in storeNotifies(vals) : forwardsTo(n, o)}
           fv == (CHOOSE n \in from : TRUE).value
<1>1. LQqueue' = lqBroadcast(q4, lqCDB(squashDetect))
  BY DEF StepOf, Cycle, LQtick
<1>2. i \in LqSlots /\ o \in LoadEntry /\ i # lqTail
  BY LoadSlots, LoadStep
<1>3. q0[i] = o
  BY <1>2 DEF lqPushed, QInv, QueueTypes
<1> HIDE DEF q0
<1>4. q1[i] = IF from # {} THEN withValue(o, fv) ELSE o
  <2> DEFINE from0 == {n \in storeNotifies(vals) : forwardsTo(n, q0[i])}
  <2>1. q1[i] = IF i \in lqActive /\ from0 # {}
                  THEN withValue(q0[i], (CHOOSE n \in from0 : TRUE).value) ELSE q0[i]
    BY <1>2 DEF lqForwarded
  <2>2. from0 = from
    BY <1>3
  <2> HIDE DEF from0, from, q1
  <2> QED BY <1>3, <2>1, <2>2
<1> HIDE DEF q1
<1> DEFINE e == [q1[i] EXCEPT !.address = loadAddress[i], !.isAddressReady = TRUE]
           reply == replyToLoadRequest(loadAddress[i], e.robTag)
           rv == CHOOSE x \in reply : TRUE
<1>5. q2[i] = IF i \in DOMAIN loadAddress
                THEN IF reply = {} THEN e ELSE withValue(e, rv)
                ELSE q1[i]
  BY <1>2 DEF lqAddressed
<1> HIDE DEF q2
<1>6. q3[i] = IF i \in sent THEN [q2[i] EXCEPT !.valueState = "FETCHING"] ELSE q2[i]
  BY <1>2 DEF lqFetching
<1> HIDE DEF q3
<1>7. q4[i] = IF /\ loadResp.valid /\ loadResp.id.slot = i
                 /\ q3[i].robTag = loadResp.id.robTag
                 /\ q3[i].valueState = "FETCHING"
                THEN withValue(q3[i], loadResp.value[0]) ELSE q3[i]
  BY <1>2 DEF lqAnswered
<1> HIDE DEF q4
<1>8. /\ program \in Programs /\ vals \in SUBSET valRS
      /\ answer.valid => answer.value[0] \in Int
  BY DEF QInv, QueueTypes, MemoryTypes, StepOf
(* Broadcast. *)
<1>9. /\ q1[i] \in LoadEntry /\ q1[i].robTag = o.robTag
      /\ q1[i].address = o.address
      /\ \/ q1[i] = o
         \/ /\ q1[i].valueState = "READY"
            /\ \E n \in storeNotifies(vals) : forwardsTo(n, o) /\ q1[i].value = n.value
  <2>1. CASE from = {}
    BY <1>2, <1>4, <2>1
  <2>2. CASE from # {}
    <3>1. fv \in Int /\ \E n \in storeNotifies(vals) : forwardsTo(n, o) /\ fv = n.value
      <4>1. (CHOOSE n \in from : TRUE) \in from
        BY <2>2
      <4> QED BY <1>8, <4>1, ForwardedValues
    <3> HIDE DEF from, fv
    <3>2. q1[i] = withValue(o, fv)
      BY <1>4, <2>2
    <3> QED BY <1>2, <3>1, <3>2, ValueTaken
  <2> QED BY <2>1, <2>2
<1> HIDE DEF from, fv
(* Address and reply. *)
<1>10. /\ q2[i] \in LoadEntry /\ q2[i].robTag = o.robTag
       /\ q2[i].address = IF i \in DOMAIN loadAddress THEN loadAddress[i] ELSE o.address
       /\ \/ q2[i].valueState = q1[i].valueState /\ q2[i].value = q1[i].value
          \/ /\ i \in DOMAIN loadAddress /\ q2[i].valueState = "READY"
             /\ q2[i].value \in replyToLoadRequest(loadAddress[i], o.robTag)
  <2>1. CASE i \notin DOMAIN loadAddress
    BY <1>5, <1>9, <2>1
  <2>2. CASE i \in DOMAIN loadAddress
    <3>1. loadAddress[i] \in Addrs
      BY <1>8, <2>2, WriteFacts
    <3>2. /\ e \in LoadEntry /\ e.robTag = o.robTag /\ e.address = loadAddress[i]
          /\ e.valueState = q1[i].valueState /\ e.value = q1[i].value
      BY <1>9, <3>1 DEF LoadEntry
    <3>3. reply \in SUBSET Int
      BY <1>8, ForwardedValues
    <3>4. reply # {} =>
            /\ rv \in Int
            /\ rv \in replyToLoadRequest(loadAddress[i], o.robTag)
      BY <3>2, <3>3
    <3>5. q2[i] = IF reply = {} THEN e ELSE withValue(e, rv)
      BY <1>5, <2>2
    <3> HIDE DEF e, reply, rv
    <3>6. CASE reply = {}
      BY <2>2, <3>2, <3>5, <3>6
    <3>7. CASE reply # {}
      BY <2>2, <3>2, <3>4, <3>5, <3>7, ValueTaken
    <3> QED BY <3>6, <3>7
  <2> QED BY <2>1, <2>2
<1> HIDE DEF e, reply, rv
(* Fetching. *)
<1>11. /\ q3[i] \in LoadEntry /\ q3[i].robTag = o.robTag
       /\ q3[i].address = q2[i].address /\ q3[i].value = q2[i].value
       /\ q3[i].valueState = IF sentLoad(i) THEN "FETCHING" ELSE q2[i].valueState
  <2>1. i \in sent <=> sentLoad(i)
    BY DEF sentLoad
  <2> HIDE DEF sent
  <2>2. CASE i \in sent
    BY <1>6, <1>10, <2>1, <2>2 DEF LoadEntry, ValueState
  <2>3. CASE i \notin sent
    BY <1>6, <1>10, <2>1, <2>3
  <2> QED BY <2>2, <2>3
<1> HIDE DEF sent
(* Answer. *)
<1>12. /\ q4[i] \in LoadEntry /\ q4[i].address = q3[i].address
       /\ \/ q4[i] = q3[i]
          \/ /\ q3[i].valueState = "FETCHING" /\ answered(i)
             /\ q4[i].valueState = "READY" /\ q4[i].value = loadResp.value[0]
  <2>1. CASE /\ loadResp.valid /\ loadResp.id.slot = i
             /\ q3[i].robTag = loadResp.id.robTag
             /\ q3[i].valueState = "FETCHING"
    <3>1. q4[i] = withValue(q3[i], loadResp.value[0])
      BY <1>7, <2>1
    <3>2. loadResp.value[0] \in Int
      BY <1>8, <2>1 DEF loadResp, Memory!NoResponse
    <3>3. answered(i)
      BY <1>11, <2>1 DEF answered
    <3> QED BY <1>11, <2>1, <3>1, <3>2, <3>3, ValueTaken
  <2>2. CASE ~(/\ loadResp.valid /\ loadResp.id.slot = i
               /\ q3[i].robTag = loadResp.id.robTag
               /\ q3[i].valueState = "FETCHING")
    <3>1. q4[i] = q3[i]
      BY <1>7, <2>2, Zenon
    <3> QED BY <1>11, <3>1
  <2> QED BY <2>1, <2>2
<1>13. /\ LQqueue'[i].address = q4[i].address
       /\ LQqueue'[i].value = q4[i].value
       /\ LQqueue'[i].valueState = q4[i].valueState
  <2>1. \/ LQqueue'[i] = q4[i]
        \/ LQqueue'[i] = [q4[i] EXCEPT !.isCDBBroadcast = TRUE]
    BY <1>1, <1>2 DEF lqBroadcast
  <2> QED BY <1>12, <2>1 DEF LoadEntry
<1>14. LQqueue'[i].address = IF i \in DOMAIN loadAddress THEN loadAddress[i]
                             ELSE o.address
  BY <1>10, <1>11, <1>12, <1>13
<1>15. CASE sentLoad(i)
  BY <1>11, <1>12, <1>13, <1>14, <1>15
<1>16. CASE ~sentLoad(i) /\ q4[i] = q3[i]
  BY <1>9, <1>10, <1>11, <1>13, <1>14, <1>16
<1>17. CASE ~sentLoad(i) /\ q4[i] # q3[i]
  <2>1. /\ q3[i].valueState = "FETCHING" /\ answered(i)
        /\ q4[i].valueState = "READY" /\ q4[i].value = loadResp.value[0]
    BY <1>12, <1>17
  <2>2. q2[i].valueState = "FETCHING"
    BY <1>11, <1>17, <2>1
  <2>3. o.valueState = "FETCHING"
    BY <1>9, <1>10, <2>2
  <2> QED BY <1>13, <1>14, <1>17, <2>1, <2>3
<1> QED BY <1>15, <1>16, <1>17

-----------------------------------------------------------------------------
(* One cycle: the right value.                                             *)

(* An instruction that is live before and after a cycle.                   *)
LEMMA StaysLive ==
    ASSUME QInv, NEW pkt, NEW dispatch, NEW vals, NEW brs,
           StepOf(pkt, dispatch, vals, brs),
           NEW t \in LiveTags, t \in LiveTags'
    PROVE  /\ kept(t) /\ (willCommit(squashDetect) => t # head)
           /\ dist(head', t) = dist(head, t) - (IF willCommit(squashDetect) THEN 1 ELSE 0)
<1>1. kept(t) /\ (willCommit(squashDetect) => t # head)
  BY LiveStep, LiveFacts
<1>2. /\ willCommit(squashDetect) => head' = robNextTag(head)
      /\ ~willCommit(squashDetect) => head' = head
  BY WindowStep DEF StepOf, Cycle
<1>3. head \in RobTags /\ t \in RobTags /\ dist(head, t) \in Nat
  BY LiveFacts DEF QInv, QueueTypes
<1>4. dist(robNextTag(head), t) = IF head = t THEN 2 * RobCap - 1 ELSE dist(head, t) - 1
  BY <1>3, DistPop
<1>5. CASE willCommit(squashDetect)
  BY <1>1, <1>2, <1>4, <1>5
<1>6. CASE ~willCommit(squashDetect)
  BY <1>1, <1>2, <1>3, <1>6
<1> QED BY <1>5, <1>6

(* A cycle takes from the older stores of a load that stays live only the  *)
(* one that commits, and adds none.                                        *)
LEMMA OlderStoresStep ==
    ASSUME QInv, StoresSound, NEW pkt, NEW dispatch, NEW vals, NEW brs,
           StepOf(pkt, dispatch, vals, brs),
           NEW t \in LiveTags, t \in LiveTags'
    PROVE  /\ \A s : s \in olderStores(t)' <=>
                       (/\ s \in olderStores(t)
                        /\ willCommit(squashDetect) => s # head)
           /\ \A s \in olderStores(t)' : s \in LiveTags /\ s \in LiveTags'
<1>1. ASSUME NEW s \in olderStores(t), willCommit(squashDetect) => s # head
      PROVE  s \in olderStores(t)' /\ s \in LiveTags /\ s \in LiveTags'
  <2>1. /\ s \in LiveTags /\ instr(s).kind = "STORE" /\ instr(s).addr = instr(t).addr
        /\ dist(head, s) \in Nat /\ dist(head, t) \in Nat
        /\ dist(head, s) < dist(head, t)
    BY OlderStore DEF liveOf
  <2>2. kept(s)
    <3>1. CASE squashDetect.needSquash
      <4> DEFINE d == dist(head, squashDetect.SquashTag)
      <4>1. /\ kept(t) <=> dist(head, t) <= d
            /\ kept(s) <=> dist(head, s) <= d
        BY <2>1, <3>1, SquashAges
      <4>2. kept(t) /\ d \in Nat
        BY <3>1, StaysLive, SquashFacts, LiveFacts
      <4> HIDE DEF d
      <4> QED BY <2>1, <4>1, <4>2
    <3>2. CASE ~squashDetect.needSquash
      BY <3>2 DEF kept
    <3> QED BY <3>1, <3>2
  <2>3. s \in LiveTags'
    BY <1>1, <2>1, <2>2, KeptLive
  <2>4. instr(s)' = instr(s) /\ instr(t)' = instr(t)
    BY <2>1, LiveStep
  <2>5. dist(head', s) < dist(head', t)
    <3>1. /\ dist(head', s) = dist(head, s) - (IF willCommit(squashDetect) THEN 1 ELSE 0)
          /\ dist(head', t) = dist(head, t) - (IF willCommit(squashDetect) THEN 1 ELSE 0)
      BY <2>1, <2>3, StaysLive
    <3> QED BY <2>1, <3>1
  <2> QED BY <2>1, <2>3, <2>4, <2>5 DEF olderStores, liveOf
<1>2. ASSUME NEW s \in olderStores(t)'
      PROVE  /\ s \in olderStores(t) /\ (willCommit(squashDetect) => s # head)
             /\ s \in LiveTags /\ s \in LiveTags'
  <2>1. /\ s \in LiveTags' /\ instr(s)'.kind = "STORE"
        /\ instr(s)'.addr = instr(t)'.addr
        /\ dist(head', s) < dist(head', t)
    BY DEF olderStores, liveOf
  <2>2. s \in LiveTags
    <3> SUFFICES ASSUME pkt.valid, s = next_tag PROVE FALSE
      BY <2>1, LiveStep
    <3>1. ~squashDetect.needSquash /\ dist(head, next_tag) < RobCap
      BY PacketFacts DEF StepOf
    <3>2. /\ head \in RobTags /\ next_tag \in RobTags /\ t \in RobTags
          /\ dist(head, t) \in Nat /\ dist(head, t) < dist(head, next_tag)
          /\ dist(head, next_tag) \in Nat
      BY LiveFacts DEF QInv, QueueTypes
    <3>3. /\ willCommit(squashDetect) => head' = robNextTag(head)
          /\ ~willCommit(squashDetect) => head' = head
      BY WindowStep DEF StepOf, Cycle
    <3>4. /\ dist(robNextTag(head), next_tag) =
               IF head = next_tag THEN 2 * RobCap - 1 ELSE dist(head, next_tag) - 1
          /\ head # next_tag
      BY <3>2, DistPop, LiveFacts
    <3>5. dist(head', t) = dist(head, t) - (IF willCommit(squashDetect) THEN 1 ELSE 0)
      BY StaysLive
    <3>6. dist(head', s) = dist(head, next_tag) - (IF willCommit(squashDetect) THEN 1 ELSE 0)
      <4>1. CASE willCommit(squashDetect)
        BY <3>3, <3>4, <4>1
      <4>2. CASE ~willCommit(squashDetect)
        BY <3>2, <3>3, <4>2
      <4> QED BY <4>1, <4>2
    <3> QED BY <2>1, <3>2, <3>5, <3>6
  <2>3. /\ instr(s)' = instr(s) /\ instr(t)' = instr(t)
        /\ willCommit(squashDetect) => s # head
    BY <2>1, <2>2, LiveStep, StaysLive
  <2>4. dist(head, s) < dist(head, t)
    <3>1. /\ dist(head', s) = dist(head, s) - (IF willCommit(squashDetect) THEN 1 ELSE 0)
          /\ dist(head', t) = dist(head, t) - (IF willCommit(squashDetect) THEN 1 ELSE 0)
      BY <2>1, <2>2, StaysLive
    <3>2. dist(head, s) \in Nat /\ dist(head, t) \in Nat
      BY <2>2, LiveFacts
    <3> QED BY <2>1, <3>1, <3>2
  <2> QED BY <2>1, <2>2, <2>3, <2>4 DEF olderStores, liveOf
<1> QED BY <1>1, <1>2

(* What is right for a load stays right: the store that commits takes its  *)
(* value to the committed memory with it.                                  *)
LEMMA RightStays ==
    ASSUME QInv, StoresSound, NEW pkt, NEW dispatch, NEW vals, NEW brs,
           StepOf(pkt, dispatch, vals, brs),
           NEW t \in liveOf("LOAD"), t \in LiveTags', NEW v, Right(t, v)
    PROVE  Right(t, v)'
<1>1. /\ t \in LiveTags /\ instr(t)' = instr(t) /\ instr(t).addr \in Addrs
  <2>1. t \in LiveTags /\ instr(t).kind = "LOAD"
    BY DEF liveOf
  <2>2. entry(t).pc \in 1 .. Len(program) /\ program \in Programs
    BY <2>1, LiveFacts DEF LiveEntry, QInv, QueueTypes
  <2> QED BY <2>1, <2>2, ProgramFacts, LiveStep DEF instr
<1>2. /\ \A s : s \in olderStores(t)' <=>
                       (/\ s \in olderStores(t)
                        /\ willCommit(squashDetect) => s # head)
      /\ \A s \in olderStores(t)' : s \in LiveTags /\ s \in LiveTags'
  BY <1>1, OlderStoresStep
<1>3. /\ refMem' = IF storeWillCommit(squashDetect)
                    THEN [refMem EXCEPT ![instr(head).addr] = entry(head).pc]
                    ELSE refMem
      /\ refMem \in [Addrs -> Int]
  BY DEF StepOf, Cycle, HistoryTick, QInv, MemoryTypes
<1>4. \A s \in LiveTags : entry(s)'.pc = entry(s).pc
  BY LiveStep
<1>5. storeWillCommit(squashDetect) /\ instr(head).addr = instr(t).addr
        => head \in olderStores(t)
  <2> SUFFICES ASSUME storeWillCommit(squashDetect), instr(head).addr = instr(t).addr
               PROVE  head \in olderStores(t)
    OBVIOUS
  <2>1. willCommit(squashDetect) /\ head \in liveOf("STORE")
    BY CommittingStore
  <2>2. head # t
    BY <1>1, <2>1, StaysLive
  <2>3. dist(head, head) = 0 /\ dist(head, t) \in Nat /\ dist(head, t) # 0
    <3>1. head \in RobTags /\ t \in RobTags /\ dist(head, t) \in Nat
      BY <1>1, LiveFacts DEF QInv, QueueTypes
    <3> QED BY <2>2, <3>1, DistFacts
  <2> QED BY <2>1, <2>3 DEF olderStores
<1>6. CASE olderStores(t) = {} /\ v = refMem[instr(t).addr]
  <2>1. olderStores(t)' = {}
    BY <1>2, <1>6
  <2>2. refMem'[instr(t).addr] = refMem[instr(t).addr]
    BY <1>1, <1>3, <1>5, <1>6
  <2> QED BY <1>1, <1>6, <2>1, <2>2 DEF Right
<1>7. ASSUME NEW s \in olderStores(t), v = entry(s).pc,
             \A u \in olderStores(t) : dist(head, u) <= dist(head, s)
      PROVE  Right(t, v)'
  <2>1. CASE willCommit(squashDetect) /\ s = head
    <3>1. ASSUME NEW u \in olderStores(t) PROVE u = head
      <4>1. u \in LiveTags /\ head \in LiveTags
        BY <1>1, <2>1, OlderStore
      <4>2. u \in RobTags /\ head \in RobTags /\ dist(head, u) \in Nat
        BY <4>1, LiveFacts
      <4>3. dist(head, head) = 0 /\ (dist(head, u) = 0 <=> head = u)
        BY <4>2, DistFacts
      <4>4. dist(head, u) <= dist(head, head)
        BY <1>7, <2>1
      <4> QED BY <4>2, <4>3, <4>4
    <3>2. olderStores(t)' = {}
      BY <1>2, <2>1, <3>1
    <3>3. /\ head \in LiveTags /\ instr(head).kind = "STORE"
          /\ instr(head).addr = instr(t).addr
      BY <1>1, <2>1, OlderStore DEF liveOf
    <3>4. entry(head).type = "STORE"
      BY <3>3 DEF QInv, RobHolds
    <3>5. storeWillCommit(squashDetect)
      BY <2>1, <3>4 DEF storeWillCommit, headEntry, entry
    <3>6. refMem'[instr(t).addr] = entry(head).pc
      BY <1>1, <1>3, <3>3, <3>5
    <3> QED BY <1>1, <1>7, <2>1, <3>2, <3>6 DEF Right
  <2>2. CASE ~(willCommit(squashDetect) /\ s = head)
    <3>1. s \in olderStores(t)' /\ s \in LiveTags /\ s \in LiveTags'
      BY <1>2, <2>2
    <3>2. ASSUME NEW u \in olderStores(t)' PROVE dist(head', u) <= dist(head', s)
      <4>1. u \in LiveTags /\ u \in LiveTags' /\ u \in olderStores(t)
        BY <1>2
      <4>2. /\ dist(head', u) = dist(head, u) - (IF willCommit(squashDetect) THEN 1 ELSE 0)
            /\ dist(head', s) = dist(head, s) - (IF willCommit(squashDetect) THEN 1 ELSE 0)
        BY <3>1, <4>1, StaysLive
      <4>3. dist(head, u) <= dist(head, s) /\ dist(head, u) \in Nat /\ dist(head, s) \in Nat
        BY <1>7, <3>1, <4>1, LiveFacts
      <4> QED BY <4>2, <4>3
    <3>3. v = entry(s)'.pc
      BY <1>4, <1>7, <3>1
    <3> QED BY <3>1, <3>2, <3>3 DEF Right
  <2> QED BY <2>1, <2>2
<1> QED BY <1>6, <1>7 DEF Right

-----------------------------------------------------------------------------
(* One cycle: the excuses.                                                 *)

(* The history of a load that stays live.                                  *)
LEMMA HistoryStep ==
    ASSUME QInv, NEW pkt, NEW dispatch, NEW vals, NEW brs,
           StepOf(pkt, dispatch, vals, brs),
           NEW t \in liveOf("LOAD"), t \in LiveTags'
    PROVE  /\ t \in replayed => t \in replayed'
           /\ squashDetect.needSquash /\ t = squashDetect.SquashTag => t \in replayed'
           /\ \A r : <<t, r>> \in exposed => <<t, r>> \in exposed'
           /\ MemDispatch.op = "Load" /\ LQqueue[MemDispatch.slot].robTag = t =>
                \A r \in races(t) : <<t, r>> \in exposed'
<1> DEFINE stays(u) == kept(u) /\ ~(willCommit(squashDetect) /\ u = head)
           squashed == IF squashDetect.needSquash THEN {squashDetect.SquashTag} ELSE {}
           sentTag == LQqueue[MemDispatch.slot].robTag
           raced == IF MemDispatch.op = "Load" THEN {sentTag} \X races(sentTag) ELSE {}
<1>1. /\ replayed' = {u \in replayed \cup squashed : stays(u) /\ instr(u).kind = "LOAD"}
      /\ exposed' = {x \in exposed \cup raced : stays(x[1])}
  BY DEF StepOf, Cycle, HistoryTick
<1>2. t \in LiveTags /\ instr(t).kind = "LOAD"
  BY DEF liveOf
<1>3. stays(t)
  BY <1>2, StaysLive
<1> HIDE DEF stays
<1>4. \A r : stays(<<t, r>>[1])
  BY <1>3
<1>5. \A r : <<t, r>> \in exposed \cup raced => <<t, r>> \in exposed'
  BY <1>1, <1>4
<1> QED BY <1>1, <1>2, <1>3, <1>5

(* The oldest violated load asks for a squash (FlushArbiter::tick).        *)
LEMMA ViolationAsks ==
    ASSUME QInv, NEW pkt, NEW dispatch, NEW vals, NEW brs,
           StepOf(pkt, dispatch, vals, brs), NEW j \in violations
    PROVE  \E r \in requests' : ~isOlder(LQqueue[j].robTag, r.SquashTag)
<1>1. violations \in SUBSET lqActive /\ violations # {}
  BY ViolatedLive
<1>2. PICK i \in lqOldest(violations) :
        i \in violations /\ \A k \in violations : lqPos(i) <= lqPos(k)
  BY <1>1, OldestLoad
<1>3. /\ i \in lqActive /\ LQqueue[i].robTag \in LiveTags
      /\ j \in lqActive /\ LQqueue[j].robTag \in LiveTags
  BY <1>2, ViolatedLive DEF liveOf
<1>4. dist(head, LQqueue[i].robTag) <= dist(head, LQqueue[j].robTag)
  BY <1>2, <1>3, LoadOrder
<1>5. ~isOlder(LQqueue[j].robTag, LQqueue[i].robTag)
  <2>1. /\ isOlder(LQqueue[j].robTag, LQqueue[i].robTag)
             <=> dist(head, LQqueue[j].robTag) < dist(head, LQqueue[i].robTag)
        /\ dist(head, LQqueue[j].robTag) \in Nat /\ dist(head, LQqueue[i].robTag) \in Nat
    BY <1>3, LiveOlder
  <2> QED BY <1>4, <2>1
<1> DEFINE r == [SquashTag |-> LQqueue[i].robTag,
                 SquashPC |-> entry(LQqueue[i].robTag).pc]
<1>6. r \in requests'
  BY <1>2, Zenon DEF StepOf, Cycle, FlushTick
<1> QED BY <1>5, <1>6

(* A load that has got a value, or has asked for one, keeps its excuse: a  *)
(* store that turns out to write its address finds it, and raises a squash *)
(* at it or at an older load; a squash at an older instruction takes it    *)
(* out of the ROB, one at the load itself marks it replayed.               *)
LEMMA ExcusedStays ==
    ASSUME QInv, StoresSound, NEW pkt, NEW dispatch, NEW vals, NEW brs,
           StepOf(pkt, dispatch, vals, brs),
           NEW t \in liveOf("LOAD"), t \in LiveTags', Excused(t),
           LQqueue[lqSlotOf(t)].isAddressReady,
           LQqueue[lqSlotOf(t)].address = instr(t).addr,
           LQqueue[lqSlotOf(t)].valueState \in {"READY", "FETCHING"}
    PROVE  Excused(t)'
<1>1. t \in LiveTags /\ instr(t).kind = "LOAD" /\ LQqueue[lqSlotOf(t)].robTag = t
      /\ lqSlotOf(t) \in lqActive
  BY LoadSlots DEF liveOf
<1>2. CASE t \in replayed \/ \E r \in Races : <<t, r>> \in exposed
  BY <1>2, HistoryStep DEF Excused
<1>3. ASSUME squashDetect.needSquash, ~live(t)
      PROVE  Excused(t)'
  <2> DEFINE s == squashDetect.SquashTag
  <2>1. s \in LiveTags /\ kept(t)
    BY <1>1, <1>3, SquashFacts, StaysLive
  <2>2. dist(head, t) <= dist(head, s) /\ ~(dist(head, t) < dist(head, s))
    BY <1>1, <1>3, <2>1, SquashAges
  <2>3. /\ dist(head, t) \in Nat /\ dist(head, s) \in Nat
        /\ dist(head, t) = dist(head, s) => t = s
    BY <1>1, <2>1, LiveOlder
  <2> HIDE DEF s
  <2>4. t = s
    BY <2>2, <2>3
  <2> QED BY <1>3, <2>4, HistoryStep DEF Excused, s
<1>4. CASE recalled(t)
  <2>1. PICK r \in requests : ~isOlder(t, r.SquashTag)
    BY <1>4 DEF recalled
  <2> DEFINE s == squashDetect.SquashTag
             u == r.SquashTag
  <2>2. /\ squashDetect.needSquash /\ s \in LiveTags /\ ~isOlder(u, s)
        /\ u \in LiveTags
    BY <2>1, SquashFacts DEF QInv, RequestsLive
  <2>3. /\ isOlder(u, s) <=> dist(head, u) < dist(head, s)
        /\ isOlder(t, u) <=> dist(head, t) < dist(head, u)
        /\ isOlder(t, s) <=> dist(head, t) < dist(head, s)
        /\ dist(head, u) \in Nat /\ dist(head, s) \in Nat /\ dist(head, t) \in Nat
    BY <1>1, <2>2, LiveOlder
  <2>4. ~isOlder(t, u)
    BY <2>1
  <2>5. live(t) => isOlder(t, s)
    BY <2>2 DEF live, survives
  <2> HIDE DEF s, u
  <2>6. ~isOlder(t, s)
    BY <2>2, <2>3, <2>4
  <2> QED BY <1>3, <2>2, <2>5, <2>6
<1>5. CASE unresolved(t)
  <2>1. PICK u \in olderStores(t) : ~SQqueue[sqSlotOf(u)].isAddressReady
    BY <1>5 DEF unresolved
  <2> DEFINE j == sqSlotOf(u)
  <2>2. /\ u \in LiveTags /\ instr(u).kind = "STORE" /\ instr(u).addr = instr(t).addr
        /\ j \in sqActive /\ SQqueue[j].robTag = u /\ isOlder(u, t)
    BY <1>1, OlderStore DEF liveOf
  <2>3. willCommit(squashDetect) => u # head
    <3> SUFFICES ASSUME willCommit(squashDetect), u = head PROVE FALSE
      OBVIOUS
    <3>1. entry(u).isCommitReady
      BY DEF willCommit, headEntry, entry
    <3>2. SQqueue[sqSlotOf(u)].isAddressReady
      BY <2>2, <3>1 DEF QInv, ReadyComplete, isReadyToCommit
    <3> QED BY <2>1, <3>2
  <2>4. u \in olderStores(t)' /\ sqSlotOf(u)' = j
    BY <1>1, <2>2, <2>3, OlderStoresStep, LiveStep
  <2> HIDE DEF j
  <2>5. CASE j \notin DOMAIN storeAddress
    <3>1. ~SQqueue'[j].isAddressReady
      BY <2>1, <2>2, <2>5, StoreStep DEF j
    <3> QED BY <2>4, <3>1 DEF Excused, unresolved
  <2>6. CASE j \in DOMAIN storeAddress
    <3>1. storeAddress[j] = instr(u).addr
      BY <2>2, <2>6, WriteFacts DEF StepOf
    <3>2. CASE live(t)
      <4>1. matchesTag(t)
        BY <1>1, LiveFacts DEF matchesTag, isEmpty, entry
      <4>2. lqSlotOf(t) \in violations
        BY <1>1, <2>2, <2>6, <3>1, <3>2, <4>1 DEF violations, isYounger
      <4>3. \E r \in requests' : ~isOlder(t, r.SquashTag)
        BY <1>1, <4>2, ViolationAsks
      <4> QED BY <4>3 DEF Excused, recalled
    <3>3. CASE ~live(t)
      BY <1>3, <3>3 DEF live, survives
    <3> QED BY <3>2, <3>3
  <2> QED BY <2>5, <2>6
<1> QED BY <1>2, <1>4, <1>5 DEF Excused

-----------------------------------------------------------------------------
(* One cycle: the cache and the register file.                             *)

(* What a load asks for, and what it is answered, is the memory of the     *)
(* cycle the request is served in.                                         *)
LEMMA CacheAnswers ==
    ASSUME QInv, NEW pkt, NEW dispatch, NEW vals, NEW brs,
           StepOf(pkt, dispatch, vals, brs)
    PROVE  LET asked(r) == \/ r \in pending /\ MemDispatch.op = "None"
                           \/ r = MemRequest(MemDispatch) /\ MemDispatch.op = "Load"
           IN  /\ \A r \in pending' : r.op = "Load" => asked(r) /\ memory' = memory
               /\ answer'.valid =>
                    \E r : /\ r.op = "Load" /\ asked(r)
                           /\ answer'.id = r.id
                           /\ answer'.value[0] = memory[r.block][0]
<1> DEFINE asked(r) == \/ r \in pending /\ MemDispatch.op = "None"
                       \/ r = MemRequest(MemDispatch) /\ MemDispatch.op = "Load"
<1>1. MemTick
  BY DEF StepOf, Cycle
<1>2. ASSUME NEW r, GoodRequest(r), Memory!Serve(r), r.op = "Load" => asked(r)
      PROVE  /\ pending' = {}
             /\ answer'.valid =>
                  \E q : /\ q.op = "Load" /\ asked(q)
                         /\ answer'.id = q.id
                         /\ answer'.value[0] = memory[q.block][0]
  <2>1. CASE r.op = "Load"
    <3>1. pending' = {} /\ answer' = Memory!LoadResponse(r, memory[r.block])
      BY <1>2, <2>1 DEF Memory!Serve
    <3>2. /\ answer'.id = r.id
          /\ answer'.value = Memory!extract(memory[r.block], r)
      BY <3>1 DEF Memory!LoadResponse
    <3>3. Memory!extract(memory[r.block], r)[0] = memory[r.block][0]
      BY <1>2 DEF Memory!extract, GoodRequest
    <3> QED BY <1>2, <2>1, <3>1, <3>2, <3>3
  <2>2. CASE r.op # "Load"
    BY <1>2, <2>2 DEF Memory!Serve, Memory!NoResponse
  <2> QED BY <2>1, <2>2
<1>3. CASE MemDispatch.op # "None"
  <2> DEFINE r == MemRequest(MemDispatch)
  <2>1. GoodRequest(r) /\ pending = {} /\ r.op = MemDispatch.op
    BY <1>3, RequestFacts
  <2>2. CASE Memory!Serve(r)
    BY <1>2, <2>1, <2>2
  <2>3. CASE Memory!Accept(r)
    BY <2>1, <2>3 DEF Memory!Accept, Memory!NoResponse
  <2> QED BY <1>1, <1>3, <2>2, <2>3 DEF MemTick
<1>4. CASE MemDispatch.op = "None"
  <2>1. CASE Memory!Quiet
    BY <1>4, <2>1 DEF Memory!Quiet, Memory!NoResponse
  <2>2. CASE \E r \in pending : Memory!Serve(r)
    <3>1. PICK r \in pending : Memory!Serve(r)
      BY <2>2
    <3>2. GoodRequest(r)
      BY DEF QInv, MemoryTypes
    <3> QED BY <1>2, <1>4, <3>1, <3>2
  <2> QED BY <1>1, <1>4, <2>1, <2>2 DEF MemTick
<1> QED BY <1>3, <1>4

(* A load becomes ready to commit with the broadcast of its value, which   *)
(* is the only one its register takes (CDB, ROB::matchesTag).              *)
LEMMA BroadcastStep ==
    ASSUME QInv, NEW pkt, NEW dispatch, NEW vals, NEW brs,
           StepOf(pkt, dispatch, vals, brs), NEW t \in liveOf("LOAD")
    PROVE  LET i == lqSlotOf(t)
           IN  /\ i \in lqCDB(squashDetect) => LQqueue[i].valueState = "READY"
               /\ t \in robDone(brs) => i \in lqCDB(squashDetect)
               /\ result'[robSlot(t)] = IF i \in lqCDB(squashDetect)
                                          THEN LQqueue[i].value ELSE result[robSlot(t)]
<1> DEFINE i == lqSlotOf(t)
           cdb == {k \in lqCDB(squashDetect) :
                     /\ robSlot(LQqueue[k].robTag) = robSlot(t)
                     /\ matchesTag(LQqueue[k].robTag)}
<1>1. /\ t \in LiveTags /\ instr(t).kind = "LOAD" /\ LQqueue[i].robTag = t
      /\ i \in lqActive /\ robSlot(t) \in RobSlots /\ entry(t).tag = t
      /\ head # next_tag
  BY LoadSlots, LiveFacts DEF liveOf
<1>2. \A k \in lqCDB(squashDetect) :
         /\ k \in lqActive /\ LQqueue[k].valueState = "READY"
         /\ LQqueue[k].robTag = t => k = i
  <2>1. \A k \in lqCDB(squashDetect) : k \in lqActive /\ LQqueue[k].valueState = "READY"
    BY DEF lqCDB, CDBDetect, lqOldest
  <2> QED BY <1>1, <2>1, LoadSlots
<1>3. ASSUME t \in robDone(brs) PROVE i \in lqCDB(squashDetect)
  <2>1. t \notin brs
    <3>1. brs \subseteq brRS
      BY DEF StepOf, AtMostOne
    <3> QED BY <1>1, <3>1 DEF QInv, StationsLive, liveOf
  <2>2. \A j \in sqActive : ~SQqueue[j].isCommitted => SQqueue[j].robTag # t
    BY <1>1, StoreSlots DEF liveOf
  <2>3. t \in {LQqueue[k].robTag : k \in lqCDB(squashDetect)}
    BY <1>3, <2>1, <2>2 DEF robDone
  <2> QED BY <1>2, <2>3
<1>4. \A k \in cdb : k = i
  <2> SUFFICES ASSUME NEW k \in cdb PROVE k = i
    OBVIOUS
  <2>1. ROBqueue[robSlot(t)].tag = LQqueue[k].robTag
    BY DEF matchesTag
  <2> QED BY <1>1, <1>2, <2>1 DEF entry
<1>5. i \in cdb <=> i \in lqCDB(squashDetect)
  BY <1>1 DEF matchesTag, isEmpty, entry
<1>6. result'[robSlot(t)] = IF cdb = {} THEN result[robSlot(t)]
                            ELSE LQqueue[CHOOSE k \in cdb : TRUE].value
  BY <1>1 DEF StepOf, Cycle, PrfTick
<1> HIDE DEF cdb, i
<1>7. CASE i \in lqCDB(squashDetect)
  <2>1. cdb # {} /\ (CHOOSE k \in cdb : TRUE) = i
    BY <1>4, <1>5, <1>7
  <2> QED BY <1>2, <1>3, <1>6, <1>7, <2>1 DEF i
<1>8. CASE i \notin lqCDB(squashDetect)
  <2>1. cdb = {}
    BY <1>4, <1>5, <1>8
  <2> QED BY <1>3, <1>6, <1>8, <2>1 DEF i
<1> QED BY <1>7, <1>8

(* The issued load has nothing yet.                                        *)
LEMMA FreshLoad ==
    ASSUME QInv, StoresSound, MemoryInOrder, NEW pkt, NEW dispatch, NEW vals, NEW brs,
           StepOf(pkt, dispatch, vals, brs), pkt.valid, curr.kind = "LOAD"
    PROVE  /\ LQqueue'[lqTail].valueState = "NOTREADY"
           /\ ~LQqueue'[lqTail].isAddressReady
<1> DEFINE push == pkt.valid /\ curr.kind = "LOAD"
           sent == IF MemDispatch.op = "Load" THEN {MemDispatch.slot} ELSE {}
           q0 == lqPushed(pkt, push)
           q1 == lqForwarded(q0, storeNotifies(vals))
           q2 == lqAddressed(q1, loadAddress)
           q3 == lqFetching(q2, sent)
           q4 == lqAnswered(q3, loadResp)
           fresh == [NoLoad EXCEPT !.robTag = next_tag]
<1>1. /\ LQqueue' = lqBroadcast(q4, lqCDB(squashDetect))
      /\ lqTail \in LqSlots /\ lqTail \notin lqActive
      /\ LQqueue \in [LqSlots -> LoadEntry]
      /\ ~LQqueue'[lqTail].isAddressReady
  BY LoadStep DEF StepOf, Cycle, LQtick, QInv, QueueTypes
<1>2. q0[lqTail] = fresh
  BY <1>1 DEF lqPushed
<1> HIDE DEF q0
<1>3. q1[lqTail] = fresh
  BY <1>1, <1>2 DEF lqForwarded
<1> HIDE DEF q1
<1>4. q2[lqTail] = fresh
  <2>1. lqTail \notin DOMAIN loadAddress
    BY <1>1, LoadAddressFacts
  <2> QED BY <1>1, <1>3, <2>1 DEF lqAddressed
<1> HIDE DEF q2
<1>5. q3[lqTail] = fresh
  <2>1. lqTail \notin sent
    BY <1>1, SentLoad
  <2> QED BY <1>1, <1>4, <2>1 DEF lqFetching
<1> HIDE DEF q3
<1>6. fresh.valueState = "NOTREADY"
  BY DEF NoLoad
<1>7. q4[lqTail] = fresh
  BY <1>1, <1>5, <1>6 DEF lqAnswered
<1> HIDE DEF q4
<1>8. LQqueue'[lqTail].valueState = "NOTREADY"
  <2>1. \/ LQqueue'[lqTail] = fresh
        \/ LQqueue'[lqTail] = [fresh EXCEPT !.isCDBBroadcast = TRUE]
    BY <1>1, <1>7 DEF lqBroadcast
  <2> QED BY <2>1 DEF NoLoad
<1> QED BY <1>1, <1>8

-----------------------------------------------------------------------------
(* One cycle: the loads.                                                   *)

(* A load that is sent to the cache and met no race finds its right value  *)
(* in memory, and the cycle does not give it another one: every older      *)
(* store to its address is known to have left, or to be unresolved.        *)
LEMMA SentRight ==
    ASSUME QInv, StoresSound, MemoryInOrder,
           NEW pkt, NEW dispatch, NEW vals, NEW brs,
           StepOf(pkt, dispatch, vals, brs),
           NEW t \in liveOf("LOAD"), t \in LiveTags', LoadSound(t),
           sentLoad(lqSlotOf(t)), ~Excused(t)'
    PROVE  /\ ~answered(lqSlotOf(t))
           /\ LQqueue[lqSlotOf(t)].address = instr(t).addr
           /\ Right(t, memory[instr(t).addr][0])
<1> DEFINE i == lqSlotOf(t)
           a == instr(t).addr
<1>1. /\ t \in LiveTags /\ i \in lqActive /\ LQqueue[i].robTag = t
      /\ a \in Addrs
  <2>1. t \in LiveTags /\ instr(t).kind = "LOAD"
    BY DEF liveOf
  <2>2. entry(t).pc \in 1 .. Len(program) /\ program \in Programs
    BY <2>1, LiveFacts DEF LiveEntry, QInv, QueueTypes
  <2> QED BY <2>1, <2>2, ProgramFacts, LoadSlots DEF instr
<1>2. /\ MemDispatch.op = "Load" /\ MemDispatch.slot = i
      /\ LQqueue[i].isAddressReady
      /\ canDispatchLoad(LQqueue[i].address, t)
      /\ \A b \in Addrs : refMem[b] = memory[b][0]
  BY <1>1, SentLoad DEF sentLoad
<1>3. LQqueue[i].address = a
  BY <1>2 DEF LoadSound
<1>4. \A r \in races(t) : FALSE
  <2> SUFFICES ASSUME NEW r \in races(t) PROVE FALSE
    OBVIOUS
  <2>1. <<t, r>> \in exposed'
    BY <1>1, <1>2, HistoryStep
  <2>2. r \in Races
    BY DEF races
  <2> QED BY <2>1, <2>2 DEF Excused
<1>5. ~answered(i)
  <2> SUFFICES ASSUME answered(i) PROVE FALSE
    OBVIOUS
  <2>1. "late" \in races(t)
    BY <1>1, <1>2 DEF races, Races, answered
  <2> QED BY <1>4, <2>1
<1>6. olderStores(t) = {}
  <2> SUFFICES ASSUME NEW u \in olderStores(t) PROVE FALSE
    OBVIOUS
  <2> DEFINE j == sqSlotOf(u)
  <2>1. /\ u \in LiveTags /\ instr(u).addr = a /\ instr(u).kind = "STORE"
        /\ j \in sqActive /\ ~SQqueue[j].isCommitted /\ SQqueue[j].robTag = u
        /\ SQqueue[j].isAddressReady => SQqueue[j].address = a
        /\ isOlder(u, t)
    BY <1>1, OlderStore DEF liveOf
  <2> HIDE DEF j
  <2>2. ~SQqueue[j].isAddressReady
    BY <1>2, <1>3, <2>1 DEF canDispatchLoad, sameAddress
  <2>3. j \notin DOMAIN storeAddress
    <3> SUFFICES ASSUME j \in DOMAIN storeAddress PROVE FALSE
      OBVIOUS
    <3>1. storeAddress[j] = a
      BY <2>1, WriteFacts DEF StepOf
    <3>2. "resolving" \in races(t)
      BY <1>2, <1>3, <2>1, <3>1 DEF races, Races
    <3> QED BY <1>4, <3>2
  <2>4. ~SQqueue'[j].isAddressReady
    BY <2>1, <2>2, <2>3, StoreStep
  <2>5. willCommit(squashDetect) => u # head
    <3> SUFFICES ASSUME willCommit(squashDetect), u = head PROVE FALSE
      OBVIOUS
    <3>1. entry(u).isCommitReady
      BY DEF willCommit, headEntry, entry
    <3>2. SQqueue[sqSlotOf(u)].isAddressReady
      BY <2>1, <3>1 DEF QInv, ReadyComplete, isReadyToCommit
    <3> QED BY <2>2, <3>2 DEF j
  <2>6. u \in olderStores(t)' /\ sqSlotOf(u)' = j
    BY <1>1, <2>1, <2>5, OlderStoresStep, LiveStep DEF j
  <2> QED BY <2>4, <2>6 DEF Excused, unresolved
<1> QED BY <1>1, <1>2, <1>3, <1>5, <1>6 DEF Right

(* One load, one cycle.                                                    *)
LEMMA LoadSoundStep ==
    ASSUME QInv, StoresSound, MemoryInOrder,
           NEW pkt, NEW dispatch, NEW vals, NEW brs,
           StepOf(pkt, dispatch, vals, brs),
           NEW t \in liveOf("LOAD"), t \in LiveTags', LoadSound(t)
    PROVE  LoadSound(t)'
<1> DEFINE i == lqSlotOf(t)
           o == LQqueue[i]
           e == LQqueue'[i]
           right2(v) ==
             \/ olderStores(t)' = {} /\ v = refMem'[instr(t)'.addr]
             \/ \E s \in olderStores(t)' :
                  /\ v = entry(s)'.pc
                  /\ \A u \in olderStores(t)' : dist(head', u) <= dist(head', s)
<1>1. /\ t \in LiveTags /\ i \in lqActive /\ o.robTag = t
      /\ vals \in SUBSET valRS
      /\ lqSlotOf(t)' = i /\ instr(t)' = instr(t)
      /\ entry(t)'.isCommitReady => (entry(t).isCommitReady \/ t \in robDone(brs))
  BY LoadSlots, LiveStep DEF liveOf, StepOf
<1>2. /\ o.isAddressReady => o.address = instr(t).addr
      /\ o.valueState # "NOTREADY" => o.isAddressReady
      /\ entry(t).isCommitReady => o.valueState = "READY"
      /\ ~Excused(t) =>
           /\ o.valueState = "READY" => Right(t, o.value)
           /\ o.valueState = "FETCHING" => AskedRight(t) /\ AnswerRight(t)
           /\ entry(t).isCommitReady => Right(t, result[robSlot(t)])
  BY DEF LoadSound
<1>3. /\ e.isAddressReady <=> (o.isAddressReady \/ i \in DOMAIN loadAddress)
      /\ e.address = IF i \in DOMAIN loadAddress THEN loadAddress[i] ELSE o.address
      /\ i \in DOMAIN loadAddress => loadAddress[i] = instr(t).addr
  BY <1>1, LoadStep, LoadValueStep, LoadAddressFacts
<1>4. \/ sentLoad(i) /\ e.valueState = "FETCHING"
      \/ sentLoad(i) /\ e.valueState = "READY" /\ answered(i)
      \/ /\ ~sentLoad(i) /\ o.valueState = "FETCHING" /\ answered(i)
         /\ e.valueState = "READY"
         /\ e.value = loadResp.value[0]
      \/ /\ ~sentLoad(i) /\ i \in DOMAIN loadAddress
         /\ e.valueState = "READY"
         /\ e.value \in replyToLoadRequest(loadAddress[i], t)
      \/ /\ ~sentLoad(i) /\ e.valueState = "READY"
         /\ \E n \in storeNotifies(vals) :
              forwardsTo(n, o) /\ e.value = n.value
      \/ /\ ~sentLoad(i)
         /\ e.valueState = o.valueState /\ e.value = o.value
  BY <1>1, LoadValueStep
<1>5. /\ i \in lqCDB(squashDetect) => o.valueState = "READY"
      /\ t \in robDone(brs) => i \in lqCDB(squashDetect)
      /\ result'[robSlot(t)] = IF i \in lqCDB(squashDetect)
                                 THEN o.value ELSE result[robSlot(t)]
  BY BroadcastStep
<1>6. sentLoad(i) => o.valueState = "NOTREADY" /\ o.isAddressReady
  BY SentLoad DEF sentLoad
<1>7. o.valueState \in {"READY", "FETCHING"} /\ ~Excused(t)' => ~Excused(t)
  BY <1>2, ExcusedStays
<1>8. ASSUME NEW v, Right(t, v) PROVE right2(v)
  BY <1>8, RightStays DEF Right
<1> HIDE DEF e, o, right2
<1>9. e.isAddressReady => e.address = instr(t).addr
  BY <1>2, <1>3
<1>10. e.valueState # "NOTREADY" => e.isAddressReady
  <2>1. (\E n \in storeNotifies(vals) : forwardsTo(n, o)) => o.isAddressReady
    BY DEF forwardsTo
  <2> QED BY <1>2, <1>3, <1>4, <1>6, <2>1
<1>11. o.valueState = "READY" => e.valueState = "READY"
  BY <1>4, <1>6
<1>12. entry(t)'.isCommitReady => e.valueState = "READY"
  BY <1>1, <1>2, <1>5, <1>11
<1>13. ASSUME ~Excused(t)', e.valueState = "READY" PROVE right2(e.value)
  <2>1. CASE sentLoad(i)
    <3>1. answered(i)
      BY <1>4, <1>13, <2>1
    <3> QED BY <1>13, <2>1, <3>1, SentRight
  <2>2. CASE /\ ~sentLoad(i) /\ o.valueState = "FETCHING" /\ answered(i)
             /\ e.value = loadResp.value[0]
    <3>1. AnswerRight(t)
      BY <1>2, <1>7, <1>13, <2>2
    <3>2. loadResp = answer /\ answer.valid
      BY <2>2 DEF answered, loadResp, Memory!NoResponse
    <3>3. Right(t, answer.value[0])
      BY <1>1, <2>2, <3>1, <3>2 DEF AnswerRight, answered, o
    <3> QED BY <1>8, <2>2, <3>2, <3>3
  <2>3. CASE /\ ~sentLoad(i) /\ i \in DOMAIN loadAddress
             /\ e.value \in replyToLoadRequest(loadAddress[i], t)
    <3>1. Right(t, e.value)
      BY <1>3, <2>3, ReplyRight
    <3> QED BY <1>8, <3>1
  <2>4. CASE \E n \in storeNotifies(vals) : forwardsTo(n, o) /\ e.value = n.value
    <3>1. PICK n \in storeNotifies(vals) : forwardsTo(n, o) /\ e.value = n.value
      BY <2>4
    <3>2. o.address = instr(t).addr
      BY <1>2, <3>1 DEF forwardsTo
    <3>3. Right(t, n.value)
      BY <1>1, <3>1, <3>2, ForwardRight DEF o
    <3> QED BY <1>8, <3>1, <3>3
  <2>5. CASE /\ ~sentLoad(i)
             /\ e.valueState = o.valueState /\ e.value = o.value
    <3>1. Right(t, o.value)
      BY <1>2, <1>7, <1>13, <2>5
    <3> QED BY <1>8, <2>5, <3>1
  <2> QED BY <1>4, <2>1, <2>2, <2>3, <2>4, <2>5
<1> DEFINE asked(r) == \/ r \in pending /\ MemDispatch.op = "None"
                       \/ r = MemRequest(MemDispatch) /\ MemDispatch.op = "Load"
<1>14. ASSUME ~Excused(t)', e.valueState = "FETCHING",
              NEW r, r.op = "Load", asked(r), r.id.slot = i, r.id.robTag = t
       PROVE  right2(memory[r.block][0])
  <2>1. CASE sentLoad(i)
    <3>1. r = MemRequest(MemDispatch)
      BY <1>14, <2>1 DEF sentLoad
    <3>2. r.block = o.address
      BY <2>1, <3>1, SentLoad DEF sentLoad, o
    <3>3. o.address = instr(t).addr /\ Right(t, memory[instr(t).addr][0])
      BY <1>14, <2>1, SentRight DEF o
    <3> QED BY <1>8, <3>2, <3>3
  <2>2. CASE ~sentLoad(i)
    <3>1. o.valueState = "FETCHING"
      BY <1>4, <1>14, <2>2
    <3>2. AskedRight(t)
      BY <1>2, <1>7, <1>14, <3>1
    <3>3. r \in pending
      <4> SUFFICES ASSUME r = MemRequest(MemDispatch), MemDispatch.op = "Load"
                   PROVE  FALSE
        BY <1>14
      <4>1. r.id = [slot |-> MemDispatch.slot,
                    robTag |-> LQqueue[MemDispatch.slot].robTag]
        BY SentLoad
      <4> QED BY <1>14, <2>2, <4>1 DEF sentLoad
    <3>4. Right(t, memory[r.block][0])
      BY <1>14, <3>2, <3>3 DEF AskedRight
    <3> QED BY <1>8, <3>4
  <2> QED BY <2>1, <2>2
<1>15. /\ \A r \in pending' : r.op = "Load" => asked(r) /\ memory' = memory
       /\ answer'.valid =>
            \E r : /\ r.op = "Load" /\ asked(r)
                   /\ answer'.id = r.id
                   /\ answer'.value[0] = memory[r.block][0]
  BY CacheAnswers
<1> HIDE DEF asked
<1>16. ASSUME ~Excused(t)', e.valueState = "FETCHING",
              NEW r \in pending', r.op = "Load", r.id.slot = i, r.id.robTag = t
       PROVE  right2(memory'[r.block][0])
  <2>1. asked(r) /\ memory' = memory
    BY <1>15, <1>16
  <2>2. right2(memory[r.block][0])
    BY <1>14, <1>16, <2>1
  <2> QED BY <2>1, <2>2
<1>17. ASSUME ~Excused(t)', e.valueState = "FETCHING",
              answer'.valid, answer'.id.slot = i, answer'.id.robTag = t
       PROVE  right2(answer'.value[0])
  <2>1. PICK r : /\ r.op = "Load" /\ asked(r)
                 /\ answer'.id = r.id
                 /\ answer'.value[0] = memory[r.block][0]
    BY <1>15, <1>17
  <2>2. right2(memory[r.block][0])
    BY <1>14, <1>17, <2>1
  <2> QED BY <2>1, <2>2
<1>18. ASSUME ~Excused(t)', entry(t)'.isCommitReady
       PROVE  right2(result'[robSlot(t)])
  <2>1. o.valueState = "READY" /\ ~Excused(t)
    BY <1>1, <1>2, <1>5, <1>7, <1>18
  <2>2. CASE i \in lqCDB(squashDetect)
    <3>1. Right(t, o.value) /\ result'[robSlot(t)] = o.value
      BY <1>2, <1>5, <2>1, <2>2
    <3> QED BY <1>8, <3>1
  <2>3. CASE i \notin lqCDB(squashDetect)
    <3>1. Right(t, result[robSlot(t)]) /\ result'[robSlot(t)] = result[robSlot(t)]
      BY <1>1, <1>2, <1>5, <1>18, <2>1, <2>3
    <3> QED BY <1>8, <3>1
  <2> QED BY <2>2, <2>3
<1>19. ~Excused(t)' /\ e.valueState = "READY" => Right(t, LQqueue[lqSlotOf(t)].value)'
  BY <1>1, <1>13 DEF Right, right2, e
<1>20. ~Excused(t)' /\ e.valueState = "FETCHING" => AskedRight(t)'
  BY <1>1, <1>16 DEF AskedRight, Right, right2
<1>21. ~Excused(t)' /\ e.valueState = "FETCHING" => AnswerRight(t)'
  BY <1>1, <1>17 DEF AnswerRight, Right, right2
<1>22. ~Excused(t)' /\ entry(t)'.isCommitReady => Right(t, result[robSlot(t)])'
  BY <1>18 DEF Right, right2
<1> QED BY <1>1, <1>9, <1>10, <1>12, <1>19, <1>20, <1>21, <1>22 DEF LoadSound, e

(* All loads, one cycle.                                                   *)
LEMMA LoadsSoundStep ==
    ASSUME QInv, StoresSound, MemoryInOrder, LoadsSound,
           NEW pkt, NEW dispatch, NEW vals, NEW brs,
           StepOf(pkt, dispatch, vals, brs)
    PROVE  LoadsSound'
<1> SUFFICES ASSUME NEW t \in liveOf("LOAD")' PROVE LoadSound(t)'
  BY DEF LoadsSound
<1>1. t \in LiveTags' /\ instr(t)'.kind = "LOAD"
  BY DEF liveOf
<1>2. CASE t \in LiveTags
  <2>1. t \in liveOf("LOAD")
    BY <1>1, <1>2, LiveStep DEF liveOf
  <2> QED BY <1>1, <2>1, LoadSoundStep DEF LoadsSound
<1>3. CASE pkt.valid /\ t = next_tag
  <2>1. /\ entry(t)' = [pkt.robEntry EXCEPT !.tag = next_tag]
        /\ curr.kind = "LOAD"
        /\ lqSlotOf(t)' = prior(IF curr.kind = "LOAD" THEN lqNext(lqTail)
                                ELSE lqTail, LqCap)
    BY <1>1, <1>3, LiveStep
  <2>2. lqSlotOf(t)' = lqTail
    BY <2>1, QueueTerms, StepFacts DEF QInv, QueueTypes
  <2>3. /\ LQqueue'[lqTail].valueState = "NOTREADY"
        /\ ~LQqueue'[lqTail].isAddressReady
    BY <1>3, <2>1, FreshLoad
  <2>4. ~entry(t)'.isCommitReady
    BY <1>3, <2>1, PacketFacts DEF StepOf
  <2> QED BY <2>2, <2>3, <2>4 DEF LoadSound
<1> QED BY <1>1, <1>2, <1>3, LiveStep

-----------------------------------------------------------------------------
(* The theorem.                                                            *)

(* Whatever commits has no older store in the ROB and is not recalled.     *)
LEMMA CommittedLoad ==
    ASSUME QInv, LoadsSound PROVE LoadsRight
<1> SUFFICES ASSUME willCommit(squashDetect), headIsLoad,
                    head \notin replayed, \A r \in Races : <<head, r>> \notin exposed
             PROVE  headLoadRight
  BY DEF LoadsRight
<1>1. /\ head \in LiveTags /\ head \in liveOf("LOAD") /\ entry(head).isCommitReady
      /\ survives(head, squashDetect)
  BY CommitWaitsForAll DEF headIsLoad, liveOf, willCommit, headEntry, entry
<1>2. dist(head, head) = 0
  BY DistFacts DEF QInv, QueueTypes
<1>3. olderStores(head) = {}
  <2> SUFFICES ASSUME NEW s \in olderStores(head) PROVE FALSE
    OBVIOUS
  <2>1. s \in LiveTags /\ dist(head, s) < dist(head, head)
    BY DEF olderStores, liveOf
  <2>2. dist(head, s) \in Nat
    BY <2>1, LiveFacts
  <2> QED BY <1>2, <2>1, <2>2
<1>4. ~recalled(head)
  <2> SUFFICES ASSUME NEW r \in requests, ~isOlder(head, r.SquashTag) PROVE FALSE
    BY DEF recalled
  <2> DEFINE s == squashDetect.SquashTag
             u == r.SquashTag
  <2>1. /\ squashDetect.needSquash /\ s \in LiveTags /\ ~isOlder(u, s)
        /\ u \in LiveTags
    BY SquashFacts DEF QInv, RequestsLive
  <2>2. isOlder(head, s)
    BY <1>1, <2>1 DEF survives
  <2>3. /\ isOlder(u, s) <=> dist(head, u) < dist(head, s)
        /\ isOlder(head, u) <=> dist(head, head) < dist(head, u)
        /\ isOlder(head, s) <=> dist(head, head) < dist(head, s)
        /\ dist(head, u) \in Nat /\ dist(head, s) \in Nat /\ dist(head, head) \in Nat
    BY <1>1, <2>1, LiveOlder
  <2>4. ~isOlder(head, u)
    OBVIOUS
  <2> HIDE DEF s, u
  <2> QED BY <2>1, <2>2, <2>3, <2>4
<1>5. ~Excused(head)
  BY <1>3, <1>4 DEF Excused, unresolved
<1>6. Right(head, result[robSlot(head)])
  BY <1>1, <1>5 DEF LoadsSound, LoadSound
<1> QED BY <1>3, <1>6 DEF Right, headLoadRight

(* Every load that met neither race and was not replayed commits the value *)
(* that program order gives it, for every size of ROB and queues and every *)
(* program: whatever the order in which addresses, values, cache answers   *)
(* and squashes arrive (LQ::tick, SQ::planDataForward,                     *)
(* SQ::planAddressForward, SQ::replyToLoadRequest, SQ::canDispatchLoad and *)
(* the violations of FlushArbiter).                                        *)
THEOREM LoadsCommitRight == Spec => []LoadsRight
<1>1. Init => LoadsSound
  <2> SUFFICES ASSUME Init PROVE LoadsSound
    OBVIOUS
  <2>1. QInv /\ head = 0 /\ next_tag = 0
    BY QueuesInit DEF Init, ROBInit
  <2>2. ASSUME NEW t \in LiveTags PROVE FALSE
    BY <2>1, LiveFacts
  <2> QED BY <2>2 DEF LoadsSound, liveOf
<1>2. QInv /\ StoresSound /\ MemoryInOrder /\ LoadsSound /\ [Next]_vars => LoadsSound'
  <2> SUFFICES ASSUME QInv, StoresSound, MemoryInOrder, LoadsSound, [Next]_vars
               PROVE  LoadsSound'
    OBVIOUS
  <2>1. ASSUME NEW dispatch \in AtMostOne({t \in addrRS : live(t)}),
               NEW vals \in SUBSET valRS, NEW brs \in AtMostOne(brRS),
               Step(dispatch, vals, brs)
        PROVE  LoadsSound'
    <3>1. PICK pkt : StepOf(pkt, dispatch, vals, brs)
      BY <2>1 DEF Step, StepOf, IssuePacket
    <3> QED BY <3>1, LoadsSoundStep
  <2>2. CASE UNCHANGED vars
    <3> USE <2>2 DEF vars, robVars, sqVars, lqVars, restVars
    <3>1. \A t : /\ entry(t)' = entry(t) /\ instr(t)' = instr(t)
                 /\ lqSlotOf(t)' = lqSlotOf(t) /\ sqSlotOf(t)' = sqSlotOf(t)
      BY DEF entry, instr, lqSlotOf, sqSlotOf
    <3>2. liveOf("LOAD")' = liveOf("LOAD") /\ liveOf("STORE")' = liveOf("STORE")
      BY <3>1 DEF liveOf, LiveTags, Between
    <3>3. ASSUME NEW t PROVE olderStores(t)' = olderStores(t)
      BY <3>1, <3>2 DEF olderStores
    <3>4. ASSUME NEW t, Excused(t) PROVE Excused(t)'
      BY <3>1, <3>3, <3>4 DEF Excused, unresolved, recalled
    <3> QED BY <3>1, <3>2, <3>3, <3>4
            DEF LoadsSound, LoadSound, AskedRight, AnswerRight, Right
  <2>3. CASE Done
    BY <2>2, <2>3 DEF Done
  <2> QED BY <2>1, <2>2, <2>3 DEF Next
<1>3. QInv /\ LoadsSound => LoadsRight
  BY CommittedLoad
<1> QED BY <1>1, <1>2, <1>3, QueueInvariant, StoresInvariant, PTL DEF Spec

-----------------------------------------------------------------------------
(***************************************************************************)
(* The commits execute the program in order.  The instructions of the ROB  *)
(* and the one that is issued next form a stream: each leads to the next,  *)
(* except a mispredicted branch that still waits for its squash, and a     *)
(* load that is replayed and leads to itself.  A branch does not commit    *)
(* while its squash is pending, since that squash is then the oldest and   *)
(* stops the commit, so that every commit is a step of the program.        *)
(***************************************************************************)

-----------------------------------------------------------------------------
(* The stream of instructions.                                             *)

(* The instruction at a tag of the window, or the next one to issue.       *)
pcAt(t) == IF t = next_tag THEN pc ELSE entry(t).pc

(* The instruction i at k leads to f: where the program goes on, or back   *)
(* to a load that is replayed.                                             *)
Leads(i, k, f, last) ==
    /\ i.kind = "LOAD" => f \in {k, k + 1}
    /\ i.kind = "STORE" => f = k + 1
    /\ i.kind = "BRANCH" => f = i.next
    /\ i.kind = "HALT" => f = last + 1

(* A branch that has not resolved, or whose squash is pending.             *)
undecided(t) == t \in brRS \/ \E r \in requests : r.SquashTag = t

Mispredicted(t, f) ==
    /\ instr(t).kind = "BRANCH" /\ f = instr(t).pred
    /\ undecided(t)

Stream ==
    \A t \in LiveTags :
      \/ Leads(instr(t), entry(t).pc, pcAt(robNextTag(t)), Len(program))
      \/ Mispredicted(t, pcAt(robNextTag(t)))

(* A squash goes on where its branch leads, or at its load.                *)
RequestsSound ==
    \A r \in requests :
      LET t == r.SquashTag
      IN  \/ instr(t).kind = "LOAD" /\ r.SquashPC = entry(t).pc
          \/ instr(t).kind = "BRANCH" /\ r.SquashPC = instr(t).next

StreamInv == Stream /\ RequestsSound

(* The tag after a live one.                                               *)
LEMMA NextOfLive ==
    ASSUME QInv, NEW t \in LiveTags
    PROVE  /\ robNextTag(t) \in RobTags
           /\ dist(head, robNextTag(t)) = dist(head, t) + 1
           /\ robNextTag(t) # next_tag => robNextTag(t) \in LiveTags
<1>1. /\ t \in RobTags /\ head \in RobTags /\ next_tag \in RobTags
      /\ dist(head, t) \in Nat /\ dist(head, next_tag) \in Nat
      /\ dist(head, t) < dist(head, next_tag) /\ dist(head, t) < RobCap
      /\ RobCap \in Nat /\ RobCap >= 2
  BY LiveFacts, RobAssumption DEF QInv, QueueTypes
<1>2. /\ robNextTag(t) \in RobTags
      /\ dist(head, t) < 2 * RobCap - 1
           => dist(head, robNextTag(t)) = dist(head, t) + 1
  BY <1>1, DistNext
<1>3. dist(head, robNextTag(t)) = dist(head, next_tag) => robNextTag(t) = next_tag
  BY <1>1, <1>2, DistFacts
<1>4. /\ dist(head, robNextTag(t)) = dist(head, t) + 1
      /\ robNextTag(t) # next_tag
           => dist(head, robNextTag(t)) < dist(head, next_tag)
  BY <1>1, <1>2, <1>3
<1> QED BY <1>2, <1>4 DEF LiveTags, Between

(* The stream through a cycle: kept instructions stay where they are, the  *)
(* squash PC follows the squash target, the issued instruction takes the   *)
(* place of the next one and is followed by what is predicted.             *)
LEMMA PcStep ==
    ASSUME QInv, NEW pkt, NEW dispatch, NEW vals, NEW brs,
           StepOf(pkt, dispatch, vals, brs), NEW t
    PROVE  /\ t \in LiveTags /\ kept(t) => pcAt(t)' = pcAt(t)
           /\ t = next_tag /\ ~squashDetect.needSquash => pcAt(t)' = pc
           /\ squashDetect.needSquash /\ t = robNextTag(squashDetect.SquashTag)
                => pcAt(t)' = squashDetect.SquashPC
           /\ pkt.valid /\ t = robNextTag(next_tag) => pcAt(t)' = following(curr)
<1>1. /\ pkt = NoPacket \/ (canIssue /\ pkt = IssuePacket)
      /\ ROBtick(pkt, robDone(brs), squashDetect)
      /\ pc' = IF squashDetect.needSquash THEN squashDetect.SquashPC
               ELSE IF pkt.valid THEN following(curr) ELSE pc
  BY DEF StepOf, Cycle, StationTick
<1>2. /\ next_tag' \in RobTags
      /\ pkt.valid => next_tag' = robNextTag(next_tag)
      /\ squashDetect.needSquash => next_tag' = robNextTag(squashDetect.SquashTag)
      /\ ~pkt.valid /\ ~squashDetect.needSquash => next_tag' = next_tag
      /\ Between(head, next_tag') =
           {u \in LiveTags : kept(u)} \cup (IF pkt.valid THEN {next_tag} ELSE {})
  BY <1>1, WindowStep
<1>3. pkt.valid => ~squashDetect.needSquash
  BY <1>1, PacketFacts
<1>4. next_tag' \notin Between(head, next_tag')
  <2>1. head \in RobTags
    BY DEF QInv, QueueTypes
  <2>2. dist(head, next_tag') \in Int
    BY <1>2, <2>1, DistFacts
  <2> QED BY <2>2 DEF Between
<1>5. ASSUME t \in LiveTags, kept(t) PROVE pcAt(t)' = pcAt(t)
  <2>1. t # next_tag' /\ t # next_tag
    BY <1>2, <1>4, <1>5, LiveFacts
  <2>2. entry(t)'.pc = entry(t).pc
    BY <1>5, LiveStep
  <2> QED BY <2>1, <2>2 DEF pcAt
<1>6. ASSUME t = next_tag, ~squashDetect.needSquash PROVE pcAt(t)' = pc
  <2>1. CASE pkt.valid
    <3>1. t # next_tag'
      BY <1>2, <1>4, <1>6, <2>1
    <3>2. entry(t)' = [pkt.robEntry EXCEPT !.tag = next_tag]
      BY <1>6, <2>1, LiveStep
    <3>3. [pkt.robEntry EXCEPT !.tag = next_tag].pc = pc
      BY <1>1, <2>1, PacketFacts
    <3> QED BY <3>1, <3>2, <3>3 DEF pcAt
  <2>2. CASE ~pkt.valid
    BY <1>1, <1>2, <1>6, <2>2 DEF pcAt
  <2> QED BY <2>1, <2>2
<1>7. squashDetect.needSquash /\ t = robNextTag(squashDetect.SquashTag)
        => pcAt(t)' = squashDetect.SquashPC
  BY <1>1, <1>2 DEF pcAt
<1>8. pkt.valid /\ t = robNextTag(next_tag) => pcAt(t)' = following(curr)
  BY <1>1, <1>2, <1>3 DEF pcAt
<1> QED BY <1>5, <1>6, <1>7, <1>8

(* What follows an instruction that passes the gate of the cycle does not  *)
(* change.                                                                 *)
LEMMA FollowerStep ==
    ASSUME QInv, NEW pkt, NEW dispatch, NEW vals, NEW brs,
           StepOf(pkt, dispatch, vals, brs),
           NEW t \in LiveTags, live(t), NEW n, n = robNextTag(t)
    PROVE  pcAt(n)' = pcAt(n)
<1>1. /\ n \in RobTags /\ dist(head, n) = dist(head, t) + 1
      /\ n # next_tag => n \in LiveTags
  BY NextOfLive
<1>2. CASE squashDetect.needSquash
  <2> DEFINE s == squashDetect.SquashTag
  <2>1. /\ s \in LiveTags /\ dist(head, s) \in Nat
        /\ dist(head, t) \in Nat /\ dist(head, next_tag) \in Nat
        /\ dist(head, s) < dist(head, next_tag)
        /\ dist(head, t) < dist(head, s)
    BY <1>2, SquashFacts, SquashAges, LiveFacts
  <2>2. dist(head, n) <= dist(head, s) /\ dist(head, n) < dist(head, next_tag)
    <3> HIDE DEF s
    <3> QED BY <1>1, <2>1
  <2>3. n # next_tag
    BY <2>1, <2>2
  <2>4. n \in LiveTags /\ kept(n)
    BY <1>1, <1>2, <2>2, <2>3, SquashAges
  <2> QED BY <2>4, PcStep
<1>3. CASE ~squashDetect.needSquash
  <2>1. CASE n = next_tag
    <3>1. pcAt(n)' = pc /\ pcAt(n) = pc
      BY <1>3, <2>1, PcStep DEF pcAt
    <3> QED BY <3>1
  <2>2. CASE n # next_tag
    BY <1>1, <1>3, <2>2, PcStep DEF kept
  <2> QED BY <2>1, <2>2
<1> QED BY <1>2, <1>3

(* The requests of the cycle lead where their instructions lead, and a     *)
(* branch that resolves as mispredicted has one.                           *)
LEMMA RequestsSoundStep ==
    ASSUME QInv, NEW pkt, NEW dispatch, NEW vals, NEW brs,
           StepOf(pkt, dispatch, vals, brs)
    PROVE  /\ RequestsSound'
           /\ \A t \in brs : live(t) /\ instr(t).pred # instr(t).next
                => \E r \in requests' : r.SquashTag = t
<1> DEFINE wrong == {u \in brs : live(u) /\ instr(u).pred # instr(u).next}
           ofBranch(t) == [SquashTag |-> t, SquashPC |-> instr(t).next]
           ofLoad(i) == [SquashTag |-> LQqueue[i].robTag,
                         SquashPC |-> entry(LQqueue[i].robTag).pc]
<1>1. /\ requests' = {r \in requests : live(r.SquashTag)}
                       \cup {ofBranch(t) : t \in wrong}
                       \cup {ofLoad(i) : i \in lqOldest(violations)}
      /\ brs \in AtMostOne(brRS)
  BY DEF StepOf, Cycle, FlushTick
<1>2. ASSUME NEW t \in wrong PROVE t \in LiveTags /\ instr(t).kind = "BRANCH"
  BY <1>1 DEF AtMostOne, QInv, StationsLive, liveOf
<1>3. ASSUME NEW i \in lqOldest(violations)
      PROVE  /\ LQqueue[i].robTag \in LiveTags
             /\ instr(LQqueue[i].robTag).kind = "LOAD"
  BY ViolatedLive DEF lqOldest, liveOf
<1>4. \A t \in LiveTags : instr(t)' = instr(t) /\ entry(t)'.pc = entry(t).pc
  BY LiveStep
<1>5. ASSUME NEW r \in requests'
      PROVE  \/ instr(r.SquashTag)'.kind = "LOAD"
                  /\ r.SquashPC = entry(r.SquashTag)'.pc
             \/ instr(r.SquashTag)'.kind = "BRANCH"
                  /\ r.SquashPC = instr(r.SquashTag)'.next
  <2>1. CASE \E t \in wrong : r = ofBranch(t)
    BY <1>2, <1>4, <2>1
  <2>2. CASE \E i \in lqOldest(violations) : r = ofLoad(i)
    BY <1>3, <1>4, <2>2
  <2> HIDE DEF wrong, ofBranch, ofLoad
  <2> QED BY <1>1, <1>5, <2>1, <2>2, NoRequestStays
<1>6. RequestsSound'
  BY <1>5, Zenon DEF RequestsSound
<1>7. ASSUME NEW t \in brs, live(t), instr(t).pred # instr(t).next
      PROVE  \E r \in requests' : r.SquashTag = t
  <2>1. t \in wrong /\ ofBranch(t).SquashTag = t
    BY <1>7
  <2> HIDE DEF wrong, ofBranch
  <2> QED BY <1>1, <2>1
<1> QED BY <1>6, <1>7

(* An instruction of the window that a cycle keeps still leads to the next *)
(* one.                                                                    *)
LEMMA StreamKept ==
    ASSUME QInv, StreamInv, NEW pkt, NEW dispatch, NEW vals, NEW brs,
           StepOf(pkt, dispatch, vals, brs), NEW t \in LiveTags, kept(t)
    PROVE  LET f == pcAt(robNextTag(t))'
           IN  \/ Leads(instr(t), entry(t).pc, f, Len(program))
               \/ /\ instr(t).kind = "BRANCH" /\ f = instr(t).pred
                  /\ undecided(t)'
<1> DEFINE n == robNextTag(t)
           f == pcAt(n)'
<1>1. CASE squashDetect.needSquash /\ t = squashDetect.SquashTag
  <2>1. f = squashDetect.SquashPC
    BY <1>1, PcStep
  <2>2. PICK r \in requests : /\ r.SquashTag = squashDetect.SquashTag
                              /\ r.SquashPC = squashDetect.SquashPC
    BY <1>1, SquashFacts
  <2>3. \/ instr(t).kind = "LOAD" /\ f = entry(t).pc
        \/ instr(t).kind = "BRANCH" /\ f = instr(t).next
    BY <1>1, <2>1, <2>2 DEF StreamInv, RequestsSound
  <2> QED BY <2>3 DEF Leads
<1>2. CASE ~(squashDetect.needSquash /\ t = squashDetect.SquashTag)
  <2>1. live(t)
    <3>1. CASE squashDetect.needSquash
      <4> DEFINE s == squashDetect.SquashTag
      <4>1. /\ s \in LiveTags /\ s \in RobTags /\ head \in RobTags /\ t \in RobTags
            /\ dist(head, s) \in Nat /\ dist(head, t) \in Nat
            /\ dist(head, t) <= dist(head, s)
            /\ live(t) <=> dist(head, t) < dist(head, s)
        BY <3>1, SquashFacts, SquashAges, LiveFacts DEF QInv, QueueTypes
      <4>2. dist(head, t) # dist(head, s)
        BY <1>2, <3>1, <4>1, DistFacts
      <4> HIDE DEF s
      <4> QED BY <4>1, <4>2
    <3>2. CASE ~squashDetect.needSquash
      BY <3>2 DEF live, survives
    <3> QED BY <3>1, <3>2
  <2>2. f = pcAt(n)
    BY <2>1, FollowerStep
  <2>3. CASE Leads(instr(t), entry(t).pc, pcAt(n), Len(program))
    BY <2>2, <2>3
  <2>4. CASE Mispredicted(t, pcAt(n))
    <3>1. instr(t).kind = "BRANCH" /\ f = instr(t).pred /\ t \in brRS
      BY <2>1, <2>2, <2>4, NoRequestStays DEF Mispredicted, undecided
    <3>2. CASE t \in brs /\ instr(t).pred # instr(t).next
      <4>1. \E r \in requests' : r.SquashTag = t
        BY <2>1, <3>2, RequestsSoundStep
      <4> QED BY <3>1, <4>1 DEF undecided
    <3>3. CASE instr(t).pred = instr(t).next
      BY <3>1, <3>3 DEF Leads
    <3>4. CASE t \notin brs
      <4>1. t \in brRS'
        BY <3>1, <3>4 DEF StepOf, Cycle, StationTick
      <4> QED BY <3>1, <4>1 DEF undecided
    <3> QED BY <3>2, <3>3, <3>4
  <2> QED BY <2>3, <2>4 DEF StreamInv, Stream
<1> QED BY <1>1, <1>2

(* The issued instruction leads to what the front end delivers next.       *)
LEMMA StreamIssued ==
    ASSUME QInv, NEW pkt, NEW dispatch, NEW vals, NEW brs,
           StepOf(pkt, dispatch, vals, brs), pkt.valid, NEW t, t = next_tag
    PROVE  LET f == pcAt(robNextTag(t))'
           IN  \/ Leads(curr, pc, f, Len(program))
               \/ /\ curr.kind = "BRANCH" /\ f = curr.pred
                  /\ undecided(t)'
<1> DEFINE f == pcAt(robNextTag(t))'
<1>1. /\ f = following(curr)
      /\ curr.kind \in {"LOAD", "STORE", "BRANCH", "HALT"}
      /\ ~squashDetect.needSquash
  BY PcStep, PacketFacts DEF StepOf
<1> HIDE DEF f
<1>2. CASE curr.kind = "BRANCH"
  <2>1. t \in brRS'
    BY <1>1, <1>2 DEF StepOf, Cycle, StationTick, kept
  <2> QED BY <1>1, <1>2, <2>1 DEF following, undecided, f
<1>3. CASE curr.kind # "BRANCH"
  <2>1. /\ curr.kind = "HALT" => f = Len(program) + 1
        /\ curr.kind # "HALT" => f = pc + 1
    BY <1>1, <1>3 DEF following
  <2> QED BY <1>1, <1>3, <2>1 DEF Leads, f
<1> QED BY <1>2, <1>3

(* The stream through a cycle.                                             *)
LEMMA StreamStep ==
    ASSUME QInv, StreamInv, NEW pkt, NEW dispatch, NEW vals, NEW brs,
           StepOf(pkt, dispatch, vals, brs)
    PROVE  StreamInv'
<1>1. program' = program
  BY LiveStep
<1>2. ASSUME NEW t \in LiveTags'
      PROVE  \/ Leads(instr(t)', entry(t)'.pc, pcAt(robNextTag(t))', Len(program)')
             \/ /\ instr(t)'.kind = "BRANCH" /\ pcAt(robNextTag(t))' = instr(t)'.pred
                /\ undecided(t)'
  <2>1. CASE t \in LiveTags /\ kept(t)
    <3>1. instr(t)' = instr(t) /\ entry(t)'.pc = entry(t).pc
      BY <2>1, LiveStep
    <3> QED BY <1>1, <2>1, <3>1, StreamKept
  <2>2. CASE pkt.valid /\ t = next_tag
    <3>1. instr(t)' = curr /\ entry(t)'.pc = pc
      BY <2>2, LiveStep, PacketFacts DEF StepOf
    <3> QED BY <1>1, <2>2, <3>1, StreamIssued
  <2> QED BY <2>1, <2>2, LiveStep
<1>3. Stream'
  BY <1>2, Zenon DEF Stream, Mispredicted
<1> QED BY <1>3, RequestsSoundStep DEF StreamInv

-----------------------------------------------------------------------------
(* The commits.                                                            *)

(* The next instruction moves on when the head commits, to what the head   *)
(* leads to in the program, and only then.                                 *)
LEMMA CommitStep ==
    ASSUME QInv, StreamInv, NEW pkt, NEW dispatch, NEW vals, NEW brs,
           StepOf(pkt, dispatch, vals, brs)
    PROVE  /\ ~willCommit(squashDetect) => pcAt(head)' = pcAt(head)
           /\ willCommit(squashDetect) =>
                /\ head \in LiveTags /\ pcAt(head) = entry(head).pc
                /\ Leads(instr(head), entry(head).pc, pcAt(head)', Len(program))
<1>1. /\ head' = IF willCommit(squashDetect) THEN robNextTag(head) ELSE head
      /\ head \in RobTags /\ next_tag \in RobTags
  BY DEF StepOf, Cycle, ROBtick, QInv, QueueTypes
<1>2. ASSUME NEW n, n = head' PROVE pcAt(head)' = pcAt(n)'
  BY <1>2 DEF pcAt, entry
<1>3. head # next_tag => head \in LiveTags
  BY <1>1, WindowPop DEF LiveTags
<1>4. CASE ~willCommit(squashDetect)
  <2>1. CASE head = next_tag
    <3>1. ~squashDetect.needSquash
      BY <2>1, SquashFacts, LiveFacts
    <3>2. pcAt(head) = pc
      BY <2>1 DEF pcAt
    <3> QED BY <1>1, <1>2, <1>4, <2>1, <3>1, <3>2, PcStep
  <2>2. CASE head # next_tag
    <3>1. kept(head)
      <4>1. CASE squashDetect.needSquash
        <5> DEFINE s == squashDetect.SquashTag
        <5>1. /\ s \in LiveTags /\ dist(head, s) \in Nat /\ dist(head, head) = 0
              /\ kept(head) <=> dist(head, head) <= dist(head, s)
          BY <1>1, <1>3, <2>2, <4>1, SquashFacts, SquashAges, LiveFacts, DistFacts
        <5> HIDE DEF s
        <5> QED BY <5>1
      <4>2. CASE ~squashDetect.needSquash
        BY <4>2 DEF kept
      <4> QED BY <4>1, <4>2
    <3> QED BY <1>1, <1>2, <1>3, <1>4, <2>2, <3>1, PcStep
  <2> QED BY <1>4, <2>1, <2>2
<1>5. CASE willCommit(squashDetect)
  <2>1. head \in LiveTags /\ head \notin brRS /\ live(head) /\ head # next_tag
    BY <1>5, CommitWaitsForAll DEF willCommit, live, isEmpty
  <2>2. pcAt(head) = entry(head).pc
    BY <2>1 DEF pcAt
  <2>3. pcAt(head)' = pcAt(robNextTag(head))
    <3>1. ASSUME NEW n, n = robNextTag(head) PROVE pcAt(n)' = pcAt(n)
      BY <2>1, <3>1, FollowerStep
    <3>2. ASSUME NEW n, n = robNextTag(head) PROVE pcAt(head)' = pcAt(n)
      BY <1>1, <1>2, <1>5, <3>1, <3>2
    <3> QED BY <3>2
  <2>4. ~Mispredicted(head, pcAt(robNextTag(head)))
    BY <2>1, NoRequestStays DEF Mispredicted, undecided
  <2>5. Leads(instr(head), entry(head).pc, pcAt(robNextTag(head)), Len(program))
    BY <2>1, <2>4 DEF StreamInv, Stream
  <2> QED BY <1>5, <2>1, <2>2, <2>3, <2>5
<1> QED BY <1>4, <1>5

(* The memory that the program sees, or that a finished run has left: it   *)
(* is the memory of the committed instructions.                            *)
leftBehind ==
    [a \in Addrs |-> IF finished THEN memory[a][0] ELSE committedAt(a)]

LEMMA MemoryLeft == QInv /\ MemoryInOrder => leftBehind = refMem
<1> SUFFICES ASSUME QInv, MemoryInOrder PROVE leftBehind = refMem
  OBVIOUS
<1>1. ASSUME NEW a \in Addrs, finished PROVE committedAt(a) = memory[a][0]
  <2>1. sqActive = {}
    <3>1. sqTail = sqHead /\ sqHead \in 0 .. SqCap - 1
      BY <1>1, QueueTerms DEF finished, sqIsEmpty, QInv, QueueTypes
    <3>2. ASSUME NEW i \in 0 .. SqCap - 1
          PROVE  /\ pos(i, sqHead, SqCap) \in 0 .. SqCap - 1
                 /\ i = sqHead => pos(i, sqHead, SqCap) = 0
      BY <3>1, PosFacts, SqAssumption
    <3>3. \A i \in 0 .. SqCap - 1 : ~(pos(i, sqHead, SqCap) < pos(sqTail, sqHead, SqCap))
      BY <3>1, <3>2
    <3> QED BY <3>3, QueueTerms DEF held
  <2>2. pending = {}
    BY <1>1 DEF finished
  <2> QED BY <2>1, <2>2 DEF committedAt
<1>2. \A a \in Addrs :
        (IF finished THEN memory[a][0] ELSE committedAt(a)) = refMem[a]
  BY <1>1, Zenon DEF MemoryInOrder
<1>3. refMem \in [Addrs -> Int]
  BY DEF QInv, MemoryTypes
<1>4. refMem = [a \in Addrs |-> refMem[a]]
  BY <1>3
<1> QED BY <1>2, <1>4, Zenon DEF leftBehind

LEMMA MemoryLeftNext == QInv' /\ MemoryInOrder' => (leftBehind = refMem)'
BY MemoryLeft, PTL

(* The memory of the committed instructions changes by the store that      *)
(* commits.                                                                *)
LEMMA RefMemStep ==
    ASSUME QInv, NEW pkt, NEW dispatch, NEW vals, NEW brs,
           StepOf(pkt, dispatch, vals, brs), head \in LiveTags
    PROVE  refMem' = IF willCommit(squashDetect) /\ instr(head).kind = "STORE"
                       THEN [refMem EXCEPT ![instr(head).addr] = entry(head).pc]
                       ELSE refMem
<1>1. storeWillCommit(squashDetect)
        <=> willCommit(squashDetect) /\ instr(head).kind = "STORE"
  BY DEF storeWillCommit, headEntry, entry, QInv, RobHolds
<1> QED BY <1>1 DEF StepOf, Cycle, HistoryTick

(* A cycle is a step of the program or changes nothing that it sees.       *)
LEMMA StepExecutes ==
    ASSUME QInv, QInv', MemoryInOrder, MemoryInOrder', StreamInv,
           NEW pkt, NEW dispatch, NEW vals, NEW brs,
           StepOf(pkt, dispatch, vals, brs)
    PROVE  [InOrder!Execute]_(InOrder!inOrderVars)
<1> DEFINE at == IF isEmpty THEN pc ELSE entry(head).pc
           mem == leftBehind
<1>1. at = pcAt(head)
  BY DEF isEmpty, pcAt
<1>2. at' = pcAt(head)'
  BY DEF isEmpty, pcAt
<1>3. mem = refMem
  BY MemoryLeft
<1>4. mem' = refMem'
  BY MemoryLeftNext
<1>5. program' = program
  BY LiveStep
<1>6. CASE ~willCommit(squashDetect)
  <2>1. at' = at
    BY <1>1, <1>2, <1>6, CommitStep
  <2>2. refMem' = refMem
    BY <1>6 DEF StepOf, Cycle, HistoryTick, storeWillCommit
  <2>3. mem' = mem
    BY <1>3, <1>4, <2>2
  <2> QED BY <1>5, <2>1, <2>3 DEF InOrder!inOrderVars, leftBehind
<1>7. CASE willCommit(squashDetect)
  <2> DEFINE i == program[at]
  <2>1. /\ head \in LiveTags /\ at = entry(head).pc /\ i = instr(head)
        /\ Leads(i, at, at', Len(program))
    BY <1>1, <1>2, <1>7, CommitStep DEF instr
  <2>2. /\ at \in 1 .. Len(program) /\ DOMAIN program = 1 .. Len(program)
        /\ i.kind \in {"LOAD", "STORE", "BRANCH", "HALT"}
    <3>1. /\ entry(head).pc \in 1 .. Len(program)
          /\ instr(head).kind \in {"LOAD", "STORE", "BRANCH", "HALT"}
      BY <2>1, LiveFacts DEF LiveEntry
    <3>2. program \in Seq(Instr)
      BY LsqAssumption DEF QInv, QueueTypes
    <3> QED BY <2>1, <3>1, <3>2
  <2>3. mem' = IF i.kind = "STORE" THEN [mem EXCEPT ![i.addr] = at] ELSE mem
    BY <1>3, <1>4, <1>7, <2>1, RefMemStep
  <2>4. CASE i.kind = "LOAD"
    <3>1. at' \in {at, at + 1} /\ mem' = mem
      BY <2>1, <2>3, <2>4 DEF Leads
    <3> HIDE DEF at, mem
    <3> QED BY <1>5, <2>2, <2>4, <3>1
            DEF InOrder!inOrderVars, InOrder!Execute, InOrder!Load, InOrder!here, at, mem,
                leftBehind
  <2>5. CASE i.kind = "STORE"
    <3>1. at' = at + 1 /\ mem' = [mem EXCEPT ![i.addr] = at]
      BY <2>1, <2>3, <2>5 DEF Leads
    <3> QED BY <1>5, <2>2, <2>5, <3>1
            DEF InOrder!Execute, InOrder!Store, InOrder!here, leftBehind
  <2>6. CASE i.kind = "BRANCH"
    <3>1. at' = i.next /\ mem' = mem
      BY <2>1, <2>3, <2>6 DEF Leads
    <3> QED BY <1>5, <2>2, <2>6, <3>1
            DEF InOrder!Execute, InOrder!Branch, InOrder!here, leftBehind
  <2>7. CASE i.kind = "HALT"
    <3>1. at' = Len(program) + 1 /\ mem' = mem
      BY <2>1, <2>3, <2>7 DEF Leads
    <3> QED BY <1>5, <2>2, <2>7, <3>1
            DEF InOrder!Execute, InOrder!Halt, InOrder!here, leftBehind
  <2> QED BY <2>2, <2>4, <2>5, <2>6, <2>7
<1> QED BY <1>6, <1>7

(* The stream through any run.                                             *)
LEMMA StreamInvariant == Spec => []StreamInv
<1>1. Init => StreamInv
  <2> SUFFICES ASSUME Init PROVE StreamInv
    OBVIOUS
  <2>1. QInv /\ head = 0 /\ next_tag = 0 /\ requests = {}
    BY QueuesInit DEF Init, ROBInit
  <2>2. ASSUME NEW t \in LiveTags PROVE FALSE
    BY <2>1, LiveFacts
  <2> QED BY <2>1, <2>2 DEF StreamInv, Stream, RequestsSound
<1>2. QInv /\ StreamInv /\ [Next]_vars => StreamInv'
  <2> SUFFICES ASSUME QInv, StreamInv, [Next]_vars PROVE StreamInv'
    OBVIOUS
  <2>1. ASSUME NEW dispatch \in AtMostOne({t \in addrRS : live(t)}),
               NEW vals \in SUBSET valRS, NEW brs \in AtMostOne(brRS),
               Step(dispatch, vals, brs)
        PROVE  StreamInv'
    <3>1. PICK pkt : StepOf(pkt, dispatch, vals, brs)
      BY <2>1 DEF Step, StepOf, IssuePacket
    <3> QED BY <3>1, StreamStep
  <2>2. CASE UNCHANGED vars
    <3> USE <2>2 DEF vars, robVars, sqVars, lqVars, restVars
    <3>1. RequestsSound'
      BY DEF StreamInv, RequestsSound, instr, entry
    <3>2. Stream'
      BY DEF StreamInv, Stream, Mispredicted, undecided, pcAt, LiveTags, Between,
             instr, entry
    <3> QED BY <3>1, <3>2 DEF StreamInv
  <2>3. CASE Done
    BY <2>2, <2>3 DEF Done
  <2> QED BY <2>1, <2>2, <2>3 DEF Next
<1> QED BY <1>1, <1>2, QueueInvariant, PTL DEF Spec

(* The machine implements the program executed in order, for every size of *)
(* its queues, every program, every prediction and every timing: the       *)
(* commits go along the path the branches take, each store on it changes   *)
(* memory once, and a finished run leaves the memory of that execution     *)
(* (FlushArbiter, ROB, SQ, CPU::run).                                      *)
THEOREM CommitsExecuteProgram == Spec => ImplementsProgram
<1>1. Init => InOrder!Init
  <2> SUFFICES ASSUME Init PROVE InOrder!Init
    OBVIOUS
  <2>1. QInv /\ isEmpty /\ pc = 1 /\ program \in Programs
    BY QueuesInit DEF Init, ROBInit, isEmpty
  <2>2. refMem = [a \in Addrs |-> -1 - a]
    BY DEF Init
  <2>3. ~finished
    BY DEF Init, ROBInit, finished
  <2>4. ASSUME NEW a \in Addrs PROVE committedAt(a) = -1 - a
    <3>1. ASSUME NEW i \in sqActive PROVE ~SQqueue[i].isCommitted
      BY DEF sqActive, Init, SQInit, NoStore
    <3>2. pending = {} /\ memory[a][0] = -1 - a
      BY <2>2 DEF Init
    <3> QED BY <3>1, <3>2 DEF committedAt
  <2> QED BY <2>1, <2>3, <2>4 DEF InOrder!Init
<1>2. QInv /\ QInv' /\ StreamInv /\ MemoryInOrder /\ MemoryInOrder' /\ [Next]_vars
        => [InOrder!Execute]_(InOrder!inOrderVars)
  <2> SUFFICES ASSUME QInv, QInv', StreamInv, MemoryInOrder, MemoryInOrder',
                      [Next]_vars
               PROVE  [InOrder!Execute]_(InOrder!inOrderVars)
    OBVIOUS
  <2>1. ASSUME NEW dispatch \in AtMostOne({t \in addrRS : live(t)}),
               NEW vals \in SUBSET valRS, NEW brs \in AtMostOne(brRS),
               Step(dispatch, vals, brs)
        PROVE  [InOrder!Execute]_(InOrder!inOrderVars)
    <3>1. PICK pkt : StepOf(pkt, dispatch, vals, brs)
      BY <2>1 DEF Step, StepOf, IssuePacket
    <3> QED BY <3>1, StepExecutes
  <2>2. CASE UNCHANGED vars
    BY <2>2 DEF vars, robVars, sqVars, lqVars, restVars, InOrder!inOrderVars,
                isEmpty, entry, finished, sqIsEmpty, committedAt, sqActive, sqPos,
                sqYoungest
  <2>3. CASE Done
    BY <2>2, <2>3 DEF Done
  <2> QED BY <2>1, <2>2, <2>3 DEF Next
<1> QED
  BY <1>1, <1>2, QueueInvariant, StoresDrainInOrder, StreamInvariant, PTL
     DEF Spec, ImplementsProgram, InOrder!Spec

=============================================================================
