--------------------------- MODULE BackendProofs ---------------------------
(***************************************************************************)
(* Proofs about the back end, for every size of the ROB, the register      *)
(* file and the checkpoint pool and for every program: the tag window of   *)
(* the ROB, the squash requests and the waiting instructions stay          *)
(* consistent through any overlap of issue, completion, commit and squash. *)
(*                                                                         *)
(* RoomAssumption excludes the two issue paths that do not ask for a free  *)
(* ROB entry.                                                              *)
(***************************************************************************)
EXTENDS Backend, EpochRingLemmas, FiniteSetTheorems

(* The halt marker finds room and no invalid instruction is issued.        *)
RoomAssumption ==
    HaltFindsRoom /\ \A u \in Uops : u.kind # "INVALID"

-----------------------------------------------------------------------------
(* Tags, seen as ages from a head.                                         *)

dist(h, t) == RingDistance(h, t, RobCap, RobSpan)

(* The age of a tag is a count below two turns of the ROB, zero for the    *)
(* head only, and identifies the tag.                                      *)
LEMMA DistFacts ==
    ASSUME NEW h \in RobTags, NEW a \in RobTags
    PROVE  /\ dist(h, a) \in 0 .. 2 * RobCap - 1
           /\ dist(h, a) = 0 <=> h = a
           /\ \A b \in RobTags : dist(h, a) = dist(h, b) => a = b
BY RobAssumption, DistanceRange, DistanceInjective DEF RobTags, dist

(* The successor of a tag is one younger (ROB::updateNextTag).             *)
LEMMA DistNext ==
    ASSUME NEW h \in RobTags, NEW a \in RobTags
    PROVE  /\ robNextTag(a) \in RobTags
           /\ dist(h, a) < 2 * RobCap - 1
                => dist(h, robNextTag(a)) = dist(h, a) + 1
BY RobAssumption, NextIsCode, NextAddsOne DEF RobTags, dist, robNextTag

(* A commit makes every other tag one older (ROB::pop).                    *)
LEMMA DistPop ==
    ASSUME NEW h \in RobTags, NEW a \in RobTags
    PROVE  dist(robNextTag(h), a)
             = IF h = a THEN 2 * RobCap - 1 ELSE dist(h, a) - 1
BY RobAssumption, NextOfStart DEF RobTags, dist, robNextTag

(* Inside one turn ROB::isOlder compares ages.                             *)
LEMMA DistOlder ==
    ASSUME NEW h \in RobTags, NEW a \in RobTags, NEW b \in RobTags,
           dist(h, a) < RobCap, dist(h, b) < RobCap
    PROVE  isOlder(a, b) <=> dist(h, a) < dist(h, b)
BY RobAssumption, OlderIsCloser DEF RobTags, dist, isOlder

(* Inside one turn no two tags share a slot.                               *)
LEMMA DistSlot ==
    ASSUME NEW h \in RobTags, NEW a \in RobTags, NEW b \in RobTags,
           dist(h, a) < RobCap, dist(h, b) < RobCap,
           robSlot(a) = robSlot(b)
    PROVE  a = b
BY RobAssumption, SlotsDistinct DEF RobTags, dist, robSlot

(* ROB::isFull and ROB::isEmpty are the window being a whole turn or       *)
(* nothing, and slots index the queue.                                     *)
LEMMA SlotFacts ==
    ASSUME NEW h \in RobTags, NEW a \in RobTags
    PROVE  /\ robSlot(a) \in RobSlots
           /\ robSlot(a) = robSlot(h) <=> dist(h, a) \in {0, RobCap}
<1>1. robSlot(a) \in RobSlots
  BY RobAssumption DEF RobTags, Codes, RobSlots, robSlot, SlotOf
<1>2. robSlot(a) = robSlot(h) <=> dist(h, a) \in {0, RobCap}
  BY RobAssumption, SlotWraps DEF RobTags, dist, robSlot
<1> QED BY <1>1, <1>2

-----------------------------------------------------------------------------
(* The inductive invariant.                                                *)

(* Whoever waits is live and not ready to commit.                          *)
WindowLive ==
    \A w \in window : w.tag \in LiveTags /\ ~entry(w.tag).isCommitReady

(* Only a store waits in two places.                                       *)
StationsUnique ==
    \A v, w \in window :
        v.tag = w.tag /\ v.unit \notin {"STADDR", "STVAL"} => v = w

(* The memory queues hold live instructions.                               *)
QueuesLive == loads \subseteq LiveTags /\ stores \subseteq LiveTags

(* A pending squash names a live instruction and its checkpoint.           *)
RequestsLive ==
    \A q \in requests :
        q.SquashTag \in LiveTags /\ q.CkptId = entry(q.SquashTag).ckptId

(* At most one pending request per source: branch, jump, violated load.    *)
RequestsFew == \E a, b, c : requests \subseteq {a, b, c}

IInv ==
    /\ TypeOK
    /\ RobWindow
    /\ WindowLive
    /\ StationsUnique
    /\ QueuesLive
    /\ RequestsLive
    /\ RequestsFew

(* What a squash record is.                                                *)
SquashInfo == [needSquash : BOOLEAN, SquashTag : RobTags, CkptId : Ckpts]

(* The accepted squash is a pending request, and no request is older: the  *)
(* search of arbitResult always finds one (FlushArbiter::arbitResult).     *)
LEMMA SquashFacts ==
    ASSUME IInv
    PROVE  /\ squashDetect \in SquashInfo
           /\ ~squashDetect.needSquash => requests = {}
           /\ squashDetect.needSquash =>
                /\ squashDetect.SquashTag \in LiveTags
                /\ squashDetect.CkptId = entry(squashDetect.SquashTag).ckptId
                /\ \A r \in requests :
                      ~isOlder(r.SquashTag, squashDetect.SquashTag)
<1> DEFINE d(q) == dist(head, q.SquashTag)
           First(x) == \A y \in requests :
                          x = y \/ isOlder(x.SquashTag, y.SquashTag)
<1>1. CASE requests = {}
  <2>1. squashDetect = NoSquash
    BY <1>1 DEF squashDetect, arbitResult
  <2>2. 0 \in RobTags /\ 0 \in Ckpts
    BY RobAssumption DEF RobTags, Codes, SlotOf, Ckpts
  <2> QED BY <1>1, <2>1, <2>2 DEF NoSquash, SquashInfo
<1>2. CASE requests # {}
  <2>1. \A q \in requests :
           /\ q \in Requests /\ q.SquashTag \in RobTags /\ q.CkptId \in Ckpts
           /\ d(q) \in Nat /\ d(q) < RobCap
    <3> SUFFICES ASSUME NEW q \in requests
                 PROVE  /\ q \in Requests /\ q.SquashTag \in RobTags
                        /\ q.CkptId \in Ckpts /\ d(q) \in Nat /\ d(q) < RobCap
      OBVIOUS
    <3>1. q \in Requests /\ q.SquashTag \in RobTags /\ q.CkptId \in Ckpts
      BY DEF IInv, TypeOK, Requests
    <3>2. d(q) < dist(head, next_tag) /\ dist(head, next_tag) <= RobCap
      BY DEF IInv, RequestsLive, LiveTags, RobWindow, age, dist
    <3> QED BY <3>1, <3>2, DistFacts, RobAssumption DEF IInv, TypeOK
  <2>2. \A x, y \in requests :
           /\ isOlder(x.SquashTag, y.SquashTag) <=> d(x) < d(y)
           /\ d(x) = d(y) => x = y
    <3> SUFFICES ASSUME NEW x \in requests, NEW y \in requests
                 PROVE  /\ isOlder(x.SquashTag, y.SquashTag) <=> d(x) < d(y)
                        /\ d(x) = d(y) => x = y
      OBVIOUS
    <3>1. isOlder(x.SquashTag, y.SquashTag) <=> d(x) < d(y)
      BY <2>1, DistOlder DEF IInv, TypeOK
    <3>2. ASSUME d(x) = d(y) PROVE x = y
      <4>1. x.SquashTag = y.SquashTag
        BY <2>1, <3>2, DistFacts DEF IInv, TypeOK
      <4>2. x.CkptId = y.CkptId
        BY <4>1 DEF IInv, RequestsLive
      <4> QED BY <2>1, <4>1, <4>2 DEF Requests
    <3> QED BY <3>1, <3>2
  <2>3. \E x \in requests : First(x)
    <3>1. PICK a, b, c : requests \subseteq {a, b, c}
      BY DEF IInv, RequestsFew
    <3>2. \E x \in requests : \A y \in requests : d(x) <= d(y)
      <4> HIDE DEF d
      <4> QED BY <1>2, <2>1, <3>1, RobAssumption
    <3> HIDE DEF d
    <3> QED BY <2>1, <2>2, <3>2
  <2> DEFINE r == CHOOSE x \in requests : First(x)
  <2>4. r \in requests /\ First(r)
    BY <2>3
  <2>5. squashDetect = [needSquash |-> TRUE, SquashTag |-> r.SquashTag,
                        CkptId |-> r.CkptId]
    BY <1>2 DEF squashDetect, arbitResult
  <2>6. \A q \in requests : ~isOlder(q.SquashTag, r.SquashTag)
    <3> HIDE DEF d, r
    <3> QED BY <2>1, <2>2, <2>4
  <2> HIDE DEF r
  <2> QED BY <2>1, <2>4, <2>5, <2>6 DEF SquashInfo, IInv, RequestsLive
<1> QED BY <1>1, <1>2

-----------------------------------------------------------------------------
(* One cycle.                                                              *)

(* The packets a cycle can carry: none, or the one of an instruction that  *)
(* found room outside a squash cycle.                                      *)
PacketOf(pkt, u) ==
    \/ pkt = NoPacket
    \/ /\ u \in Uops /\ u.kind # "INVALID"
       /\ pkt = IssuePacket(u, nextCkptId)
       /\ ~squashDetect.needSquash
       /\ ~isFull

(* The instructions that neither commit nor are squashed in this cycle.    *)
Stays(t) == ~(willCommit(squashDetect) /\ t = head) /\ kept(t)

issuedTags(pkt) == IF pkt.valid THEN {next_tag} ELSE {}

(* A packet is well typed, and its entry carries the checkpoint id and the *)
(* registers that were read from the RAT and the free list                 *)
(* (IssueArbiter::build).                                                  *)
LEMMA PacketType ==
    ASSUME TypeOK, NEW pkt, NEW u, PacketOf(pkt, u)
    PROVE  /\ pkt.valid \in BOOLEAN /\ pkt.allocDest \in BOOLEAN
           /\ pkt.isControl \in BOOLEAN /\ pkt.phy \in Phys
           /\ pkt.robEntry \in EntryType
           /\ ~pkt.valid => ~pkt.allocDest
           /\ pkt.valid => u \in Uop /\ u.kind # "INVALID"
           /\ pkt.valid /\ u.kind # "HALT" => ~pkt.robEntry.isCommitReady
<1>1. /\ 0 \in Phys /\ 0 \in Regs /\ 0 \in Ckpts
      /\ DefaultEntry \in EntryType
  BY RobAssumption, PrfAssumption
  DEF Phys, PrfCap, Regs, Ckpts, DefaultEntry, EntryType, InvalidPhy, NoTag,
      ROBType
<1>2. CASE pkt = NoPacket
  BY <1>1, <1>2 DEF NoPacket, InvalidPhy
<1>3. CASE u \in Uops /\ u.kind # "INVALID" /\ pkt = IssuePacket(u, nextCkptId)
  <2>1. u \in Uop /\ u.rd \in Regs
    BY <1>3, BackendAssumption DEF Uop
  <2>2. prfSlot(headSeq) \in Phys
    BY RobAssumption, PrfAssumption
    DEF TypeOK, PrfSeqs, Codes, SlotOf, prfSlot, Phys, PrfCap
  <2>3. freeListHead \in Phys /\ RAT_PRF[u.rd] \in Phys /\ nextCkptId \in Ckpts
    BY <2>1, <2>2 DEF TypeOK, freeListHead
  <2>4. robEntryOf(u, nextCkptId) =
          [tag |-> NoTag, type |-> entryType(u),
           isCommitReady |-> (u.kind = "HALT"), halt |-> (u.kind = "HALT"),
           dest |-> IF u.kind \in {"STORE", "BRANCH"} THEN 0 ELSE u.rd,
           ckptId |-> nextCkptId,
           newPhy |-> IF allocates(u) THEN freeListHead ELSE InvalidPhy,
           oldPhy |-> IF allocates(u) THEN RAT_PRF[u.rd] ELSE InvalidPhy]
    BY <1>3 DEF robEntryOf, DefaultEntry
  <2>5. entryType(u) \in ROBType /\ allocates(u) \in BOOLEAN
    BY DEF entryType, ROBType, allocates
  <2>6. robEntryOf(u, nextCkptId) \in EntryType
    BY <1>1, <2>1, <2>3, <2>4, <2>5 DEF EntryType, InvalidPhy
  <2>7. u.kind # "HALT" => ~robEntryOf(u, nextCkptId).isCommitReady
    <3> SUFFICES ASSUME u.kind # "HALT"
                 PROVE  robEntryOf(u, nextCkptId).isCommitReady = FALSE
      OBVIOUS
    <3>1. (u.kind = "HALT") = FALSE
      OBVIOUS
    <3>2. robEntryOf(u, nextCkptId) =
            [tag |-> NoTag, type |-> entryType(u),
             isCommitReady |-> FALSE, halt |-> FALSE,
             dest |-> IF u.kind \in {"STORE", "BRANCH"} THEN 0 ELSE u.rd,
             ckptId |-> nextCkptId,
             newPhy |-> IF allocates(u) THEN freeListHead ELSE InvalidPhy,
             oldPhy |-> IF allocates(u) THEN RAT_PRF[u.rd] ELSE InvalidPhy]
      BY <1>3, <3>1 DEF robEntryOf, DefaultEntry
    <3> QED BY <3>2
  <2> QED BY <1>1, <1>3, <2>1, <2>3, <2>5, <2>6, <2>7 DEF IssuePacket, InvalidPhy
<1> QED BY <1>2, <1>3 DEF PacketOf

(* The tags of a window, with their ages.                                  *)
LEMMA LiveFacts ==
    ASSUME IInv, NEW t \in LiveTags
    PROVE  /\ t \in RobTags
           /\ dist(head, t) \in Nat
           /\ dist(head, t) < dist(head, next_tag)
           /\ dist(head, next_tag) \in Nat
           /\ dist(head, next_tag) <= RobCap
           /\ entry(t).tag = t
BY DistFacts, RobAssumption DEF IInv, TypeOK, RobWindow, LiveTags, age, dist

(* The window of the next cycle holds the instructions that stay and the   *)
(* issued one, and never more than RobCap (ROB::tick).                     *)
LEMMA LiveStep ==
    ASSUME IInv, NEW pkt, NEW u, NEW done, PacketOf(pkt, u),
           ROBtick(pkt, done, squashDetect)
    PROVE  /\ head' \in RobTags /\ next_tag' \in RobTags
           /\ dist(head', next_tag') <= RobCap
           /\ LiveTags' = {t \in LiveTags \cup issuedTags(pkt) : Stays(t)}
<1> DEFINE n == dist(head, next_tag)
           S == squashDetect.SquashTag
<1>1. /\ head \in RobTags /\ next_tag \in RobTags
      /\ n \in Nat /\ n <= RobCap
      /\ RobCap \in Nat /\ RobCap >= 2
      /\ n = 0 <=> head = next_tag
  BY DistFacts, RobAssumption DEF IInv, TypeOK, RobWindow, age, dist
<1>2. \A t \in RobTags :
         /\ dist(head, t) \in 0 .. 2 * RobCap - 1
         /\ dist(head, t) = 0 <=> t = head
         /\ dist(robNextTag(head), t)
              = IF t = head THEN 2 * RobCap - 1 ELSE dist(head, t) - 1
         /\ dist(head, t) = n <=> t = next_tag
  BY <1>1, DistFacts, DistPop
<1>3. willCommit(squashDetect) => n >= 1
  BY <1>1 DEF willCommit, isEmpty
<1>4. head' = IF willCommit(squashDetect) THEN robNextTag(head) ELSE head
  BY DEF ROBtick
<1>5. LiveTags' = {t \in RobTags : dist(head', t) < dist(head', next_tag')}
  BY DEF LiveTags, age, dist, RobTags
<1>6. LiveTags = {t \in RobTags : dist(head, t) < n}
  BY DEF LiveTags, age, dist
<1>7. CASE ~pkt.valid /\ ~squashDetect.needSquash
  <2>1. next_tag' = next_tag
    BY <1>7 DEF ROBtick, flushedTail, pushedTail
  <2>2. \A t : kept(t)
    BY <1>7 DEF kept
  <2>3. head' \in RobTags
    BY <1>1, <1>4, DistNext
  <2> HIDE DEF n
  <2> QED BY <1>1, <1>2, <1>3, <1>4, <1>5, <1>6, <1>7, <2>1, <2>2, <2>3
          DEF Stays, issuedTags, n
<1>8. CASE pkt.valid
  <2>1. ~squashDetect.needSquash /\ ~isFull
    BY <1>8 DEF PacketOf, NoPacket
  <2>2. next_tag' = robNextTag(next_tag)
    BY <1>8, <2>1 DEF ROBtick, flushedTail, pushedTail
  <2>3. n < RobCap
    BY <1>1, <2>1, SlotFacts DEF isFull
  <2>4. /\ next_tag' \in RobTags /\ dist(head, next_tag') = n + 1
    BY <1>1, <2>2, <2>3, DistNext
  <2>5. \A t : kept(t)
    BY <2>1 DEF kept
  <2>6. head' \in RobTags
    BY <1>1, <1>4, DistNext
  <2>7. head # next_tag' /\ (willCommit(squashDetect) => head # next_tag)
    BY <1>1, <1>2, <1>3, <2>4
  <2>8. dist(head', next_tag')
           = IF willCommit(squashDetect) THEN n ELSE n + 1
    BY <1>1, <1>2, <1>4, <2>4, <2>7
  <2>9. \A t \in RobTags : t \in LiveTags' <=>
           (t \in LiveTags \cup {next_tag} /\ Stays(t))
    <3> SUFFICES ASSUME NEW t \in RobTags
                 PROVE  t \in LiveTags' <=>
                          (t \in LiveTags \cup {next_tag} /\ Stays(t))
      OBVIOUS
    <3> HIDE DEF n
    <3>1. CASE willCommit(squashDetect)
      BY <3>1, <1>1, <1>2, <1>4, <1>5, <1>6, <2>3, <2>5, <2>7, <2>8 DEF Stays
    <3>2. CASE ~willCommit(squashDetect)
      BY <3>2, <1>1, <1>2, <1>4, <1>5, <1>6, <2>3, <2>5, <2>7, <2>8 DEF Stays
    <3> QED BY <3>1, <3>2
  <2> QED BY <1>1, <1>5, <1>6, <1>8, <2>3, <2>4, <2>6, <2>8, <2>9 DEF issuedTags
<1>9. CASE ~pkt.valid /\ squashDetect.needSquash
  <2>1. S \in LiveTags /\ entry(S).tag = S
    BY <1>9, SquashFacts, LiveFacts
  <2> DEFINE s == dist(head, S)
  <2>2. S \in RobTags /\ s \in Nat /\ s < n
    BY <2>1, LiveFacts
  <2>3. next_tag' = robNextTag(S)
    BY <1>1, <1>9, <2>1, <2>2
    DEF ROBtick, flushedTail, pushedTail, pushedQueue, entry
  <2>4. next_tag' \in RobTags /\ dist(head, next_tag') = s + 1
    BY <1>1, <2>2, <2>3, DistNext
  <2>5. \A t \in LiveTags : kept(t) <=> dist(head, t) <= s
    <3> SUFFICES ASSUME NEW t \in LiveTags
                 PROVE  kept(t) <=> dist(head, t) <= s
      OBVIOUS
    <3>1. t \in RobTags /\ dist(head, t) < RobCap /\ dist(head, t) \in Nat
      BY <1>1, LiveFacts
    <3>2. isOlder(S, t) <=> s < dist(head, t)
      BY <1>1, <2>2, <3>1, DistOlder
    <3> QED BY <1>9, <2>2, <3>1, <3>2 DEF kept
  <2>6. willCommit(squashDetect) => s >= 1
    <3>1. dist(head, head) = 0 /\ s < RobCap
      BY <1>1, <1>2, <2>2
    <3>2. isOlder(head, S) <=> dist(head, head) < s
      BY <1>1, <2>2, <3>1, DistOlder
    <3> QED BY <1>9, <2>2, <3>1, <3>2 DEF willCommit, survives
  <2>7. head' \in RobTags
    BY <1>1, <1>4, DistNext
  <2>8. dist(head', next_tag') = IF willCommit(squashDetect) THEN s ELSE s + 1
    BY <1>1, <1>2, <1>4, <2>2, <2>4
  <2>9. \A t \in RobTags : t \in LiveTags' <=> (t \in LiveTags /\ Stays(t))
    <3> SUFFICES ASSUME NEW t \in RobTags
                 PROVE  t \in LiveTags' <=> (t \in LiveTags /\ Stays(t))
      OBVIOUS
    <3> HIDE DEF n, s
    <3>1. CASE willCommit(squashDetect)
      BY <3>1, <1>1, <1>2, <1>4, <1>5, <1>6, <2>2, <2>5, <2>6, <2>8 DEF Stays
    <3>2. CASE ~willCommit(squashDetect)
      BY <3>2, <1>1, <1>2, <1>4, <1>5, <1>6, <2>2, <2>5, <2>8 DEF Stays
    <3> QED BY <3>1, <3>2
  <2> QED BY <1>1, <1>5, <1>6, <1>9, <2>2, <2>4, <2>7, <2>8, <2>9 DEF issuedTags
<1> QED BY <1>7, <1>8, <1>9

(* The entries of the next cycle: a live entry only becomes ready, and the *)
(* issued one is the packet's under next_tag; neither overwrites another   *)
(* (ROB::push, ROB::setROBCommitReady).                                    *)
LEMMA EntryStep ==
    ASSUME IInv, NEW pkt, NEW u, NEW done \in SUBSET LiveTags,
           PacketOf(pkt, u), ROBtick(pkt, done, squashDetect)
    PROVE  /\ \A t \in LiveTags :
                ROBqueue'[robSlot(t)] =
                  IF t \in done THEN [entry(t) EXCEPT !.isCommitReady = TRUE]
                                ELSE entry(t)
           /\ pkt.valid => ROBqueue'[robSlot(next_tag)] =
                              [pkt.robEntry EXCEPT !.tag = next_tag]
<1>1. /\ head \in RobTags /\ next_tag \in RobTags
      /\ ROBqueue \in [RobSlots -> EntryType]
  BY DEF IInv, TypeOK
<1>2. next_tag \notin done
  BY <1>1, LiveFacts
<1>3. pkt.valid => dist(head, next_tag) < RobCap
  <2> SUFFICES ASSUME pkt.valid PROVE dist(head, next_tag) < RobCap
    OBVIOUS
  <2>1. ~isFull
    BY DEF PacketOf, NoPacket
  <2>2. dist(head, next_tag) <= RobCap
    BY DEF IInv, RobWindow, age, dist
  <2> QED BY <1>1, <2>1, <2>2, SlotFacts, DistFacts, RobAssumption DEF isFull
<1>4. \A t \in LiveTags :
         robSlot(t) \in RobSlots /\ (pkt.valid => robSlot(t) # robSlot(next_tag))
  <2> SUFFICES ASSUME NEW t \in LiveTags
               PROVE  /\ robSlot(t) \in RobSlots
                      /\ pkt.valid => robSlot(t) # robSlot(next_tag)
    OBVIOUS
  <2>1. /\ t \in RobTags /\ dist(head, t) \in Nat
        /\ dist(head, t) < dist(head, next_tag)
        /\ dist(head, next_tag) \in Nat /\ dist(head, next_tag) <= RobCap
    BY LiveFacts
  <2>2. robSlot(t) \in RobSlots
    BY <1>1, <2>1, SlotFacts
  <2>3. ASSUME pkt.valid, robSlot(t) = robSlot(next_tag) PROVE FALSE
    <3>1. t = next_tag
      BY <1>1, <1>3, <2>1, <2>3, DistSlot, RobAssumption
    <3> QED BY <2>1, <3>1
  <2> QED BY <2>2, <2>3
<1>5. robSlot(next_tag) \in RobSlots
  BY <1>1, SlotFacts
<1>6. \A t \in LiveTags : pushedQueue(pkt)[robSlot(t)] = entry(t)
  BY <1>1, <1>4, <1>5 DEF pushedQueue, entry
<1>7. pkt.valid => pushedQueue(pkt)[robSlot(next_tag)] =
                     [pkt.robEntry EXCEPT !.tag = next_tag]
  BY <1>1, <1>5 DEF pushedQueue
<1>8. ROBqueue' = readyQueue(pkt, done)
  BY DEF ROBtick
<1>9. ASSUME NEW t \in LiveTags
      PROVE  ROBqueue'[robSlot(t)] =
               IF t \in done THEN [entry(t) EXCEPT !.isCommitReady = TRUE]
                             ELSE entry(t)
  <2>1. entry(t).tag = t
    BY <1>9, LiveFacts
  <2>2. ASSUME t \in done PROVE head # pushedTail(pkt)
    <3>1. /\ dist(head, t) \in Nat /\ dist(head, t) < dist(head, next_tag)
      BY <1>9, LiveFacts
    <3>2. dist(head, next_tag) # 0 /\ dist(head, next_tag) \in Nat
      BY <1>9, <3>1, LiveFacts
    <3>3. head # next_tag
      BY <1>1, <3>2, DistFacts
    <3>4. pkt.valid => dist(head, robNextTag(next_tag)) # 0
      BY <1>1, <1>3, <3>2, DistNext, RobAssumption
    <3> QED BY <1>1, <3>3, <3>4, DistNext, DistFacts DEF pushedTail
  <2>3. robSlot(t) \in RobSlots /\ pushedQueue(pkt)[robSlot(t)] = entry(t)
    BY <1>9, <1>4, <1>6
  <2>4. readyQueue(pkt, done)[robSlot(t)] =
          IF head # pushedTail(pkt) /\ pushedQueue(pkt)[robSlot(t)].tag \in done
            THEN [pushedQueue(pkt)[robSlot(t)] EXCEPT !.isCommitReady = TRUE]
            ELSE pushedQueue(pkt)[robSlot(t)]
    BY <2>3 DEF readyQueue
  <2> QED BY <1>8, <2>1, <2>2, <2>3, <2>4
<1>10. ASSUME pkt.valid
       PROVE  ROBqueue'[robSlot(next_tag)] = [pkt.robEntry EXCEPT !.tag = next_tag]
  <2>1. pkt.robEntry \in EntryType
    BY PacketType DEF IInv
  <2>2. pushedQueue(pkt)[robSlot(next_tag)].tag = next_tag
    BY <1>7, <1>10, <2>1 DEF EntryType
  <2> QED BY <1>2, <1>5, <1>7, <1>8, <1>10, <2>2 DEF readyQueue
<1> QED BY <1>9, <1>10

(* What a set of reports is made of: waiting instructions, live and not    *)
(* ready, at most one per unit (the buses of CPU::comb).                   *)
LEMMA ReportFacts ==
    ASSUME IInv, NEW f \in Reports
    PROVE  /\ f \subseteq window
           /\ \A w \in f : /\ w.tag \in LiveTags /\ ~entry(w.tag).isCommitReady
                           /\ survives(w.tag, squashDetect)
           /\ robDone(f) \subseteq LiveTags
           /\ cdbDone(f) \subseteq LiveTags
           /\ overtaking(f) \subseteq loads
           /\ \A l \in overtaking(f) : l \in LiveTags /\ l # head
<1>1. /\ f \subseteq window
      /\ \A w \in f : canFinish(w)
  BY DEF Reports
<1>2. \A w \in f : /\ w.tag \in LiveTags /\ ~entry(w.tag).isCommitReady
                    /\ survives(w.tag, squashDetect)
  BY <1>1 DEF canFinish, IInv, WindowLive
<1>3. robDone(f) \subseteq LiveTags /\ cdbDone(f) \subseteq LiveTags
  BY <1>2 DEF robDone, cdbDone, storesReady, IInv, QueuesLive
<1>4. ASSUME NEW l \in overtaking(f)
      PROVE  l \in loads /\ l \in LiveTags /\ l # head
  <2>1. l \in loads /\ l \in LiveTags
    BY <1>4 DEF overtaking, IInv, QueuesLive
  <2>2. PICK w \in f : isOlder(w.tag, l)
    BY <1>4 DEF overtaking, isYounger
  <2>3. /\ w.tag \in RobTags /\ l \in RobTags /\ head \in RobTags
        /\ dist(head, w.tag) \in Nat /\ dist(head, w.tag) < RobCap
        /\ dist(head, l) \in Nat /\ dist(head, l) < RobCap
    BY <1>2, <2>1, LiveFacts, RobAssumption DEF IInv, TypeOK
  <2>4. dist(head, w.tag) < dist(head, l)
    BY <2>2, <2>3, DistOlder
  <2> QED BY <2>1, <2>3, <2>4, DistFacts
<1> QED BY <1>1, <1>2, <1>3, <1>4

(* Every cycle keeps the types: the packed tags and sequence numbers stay  *)
(* on allocated codes, whatever is restored from a checkpoint.             *)
LEMMA TypeStep ==
    ASSUME IInv, NEW pkt, NEW u, NEW f \in Reports,
           PacketOf(pkt, u), Cycle(pkt, u, f)
    PROVE  TypeOK'
<1> USE DEF IInv
<1>1. /\ squashDetect \in SquashInfo
      /\ ROBtick(pkt, robDone(f), squashDetect)
      /\ head' \in RobTags /\ next_tag' \in RobTags
  BY SquashFacts, LiveStep DEF Cycle
<1>2. /\ pkt.valid \in BOOLEAN /\ pkt.allocDest \in BOOLEAN
      /\ pkt.isControl \in BOOLEAN /\ pkt.phy \in Phys
      /\ pkt.robEntry \in EntryType
      /\ pkt.robEntry.dest \in Regs /\ pkt.robEntry.ckptId \in Ckpts
  BY PacketType DEF EntryType
<1>3. /\ robSlot(next_tag) \in RobSlots /\ robSlot(head) \in RobSlots
      /\ headEntry \in EntryType
      /\ headEntry.dest \in Regs
      /\ headEntry.newPhy \in Phys /\ headEntry.oldPhy \in Phys
  BY SlotFacts DEF TypeOK, headEntry, EntryType
<1>4. ROBqueue' \in [RobSlots -> EntryType]
  <2>1. [pkt.robEntry EXCEPT !.tag = next_tag] \in EntryType
    BY <1>2 DEF TypeOK, EntryType
  <2>2. pushedQueue(pkt) \in [RobSlots -> EntryType]
    BY <1>3, <2>1 DEF TypeOK, pushedQueue
  <2>3. \A e \in EntryType : [e EXCEPT !.isCommitReady = TRUE] \in EntryType
    BY DEF EntryType
  <2>4. readyQueue(pkt, robDone(f)) \in [RobSlots -> EntryType]
    BY <2>2, <2>3 DEF readyQueue
  <2> QED BY <1>1, <2>4 DEF ROBtick
<1>5. haltCommitted' \in BOOLEAN /\ haltRd' \in Regs \cup {-1}
  BY <1>1, <1>3 DEF ROBtick, TypeOK
<1>6. RAT_PRF' \in [Regs -> Phys] /\ ratCkpt' \in [Ckpts -> [Regs -> Phys]]
  <2>1. renamed(pkt) \in [Regs -> Phys]
    BY <1>2 DEF renamed, TypeOK
  <2>2. squashDetect.CkptId \in Ckpts
    BY <1>1 DEF SquashInfo
  <2> QED BY <1>2, <2>1, <2>2 DEF Cycle, RATtick, TypeOK
<1>7. /\ PrfCap \in Nat /\ PrfCap >= 2 /\ PrfSpan \in Nat /\ PrfCap <= PrfSpan
      /\ InvalidPhy \in Phys
  BY RobAssumption, PrfAssumption DEF PrfCap, Phys, InvalidPhy
<1>8. ready' \in [Phys -> BOOLEAN]
  BY <1>2 DEF Cycle, PRFtick, readyNext, TypeOK
<1>9. /\ headSeq' \in PrfSeqs /\ tailSeq' \in PrfSeqs
      /\ PRFHeadCkpt' \in [Ckpts -> PrfSeqs]
  <2>1. \A s \in PrfSeqs : prfSeqNext(s) \in PrfSeqs
    BY <1>7, NextIsCode DEF PrfSeqs, prfSeqNext
  <2>2. poppedHead(pkt) \in PrfSeqs
    BY <2>1 DEF poppedHead, TypeOK
  <2>3. squashDetect.CkptId \in Ckpts
    BY <1>1 DEF SquashInfo
  <2> QED BY <1>2, <2>1, <2>2, <2>3 DEF Cycle, PRFtick, TypeOK
<1>10. freeList' \in [Phys -> Phys]
  <2>1. recycled(squashDetect) \in Phys
    BY <1>3, <1>7 DEF recycled
  <2>2. prfSlot(tailSeq) \in Phys
    BY <1>7 DEF TypeOK, PrfSeqs, Codes, SlotOf, prfSlot, Phys
  <2> QED BY <2>1, <2>2 DEF Cycle, PRFtick, TypeOK
<1>11. requests' \in SUBSET Requests
  <2>1. PICK mis \in SUBSET controlTags(f) :
          \E viol \in {{}} \cup {{l} : l \in overtaking(f)} :
            FlushTick(mis, viol, squashDetect)
    BY DEF Cycle
  <2>2. PICK viol \in {{}} \cup {{l} : l \in overtaking(f)} :
            FlushTick(mis, viol, squashDetect)
    BY <2>1
  <2>3. mis \subseteq RobTags /\ viol \subseteq RobTags
    BY <2>1, <2>2, ReportFacts, LiveFacts DEF controlTags
  <2>4. \A t \in RobTags : requestFor(t) \in Requests
    <3> TAKE t \in RobTags
    <3>1. robSlot(t) \in RobSlots
      BY SlotFacts DEF TypeOK
    <3>2. ROBqueue[robSlot(t)].ckptId \in Ckpts
      BY <3>1 DEF TypeOK, EntryType
    <3> QED BY <3>2 DEF requestFor, Requests
  <2> QED BY <2>2, <2>3, <2>4 DEF FlushTick, cleared, raised, TypeOK
<1>12. window' \in SUBSET [tag : RobTags, unit : Units,
                           ops : SUBSET (Regs \X Phys)]
  <2>1. ASSUME pkt.valid
        PROVE  stations(u) \in SUBSET [tag : RobTags, unit : Units,
                                       ops : SUBSET (Regs \X Phys)]
    <3>1. /\ u.kind \in Kinds /\ u.kind # "INVALID"
          /\ u.rs1 \in Regs /\ u.rs2 \in Regs
      BY <2>1, PacketType DEF Uop
    <3>2. \A r \in Regs : resolveSrc(r) \in SUBSET (Regs \X Phys)
      BY DEF resolveSrc, TypeOK
    <3> QED BY <3>1, <3>2 DEF stations, Kinds, Units, TypeOK
  <2> QED BY <2>1 DEF Cycle, WindowTick, TypeOK
<1>13. loads' \in SUBSET RobTags /\ stores' \in SUBSET RobTags
  BY DEF Cycle, QueueTick, TypeOK
<1>14. nextCkptId' \in Ckpts /\ haltFetched' \in BOOLEAN
  <2>1. \A c \in Ckpts : ckptNext(c) \in Ckpts
    BY RobAssumption DEF Ckpts, ckptNext
  <2>2. squashDetect.CkptId \in Ckpts
    BY <1>1 DEF SquashInfo
  <2> QED BY <2>1, <2>2 DEF Cycle, FrontTick, TypeOK
<1>15. commitRAT' \in [Regs -> Phys]
  BY <1>3 DEF Cycle, CommitTick, TypeOK
<1> QED
  BY <1>1, <1>4, <1>5, <1>6, <1>8, <1>9, <1>10, <1>11, <1>12, <1>13, <1>14,
     <1>15
  DEF TypeOK

(* Every cycle keeps the ROB window, the waiting instructions and the      *)
(* memory queues consistent (ROB::tick, RSUnit::tick).                     *)
LEMMA WindowStep ==
    ASSUME IInv, NEW pkt, NEW u, NEW f \in Reports,
           PacketOf(pkt, u), Cycle(pkt, u, f)
    PROVE  RobWindow' /\ WindowLive' /\ StationsUnique' /\ QueuesLive'
<1> DEFINE new == issuedTags(pkt)
<1>1. /\ head' \in RobTags /\ next_tag' \in RobTags
      /\ dist(head', next_tag') <= RobCap
      /\ LiveTags' = {t \in LiveTags \cup new : Stays(t)}
  BY LiveStep DEF Cycle
<1>2. /\ robDone(f) \subseteq LiveTags
      /\ f \subseteq window
  BY ReportFacts
<1>3. /\ \A t \in LiveTags :
             ROBqueue'[robSlot(t)] =
               IF t \in robDone(f) THEN [entry(t) EXCEPT !.isCommitReady = TRUE]
                                   ELSE entry(t)
      /\ pkt.valid => ROBqueue'[robSlot(next_tag)] =
                         [pkt.robEntry EXCEPT !.tag = next_tag]
  BY <1>2, EntryStep DEF Cycle
<1>4. next_tag \notin LiveTags
  BY LiveFacts
<1>5. \A t \in LiveTags : entry(t) \in EntryType /\ entry(t).tag = t
  BY LiveFacts, SlotFacts DEF IInv, TypeOK, entry
<1>6. pkt.robEntry \in EntryType
  BY PacketType DEF IInv
<1>7. RobWindow'
  <2>1. \A t \in LiveTags' : ROBqueue'[robSlot(t)].tag = t
    <3> TAKE t \in LiveTags'
    <3>1. CASE t \in LiveTags
      <4>1. entry(t) \in EntryType /\ entry(t).tag = t
        BY <1>5, <3>1
      <4>2. [entry(t) EXCEPT !.isCommitReady = TRUE].tag = t
        BY <4>1 DEF EntryType
      <4> QED BY <1>3, <3>1, <4>1, <4>2
    <3>2. CASE t \notin LiveTags
      <4>1. pkt.valid /\ t = next_tag
        BY <1>1, <3>2 DEF issuedTags
      <4>2. [pkt.robEntry EXCEPT !.tag = next_tag].tag = next_tag
        BY <1>6 DEF EntryType
      <4> QED BY <1>3, <4>1, <4>2
    <3> QED BY <3>1, <3>2
  <2> QED BY <1>1, <2>1 DEF RobWindow, age, dist, entry, robSlot
<1>8. \A t \in LiveTags \ robDone(f) : ROBqueue'[robSlot(t)] = entry(t)
  BY <1>3
<1>9. ASSUME NEW w \in window \ f PROVE w.tag \in LiveTags \ robDone(f)
  <2>1. w.tag \in LiveTags
    BY DEF IInv, WindowLive
  <2>2. w.tag \notin storesReady
    BY DEF storesReady
  <2>3. ASSUME NEW v \in f, v.unit \in CdbUnits \cup {"BRANCH"}, v.tag = w.tag
        PROVE  FALSE
    <3>1. v \in window /\ v.unit \notin {"STADDR", "STVAL"}
      BY <1>2, <2>3 DEF CdbUnits
    <3> QED BY <2>3, <3>1 DEF IInv, StationsUnique
  <2> QED BY <2>1, <2>2, <2>3 DEF robDone
<1>10. pkt.valid => \A w \in stations(u) : w.tag = next_tag
  <2> SUFFICES ASSUME pkt.valid PROVE \A w \in stations(u) : w.tag = next_tag
    OBVIOUS
  <2>1. u.kind \in Kinds
    BY PacketType DEF IInv, Uop
  <2> QED BY <2>1 DEF stations, Kinds
<1>11. pkt.valid /\ stations(u) # {} =>
         ~ROBqueue'[robSlot(next_tag)].isCommitReady
  <2> SUFFICES ASSUME pkt.valid, stations(u) # {}
               PROVE  ~ROBqueue'[robSlot(next_tag)].isCommitReady
    OBVIOUS
  <2>1. u.kind # "HALT"
    BY DEF stations
  <2>2. ~pkt.robEntry.isCommitReady
    BY <2>1, PacketType DEF IInv
  <2> QED BY <1>3, <1>6, <2>2 DEF EntryType
<1>12. window' = {w \in (window \ f)
                         \cup (IF pkt.valid THEN stations(u) ELSE {}) : kept(w.tag)}
  BY DEF Cycle, WindowTick
<1>13. \A w \in window : ~entry(w.tag).isCommitReady
  BY DEF IInv, WindowLive
<1>14. ASSUME NEW w \in window'
       PROVE  w.tag \in LiveTags' /\ ~ROBqueue'[robSlot(w.tag)].isCommitReady
  <2>1. CASE w \in window \ f
    <3>1. w.tag \in LiveTags /\ ~entry(w.tag).isCommitReady
      BY <1>9, <1>13, <2>1
    <3>2. ~(willCommit(squashDetect) /\ w.tag = head)
      BY <3>1 DEF willCommit, headEntry, entry
    <3> QED BY <1>1, <1>8, <1>9, <1>12, <2>1, <3>1, <3>2 DEF Stays
  <2>2. CASE pkt.valid /\ w \in stations(u)
    <3>1. w.tag = next_tag /\ kept(w.tag)
      BY <1>10, <1>12, <2>2
    <3>2. willCommit(squashDetect) => next_tag # head
      BY DEF willCommit, isEmpty
    <3> QED BY <1>1, <1>11, <2>2, <3>1, <3>2 DEF Stays, issuedTags
  <2> QED BY <1>12, <1>14, <2>1, <2>2
<1>15. WindowLive'
  BY <1>14 DEF WindowLive, entry, robSlot
<1>16. StationsUnique'
  <2> SUFFICES ASSUME NEW v \in window', NEW w \in window',
                      v.tag = w.tag, v.unit \notin {"STADDR", "STVAL"}
               PROVE  v = w
    BY DEF StationsUnique
  <2>1. CASE v \in window /\ w \in window
    BY <2>1 DEF IInv, StationsUnique
  <2>2. CASE pkt.valid /\ v \in stations(u) /\ w \in stations(u)
    <3>1. u.kind \in Kinds
      BY <2>2, PacketType DEF IInv, Uop
    <3> QED BY <2>2, <3>1 DEF stations, Kinds
  <2>3. ASSUME NEW x \in window PROVE x.tag # next_tag
    BY <1>4 DEF IInv, WindowLive
  <2> QED BY <1>10, <1>12, <2>1, <2>2, <2>3
<1>17. QueuesLive'
  <2>1. loads' \subseteq {t \in LiveTags \cup new : Stays(t)}
    BY DEF Cycle, QueueTick, IInv, QueuesLive, Stays, issuedTags
  <2>2. stores' \subseteq {t \in LiveTags \cup new : Stays(t)}
    BY DEF Cycle, QueueTick, IInv, QueuesLive, Stays, issuedTags
  <2> QED BY <1>1, <2>1, <2>2 DEF QueuesLive
<1> QED BY <1>7, <1>15, <1>16, <1>17

(* Every cycle replaces the pending requests by the ones it raises: at     *)
(* most three, all for instructions that are still live in the next cycle  *)
(* (FlushArbiter::tick).                                                   *)
LEMMA RequestsStep ==
    ASSUME IInv, NEW pkt, NEW u, NEW f \in Reports,
           PacketOf(pkt, u), Cycle(pkt, u, f)
    PROVE  RequestsLive' /\ RequestsFew'
<1>1. PICK mis \in SUBSET controlTags(f) :
        \E viol \in {{}} \cup {{l} : l \in overtaking(f)} :
          FlushTick(mis, viol, squashDetect)
  BY DEF Cycle
<1>2. PICK viol \in {{}} \cup {{l} : l \in overtaking(f)} :
        FlushTick(mis, viol, squashDetect)
  BY <1>1
<1> DEFINE R == raised(mis, viol, squashDetect)
<1>3. requests' = {requestFor(t) : t \in R}
  <2>1. cleared(squashDetect) = {}
    BY SquashFacts DEF cleared
  <2> QED BY <1>2, <2>1 DEF FlushTick
<1>4. \A t \in R : /\ t \in LiveTags /\ survives(t, squashDetect)
                    /\ ~(willCommit(squashDetect) /\ t = head)
  <2>1. \A t \in mis : t \in LiveTags /\ ~entry(t).isCommitReady
    BY <1>1, ReportFacts DEF controlTags
  <2>2. \A t \in viol : t \in LiveTags /\ t # head
    BY <1>2, ReportFacts
  <2> QED BY <2>1, <2>2 DEF raised, willCommit, headEntry, entry
<1>5. \A t \in R : Stays(t)
  <2> SUFFICES ASSUME NEW t \in R, squashDetect.needSquash
               PROVE  ~isOlder(squashDetect.SquashTag, t)
    BY <1>4 DEF Stays, kept
  <2> DEFINE S == squashDetect.SquashTag
  <2>1. S \in LiveTags /\ t \in LiveTags
    BY <1>4, SquashFacts
  <2>2. /\ S \in RobTags /\ t \in RobTags /\ head \in RobTags
        /\ dist(head, S) \in Nat /\ dist(head, S) < RobCap
        /\ dist(head, t) \in Nat /\ dist(head, t) < RobCap
    BY <2>1, LiveFacts, RobAssumption DEF IInv, TypeOK
  <2>3. isOlder(t, S)
    BY <1>4 DEF survives
  <2> QED BY <2>2, <2>3, DistOlder
<1>6. /\ LiveTags' = {t \in LiveTags \cup issuedTags(pkt) : Stays(t)}
  BY LiveStep DEF Cycle
<1>7. \A t \in LiveTags : ROBqueue'[robSlot(t)].ckptId = entry(t).ckptId
  <2>1. robDone(f) \subseteq LiveTags
    BY ReportFacts
  <2>2. \A t \in LiveTags :
           ROBqueue'[robSlot(t)] =
             IF t \in robDone(f) THEN [entry(t) EXCEPT !.isCommitReady = TRUE]
                                 ELSE entry(t)
    BY <2>1, EntryStep DEF Cycle
  <2>3. \A t \in LiveTags : entry(t) \in EntryType
    BY LiveFacts, SlotFacts DEF IInv, TypeOK, entry
  <2> QED BY <2>2, <2>3 DEF EntryType
<1>8. RequestsLive'
  <2> SUFFICES ASSUME NEW q \in requests'
               PROVE  /\ q.SquashTag \in LiveTags'
                      /\ q.CkptId = ROBqueue'[robSlot(q.SquashTag)].ckptId
    BY DEF RequestsLive, entry, robSlot
  <2>1. PICK t \in R : q = requestFor(t)
    BY <1>3
  <2>2. q.SquashTag = t /\ q.CkptId = entry(t).ckptId
    BY <2>1 DEF requestFor, entry
  <2> HIDE DEF R
  <2> QED BY <1>4, <1>5, <1>6, <1>7, <2>2
<1>9. RequestsFew'
  <2> DEFINE B == {w \in f : w.unit = "BRANCH"}
             A == {w \in f : w.unit = "ALU"}
  <2>1. \A v, w \in f : v.unit = w.unit => v = w \/ v.unit = "STVAL"
    BY DEF Reports
  <2>2. \E b : B \subseteq {b}
    BY <2>1
  <2>3. \E a : A \subseteq {a}
    BY <2>1
  <2>4. PICK b : B \subseteq {b}
    BY <2>2
  <2>5. PICK a : A \subseteq {a}
    BY <2>3
  <2>6. PICK l : viol \subseteq {l}
    BY <1>2
  <2>7. mis \subseteq {b.tag, a.tag}
    BY <1>1, <2>4, <2>5 DEF controlTags
  <2>8. R \subseteq {b.tag, a.tag, l}
    BY <2>6, <2>7 DEF raised
  <2>9. requests' \subseteq
          {requestFor(b.tag), requestFor(a.tag), requestFor(l)}
    <3> HIDE DEF R
    <3> QED BY <1>3, <2>8
  <2> QED BY <2>9 DEF RequestsFew
<1> QED BY <1>8, <1>9

-----------------------------------------------------------------------------
(* A step of the back end is a cycle with an admissible packet, or leaves  *)
(* everything alone.                                                       *)
LEMMA NextIsCycle ==
    ASSUME RoomAssumption, IInv, [Next]_vars
    PROVE  \/ \E pkt : \E u : \E f \in Reports : PacketOf(pkt, u) /\ Cycle(pkt, u, f)
           \/ UNCHANGED vars
<1>1. CASE \E f \in Reports : Idle(f)
  BY <1>1 DEF Idle, PacketOf
<1>2. CASE \E u \in Uops : \E f \in Reports : Issue(u, f)
  <2>1. PICK u \in Uops, f \in Reports : Issue(u, f)
    BY <1>2
  <2>2. u.kind # "INVALID" /\ ~isFull
    BY <2>1 DEF RoomAssumption, Issue, canIssue
  <2> QED BY <2>1, <2>2 DEF Issue, PacketOf
<1>3. CASE Done
  BY <1>3 DEF Done
<1>4. CASE UNCHANGED vars
  BY <1>4
<1> QED BY <1>1, <1>2, <1>3, <1>4 DEF Next

(* The empty back end satisfies the invariant.                             *)
LEMMA InitIInv == Init => IInv
<1> SUFFICES ASSUME Init PROVE IInv
  OBVIOUS
<1>1. /\ 0 \in RobTags /\ 0 \in Regs /\ 0 \in Ckpts /\ 0 \in Phys
      /\ 0 \in PrfSeqs /\ RobCap \in PrfSeqs
  BY RobAssumption, PrfAssumption
  DEF RobTags, PrfSeqs, Codes, SlotOf, Regs, Ckpts, Phys, PrfCap
<1>2. DefaultEntry \in EntryType
  BY <1>1 DEF DefaultEntry, EntryType, ROBType, InvalidPhy
<1>3. \A r \in Regs : r \in Phys
  BY RobAssumption DEF Regs, Phys, PrfCap
<1>4. \A s \in Phys : s < RobCap => RegCap + s \in Phys
  BY RobAssumption DEF Phys, PrfCap
<1>5. TypeOK
  <2>1. ROBInit /\ RATInit /\ PRFInit /\ FlushInit
    BY DEF Init
  <2>2. ROBqueue \in [RobSlots -> EntryType]
    BY <1>2, <2>1 DEF ROBInit
  <2>3. /\ head \in RobTags /\ next_tag \in RobTags
        /\ haltCommitted \in BOOLEAN /\ haltRd \in Regs \cup {-1}
    BY <1>1, <2>1 DEF ROBInit
  <2>4. RAT_PRF \in [Regs -> Phys] /\ ratCkpt \in [Ckpts -> [Regs -> Phys]]
    BY <1>1, <1>3, <2>1 DEF RATInit, InvalidPhy
  <2>5. ready \in [Phys -> BOOLEAN] /\ freeList \in [Phys -> Phys]
    BY <1>1, <1>4, <2>1 DEF PRFInit, InvalidPhy
  <2>6. /\ headSeq \in PrfSeqs /\ tailSeq \in PrfSeqs
        /\ PRFHeadCkpt \in [Ckpts -> PrfSeqs]
    BY <1>1, <2>1 DEF PRFInit
  <2> QED BY <1>1, <2>1, <2>2, <2>3, <2>4, <2>5, <2>6 DEF TypeOK, Init, FlushInit
<1>6. LiveTags = {} /\ age(next_tag) = 0
  <2>1. head = 0 /\ next_tag = 0
    BY DEF Init, ROBInit
  <2>2. dist(0, 0) = 0
    BY <1>1, DistFacts
  <2>3. \A t \in RobTags : ~(dist(0, t) < 0)
    BY <1>1, DistFacts, RobAssumption
  <2> QED BY <2>1, <2>2, <2>3 DEF LiveTags, age, dist
<1>7. window = {} /\ loads = {} /\ stores = {} /\ requests = {}
  BY DEF Init, FlushInit
<1> QED
  BY <1>5, <1>6, <1>7, RobAssumption
  DEF IInv, RobWindow, WindowLive, StationsUnique, QueuesLive, RequestsLive,
      RequestsFew

(* The invariant is inductive.                                             *)
LEMMA NextIInv ==
    ASSUME RoomAssumption, IInv, [Next]_vars
    PROVE  IInv'
<1>1. CASE UNCHANGED vars
  BY <1>1
  DEF vars, robVars, ratVars, prfVars, backVars, IInv, TypeOK, RobWindow,
      WindowLive, StationsUnique, QueuesLive, RequestsLive, RequestsFew,
      LiveTags, age, entry
<1>2. CASE \E pkt : \E u : \E f \in Reports : PacketOf(pkt, u) /\ Cycle(pkt, u, f)
  BY <1>2, TypeStep, WindowStep, RequestsStep DEF IInv
<1> QED BY <1>1, <1>2, NextIsCycle

(* Three requests fit the queue.                                           *)
LEMMA FewFit ==
    ASSUME RequestsFew
    PROVE  Cardinality(requests) < FlushCap
<1>1. PICK a, b, c : requests \subseteq {a, b, c}
  BY DEF RequestsFew
<1>2. /\ IsFiniteSet({a, b, c}) /\ Cardinality({a, b, c}) <= 3
  <2>1. IsFiniteSet({a}) /\ Cardinality({a}) = 1
    BY FS_Singleton
  <2>2. /\ IsFiniteSet({a} \cup {b})
        /\ Cardinality({a} \cup {b}) \in Nat /\ Cardinality({a} \cup {b}) <= 2
    BY <2>1, FS_AddElement, FS_CardinalityType
  <2> DEFINE T == {a} \cup {b}
  <2>3. IsFiniteSet(T \cup {c}) /\ Cardinality(T \cup {c}) <= 3
    <3>1. /\ IsFiniteSet(T)
          /\ Cardinality(T) \in Nat /\ Cardinality(T) <= 2
      BY <2>2
    <3> HIDE DEF T
    <3> QED BY <3>1, FS_AddElement
  <2>4. {a, b, c} = T \cup {c}
    OBVIOUS
  <2> QED BY <2>3, <2>4
<1>3. Cardinality(requests) <= Cardinality({a, b, c})
  BY <1>1, <1>2, FS_Subset
<1>4. Cardinality(requests) \in Nat /\ Cardinality({a, b, c}) \in Nat
  BY <1>1, <1>2, FS_Subset, FS_CardinalityType
<1> QED BY <1>2, <1>3, <1>4, FlushAssumption

(* For every size of the machine and every program that keeps to           *)
(* RoomAssumption: the types hold, the ROB window never overflows or holds *)
(* a foreign entry, every pending squash names a live instruction with its *)
(* own checkpoint, and the flush queue never overflows (its "flush arbiter *)
(* overload!" exception is unreachable).                                   *)
THEOREM BackendSafe ==
    ASSUME RoomAssumption
    PROVE  Spec => [](TypeOK /\ RobWindow /\ RequestsServable)
<1>1. IInv /\ [Next]_vars => IInv'
  BY NextIInv
<1>2. IInv => TypeOK /\ RobWindow /\ RequestsServable
  BY FewFit DEF IInv, RequestsServable, RequestsLive
<1> QED BY <1>1, <1>2, InitIInv, PTL DEF Spec

(* The first part alone: tags and sequence numbers stay on allocated codes *)
(* of their rings and every table keeps its type, whatever a squash        *)
(* restores (ROB::tick, RAT::tick, PRF::tick).                             *)
THEOREM BackendTyped ==
    ASSUME RoomAssumption
    PROVE  Spec => []TypeOK
BY BackendSafe, PTL

(* The second part alone: the ROB never holds more than RobCap live        *)
(* instructions, and every slot of the window holds the one it is named    *)
(* after (ROB::push, flush, pop).                                          *)
THEOREM RobKeepsWindow ==
    ASSUME RoomAssumption
    PROVE  Spec => []RobWindow
BY BackendSafe, PTL

(* In every cycle of every such machine, an instruction leaves the ROB     *)
(* exactly as the ready head that is not being squashed, or as younger     *)
(* than the accepted squash target.                                        *)
THEOREM PreciseDeparture ==
    ASSUME RoomAssumption
    PROVE  Spec => LeavesByCommitOrSquash
<1>1. ASSUME IInv, [Next]_vars
      PROVE  [\A t \in LiveTags : t \notin LiveTags' <=> leaves(t)]_vars
  <2>1. ASSUME NEW pkt, NEW u, NEW f \in Reports,
               PacketOf(pkt, u), Cycle(pkt, u, f), NEW t \in LiveTags
        PROVE  t \notin LiveTags' <=> leaves(t)
    <3>1. LiveTags' = {x \in LiveTags \cup issuedTags(pkt) : Stays(x)}
      BY <1>1, <2>1, LiveStep DEF Cycle
    <3>2. kept(t) <=> ~(/\ squashDetect.needSquash
                        /\ isYounger(t, squashDetect.SquashTag))
      BY DEF kept, isYounger
    <3>3. t # next_tag /\ head # next_tag
      <4>1. /\ dist(head, t) \in Nat /\ dist(head, t) < dist(head, next_tag)
            /\ dist(head, next_tag) \in Nat
        BY <1>1, LiveFacts
      <4> QED BY <1>1, <4>1, DistFacts DEF IInv, TypeOK
    <3>4. ASSUME t = head, kept(t)
          PROVE  willCommit(squashDetect) <=>
                   /\ entry(t).isCommitReady
                   /\ squashDetect.needSquash => t # squashDetect.SquashTag
      <4>1. CASE ~squashDetect.needSquash
        BY <3>3, <3>4, <4>1
        DEF willCommit, survives, isEmpty, headEntry, entry
      <4>2. CASE squashDetect.needSquash
        <5> DEFINE S == squashDetect.SquashTag
        <5>1. S \in LiveTags
          BY <1>1, <4>2, SquashFacts
        <5>2. /\ S \in RobTags /\ t \in RobTags
              /\ dist(head, S) \in Nat /\ dist(head, S) < RobCap
              /\ dist(head, t) \in Nat /\ dist(head, t) < RobCap
          BY <1>1, <5>1, LiveFacts, RobAssumption
        <5>3. isOlder(t, S) <=> t # S
          BY <3>4, <5>2, DistOlder, DistFacts
        <5> QED BY <3>3, <3>4, <4>2, <5>3
            DEF willCommit, survives, isEmpty, headEntry, entry
      <4> QED BY <4>1, <4>2
    <3> QED BY <3>1, <3>2, <3>4 DEF Stays, leaves
  <2> QED BY <1>1, <2>1, NextIsCycle
<1>2. IInv /\ [Next]_vars => IInv'
  BY NextIInv
<1>3. IInv /\ [Next]_vars =>
        [\A t \in LiveTags : t \notin LiveTags' <=> leaves(t)]_vars
  BY <1>1
<1> QED BY <1>2, <1>3, InitIInv, PTL DEF Spec, LeavesByCommitOrSquash

-----------------------------------------------------------------------------
(***************************************************************************)
(* Proofs about register renaming, for every size of the ROB, the register *)
(* file and the checkpoint pool: the alias table, the free list and their  *)
(* checkpoints always agree with the instructions in the ROB, through any  *)
(* overlap of issue, completion, commit and squash in one cycle.           *)
(*                                                                         *)
(* The state is seen through operators of plain values (a queue of         *)
(* entries, a head, a map), so that one lemma serves the state before a    *)
(* cycle, the state after it, and the moment between squash and commit.    *)
(***************************************************************************)

-----------------------------------------------------------------------------
(* Renames.                                                                *)

(* The instruction under tag t has a destination register, it is r.        *)
Alloc(q, t) == q[robSlot(t)].newPhy # InvalidPhy

Writes(q, t, r) == Alloc(q, t) /\ q[robSlot(t)].dest = r

(* p is the register that r is mapped to by the map cr and the renames of  *)
(* the instructions in S, whose ages are counted from h.                   *)
Maps(q, h, cr, S, r, p) ==
    \/ p = cr[r] /\ \A t \in S : ~Writes(q, t, r)
    \/ \E t \in S : /\ Writes(q, t, r)
                    /\ p = q[robSlot(t)].newPhy
                    /\ \A v \in S : Writes(q, v, r) => dist(h, v) <= dist(h, t)

UpTo(h, L, t) == {v \in L : dist(h, v) <= dist(h, t)}

Before(h, L, t) == {v \in L : dist(h, v) < dist(h, t)}

(* How many registers the instructions of L younger than t hold.           *)
Younger(q, h, L, t) == {v \in L : dist(h, v) > dist(h, t) /\ Alloc(q, v)}

Holders(q, L) == {v \in L : Alloc(q, v)}

-----------------------------------------------------------------------------
(* The inductive invariant, beyond that of BackendProofs.                  *)

(* The map, the checkpoints, the replaced registers and the sources of the *)
(* waiting instructions are what the renames give at their point.          *)
MapsRight ==
    /\ \A r \in Regs :
         Maps(ROBqueue, head, commitRAT, LiveTags, r, RAT_PRF[r])
    /\ \A t \in LiveTags, r \in Regs :
         Maps(ROBqueue, head, commitRAT, UpTo(head, LiveTags, t), r,
              ratCkpt[entry(t).ckptId][r])
    /\ \A t \in LiveTags : Alloc(ROBqueue, t) =>
         Maps(ROBqueue, head, commitRAT, Before(head, LiveTags, t),
              entry(t).dest, entry(t).oldPhy)
    /\ \A w \in window : \A op \in w.ops :
         Maps(ROBqueue, head, commitRAT, Before(head, LiveTags, w.tag),
              op[1], op[2])

(* The checkpoint ids of the live instructions count backwards from the    *)
(* next one.                                                               *)
IdsConsecutive ==
    \A t \in LiveTags :
        entry(t).ckptId + (dist(head, next_tag) - dist(head, t))
          \in {nextCkptId, nextCkptId + CkptCap}

(* An entry with a register is a plain result or a link, of a register     *)
(* other than x0, and waits for a unit with a result bus; an entry without *)
(* one replaces none.                                                      *)
EntriesSound ==
    /\ \A t \in LiveTags :
         IF Alloc(ROBqueue, t)
           THEN /\ entry(t).type \in {"REGISTER", "LINK"}
                /\ ~entry(t).halt /\ entry(t).dest # 0
           ELSE entry(t).oldPhy = InvalidPhy
    /\ \A w \in window : Alloc(ROBqueue, w.tag) => w.unit \in CdbUnits

-----------------------------------------------------------------------------
(* Registers.                                                              *)

pd(a, b) == prfSeqDistance(a, b)

(* The last RobCap positions before the tail of the free list: the free    *)
(* registers and, behind them, the registers handed out to the live        *)
(* instructions, which a squash takes back.                                *)
InRing(tail, x) == pd(x, tail) \in 1 .. RobCap

(* The state of a free list with head hs, tail T, slots fl and saved heads *)
(* ck against the instructions L, whose ages are counted from h: the free  *)
(* registers and those of L fill the ring; a saved head lies as far behind *)
(* the head as younger instructions have taken registers; and the slots    *)
(* behind the head still hold what was handed out, youngest first.         *)
RingRight(q, h, L, hs, T, fl, ck) ==
    /\ pd(hs, T) + Cardinality(Holders(q, L)) = RobCap
    /\ \A t \in L :
         pd(ck[q[robSlot(t)].ckptId], hs) = Cardinality(Younger(q, h, L, t))
    /\ \A t \in Holders(q, L) : \A x \in PrfSeqs :
         pd(x, hs) = Cardinality(Younger(q, h, L, t)) + 1
           => fl[prfSlot(x)] = q[robSlot(t)].newPhy

(* The ring before T and the committed map cr name every register but P0   *)
(* exactly once.                                                           *)
NamedOnce(T, fl, cr) ==
    /\ \A x \in PrfSeqs : InRing(T, x) =>
         /\ fl[prfSlot(x)] # InvalidPhy
         /\ \A y \in PrfSeqs :
              InRing(T, y) /\ fl[prfSlot(x)] = fl[prfSlot(y)] => x = y
         /\ \A r \in Regs \ {0} : fl[prfSlot(x)] # cr[r]
    /\ \A r \in Regs \ {0} :
         /\ cr[r] # InvalidPhy
         /\ \A s \in Regs \ {0} : cr[r] = cr[s] => r = s
    /\ \A p \in Phys \ {InvalidPhy} :
         \/ \E x \in PrfSeqs : InRing(T, x) /\ fl[prfSlot(x)] = p
         \/ \E r \in Regs \ {0} : cr[r] = p

RInv ==
    /\ MapsRight
    /\ IdsConsecutive
    /\ EntriesSound
    /\ RingRight(ROBqueue, head, LiveTags, headSeq, tailSeq, freeList, PRFHeadCkpt)
    /\ NamedOnce(tailSeq, freeList, commitRAT)
    /\ ReadyMeansProduced

-----------------------------------------------------------------------------
(* One cycle, split into what issue and squash do and what commit does.    *)

(* The live instructions after issue and squash, before commit.            *)
KeptTags(pkt) == {t \in LiveTags \cup issuedTags(pkt) : kept(t)}

commits == willCommit(squashDetect)

(* The tags of the window and the next one, by age.                        *)
LEMMA FrameFacts ==
    ASSUME IInv
    PROVE  /\ head \in RobTags /\ next_tag \in RobTags
           /\ dist(head, head) = 0
           /\ dist(head, next_tag) \in Nat /\ dist(head, next_tag) <= RobCap
           /\ next_tag \notin LiveTags
           /\ LiveTags \subseteq RobTags
           /\ \A t \in LiveTags : /\ dist(head, t) \in Nat
                                   /\ dist(head, t) < dist(head, next_tag)
           /\ head # next_tag => head \in LiveTags
<1>1. head \in RobTags /\ next_tag \in RobTags
  BY DEF IInv, TypeOK
<1>2. dist(head, head) = 0
  BY <1>1, DistFacts
<1>3. dist(head, next_tag) \in Nat /\ dist(head, next_tag) <= RobCap
  BY <1>1, DistFacts, RobAssumption DEF IInv, RobWindow, age, dist
<1>4. \A t \in LiveTags : /\ t \in RobTags /\ dist(head, t) \in Nat
                          /\ dist(head, t) < dist(head, next_tag)
  BY LiveFacts
<1>5. head # next_tag => head \in LiveTags
  <2>1. head # next_tag => dist(head, next_tag) # 0
    BY <1>1, DistFacts
  <2> QED BY <1>1, <1>2, <1>3, <2>1 DEF LiveTags, age, dist
<1> QED BY <1>1, <1>2, <1>3, <1>4, <1>5

(* Ages are unique.                                                        *)
LEMMA AgeUnique ==
    ASSUME NEW h \in RobTags, NEW a \in RobTags, NEW b \in RobTags,
           dist(h, a) = dist(h, b)
    PROVE  a = b
BY DistFacts

(* Issue adds the next tag; a squash keeps its target and what is older.   *)
LEMMA KeptFacts ==
    ASSUME IInv, NEW pkt, NEW u, PacketOf(pkt, u)
    PROVE  /\ pkt.valid => /\ ~squashDetect.needSquash
                           /\ dist(head, next_tag) < RobCap
           /\ ~squashDetect.needSquash =>
                KeptTags(pkt) = LiveTags \cup issuedTags(pkt)
           /\ squashDetect.needSquash =>
                LET S == squashDetect.SquashTag
                IN  /\ ~pkt.valid
                    /\ S \in LiveTags
                    /\ squashDetect.CkptId = entry(S).ckptId
                    /\ KeptTags(pkt) = UpTo(head, LiveTags, S)
           /\ KeptTags(pkt) \subseteq RobTags
           /\ \A t \in KeptTags(pkt) : dist(head, t) \in Nat
<1>1. ASSUME pkt.valid
      PROVE  ~squashDetect.needSquash /\ dist(head, next_tag) < RobCap
  <2>1. ~squashDetect.needSquash /\ ~isFull
    BY <1>1 DEF PacketOf, NoPacket
  <2>2. dist(head, next_tag) # RobCap
    BY <2>1, FrameFacts, SlotFacts, RobAssumption DEF isFull
  <2> QED BY <2>1, <2>2, FrameFacts, RobAssumption
<1>2. ~squashDetect.needSquash =>
        KeptTags(pkt) = LiveTags \cup issuedTags(pkt)
  BY DEF KeptTags, kept
<1>3. ASSUME squashDetect.needSquash
      PROVE  LET S == squashDetect.SquashTag
             IN  /\ ~pkt.valid
                 /\ S \in LiveTags
                 /\ squashDetect.CkptId = entry(S).ckptId
                 /\ KeptTags(pkt) = UpTo(head, LiveTags, S)
  <2> DEFINE S == squashDetect.SquashTag
  <2>1. /\ ~pkt.valid /\ S \in LiveTags
        /\ squashDetect.CkptId = entry(S).ckptId
    BY <1>1, <1>3, SquashFacts
  <2>2. \A t \in LiveTags : kept(t) <=> dist(head, t) <= dist(head, S)
    <3> TAKE t \in LiveTags
    <3>1. /\ t \in RobTags /\ S \in RobTags /\ head \in RobTags
          /\ dist(head, t) \in Nat /\ dist(head, t) < RobCap
          /\ dist(head, S) \in Nat /\ dist(head, S) < RobCap
      BY <2>1, FrameFacts, RobAssumption
    <3>2. isOlder(S, t) <=> dist(head, S) < dist(head, t)
      BY <3>1, DistOlder
    <3> QED BY <1>3, <3>1, <3>2 DEF kept
  <2>3. issuedTags(pkt) = {}
    BY <2>1 DEF issuedTags
  <2> QED BY <2>1, <2>2, <2>3 DEF KeptTags, UpTo
<1>4. KeptTags(pkt) \subseteq RobTags /\ \A t \in KeptTags(pkt) : dist(head, t) \in Nat
  BY FrameFacts DEF KeptTags, issuedTags
<1> QED BY <1>1, <1>2, <1>3, <1>4

(* Commit removes the head, which issue and squash have kept.              *)
LEMMA CommitFacts ==
    ASSUME IInv, NEW pkt, NEW u, NEW f \in Reports,
           PacketOf(pkt, u), Cycle(pkt, u, f)
    PROVE  /\ commits =>
                /\ head \in LiveTags /\ head \in KeptTags(pkt)
                /\ entry(head).isCommitReady
                /\ head' = robNextTag(head)
                /\ LiveTags' = KeptTags(pkt) \ {head}
                /\ \A t \in KeptTags(pkt) \ {head} :
                     dist(head', t) = dist(head, t) - 1
           /\ ~commits => head' = head /\ LiveTags' = KeptTags(pkt)
<1>1. LiveTags' = {t \in KeptTags(pkt) : ~(commits /\ t = head)}
  BY LiveStep DEF Cycle, KeptTags, Stays, commits
<1>2. head' = IF commits THEN robNextTag(head) ELSE head
  BY DEF Cycle, ROBtick, commits
<1>3. ASSUME commits
      PROVE  /\ head \in LiveTags /\ head \in KeptTags(pkt)
             /\ entry(head).isCommitReady
             /\ \A t \in KeptTags(pkt) \ {head} :
                  dist(head', t) = dist(head, t) - 1
  <2>1. head \in LiveTags /\ entry(head).isCommitReady
    BY <1>3, FrameFacts DEF commits, willCommit, isEmpty, headEntry, entry
  <2>2. kept(head)
    <3>1. CASE ~squashDetect.needSquash
      BY <3>1 DEF kept
    <3>2. CASE squashDetect.needSquash
      <4>1. squashDetect.SquashTag \in LiveTags
        BY <3>2, SquashFacts
      <4>2. head \in UpTo(head, LiveTags, squashDetect.SquashTag)
        BY <2>1, <4>1, FrameFacts DEF UpTo
      <4>3. head \in KeptTags(pkt)
        BY <3>2, <4>2, KeptFacts
      <4> QED BY <4>3 DEF KeptTags
    <3> QED BY <3>1, <3>2
  <2>3. \A t \in KeptTags(pkt) \ {head} : dist(head', t) = dist(head, t) - 1
    BY <1>2, <1>3, FrameFacts, KeptFacts, DistPop
  <2> QED BY <2>1, <2>2, <2>3 DEF KeptTags
<1> QED BY <1>1, <1>2, <1>3

(* A live entry keeps everything but its ready flag, and the issued entry  *)
(* is the packet's.                                                        *)
LEMMA SameEntries ==
    ASSUME IInv, NEW pkt, NEW u, NEW f \in Reports,
           PacketOf(pkt, u), Cycle(pkt, u, f)
    PROVE  /\ \A t \in LiveTags :
                LET e == ROBqueue[robSlot(t)]
                    d == ROBqueue'[robSlot(t)]
                IN  /\ d.type = e.type /\ d.halt = e.halt /\ d.dest = e.dest
                    /\ d.ckptId = e.ckptId
                    /\ d.newPhy = e.newPhy /\ d.oldPhy = e.oldPhy
                    /\ e \in EntryType
           /\ pkt.valid =>
                LET e == pkt.robEntry
                    d == ROBqueue'[robSlot(next_tag)]
                IN  /\ d.type = e.type /\ d.halt = e.halt /\ d.dest = e.dest
                    /\ d.ckptId = e.ckptId
                    /\ d.newPhy = e.newPhy /\ d.oldPhy = e.oldPhy
                    /\ e \in EntryType
<1>1. /\ \A t \in LiveTags :
           ROBqueue'[robSlot(t)] =
             IF t \in robDone(f) THEN [entry(t) EXCEPT !.isCommitReady = TRUE]
                                 ELSE entry(t)
      /\ pkt.valid => ROBqueue'[robSlot(next_tag)] =
                         [pkt.robEntry EXCEPT !.tag = next_tag]
  BY ReportFacts, EntryStep DEF Cycle
<1>2. \A t \in LiveTags : entry(t) \in EntryType
  BY FrameFacts, SlotFacts DEF IInv, TypeOK, entry
<1>3. pkt.robEntry \in EntryType
  BY PacketType DEF IInv
<1>4. ASSUME NEW t \in LiveTags
      PROVE  LET e == ROBqueue[robSlot(t)]
                 d == ROBqueue'[robSlot(t)]
             IN  /\ d.type = e.type /\ d.halt = e.halt /\ d.dest = e.dest
                 /\ d.ckptId = e.ckptId
                 /\ d.newPhy = e.newPhy /\ d.oldPhy = e.oldPhy
                 /\ e \in EntryType
  <2>1. /\ entry(t) \in EntryType
        /\ ROBqueue'[robSlot(t)] = [entry(t) EXCEPT !.isCommitReady = TRUE]
           \/ ROBqueue'[robSlot(t)] = entry(t)
    BY <1>1, <1>2
  <2> QED BY <2>1 DEF entry, EntryType
<1>5. ASSUME pkt.valid
      PROVE  LET e == pkt.robEntry
                 d == ROBqueue'[robSlot(next_tag)]
             IN  /\ d.type = e.type /\ d.halt = e.halt /\ d.dest = e.dest
                 /\ d.ckptId = e.ckptId
                 /\ d.newPhy = e.newPhy /\ d.oldPhy = e.oldPhy
                 /\ e \in EntryType
  BY <1>1, <1>3, <1>5 DEF EntryType
<1> QED BY <1>4, <1>5

(* The entry of an issued instruction (IssueArbiter::build).               *)
LEMMA IssuedEntry ==
    ASSUME IInv, NEW pkt, NEW u, PacketOf(pkt, u), pkt.valid
    PROVE  /\ u \in Uop /\ u.rd \in Regs
           /\ pkt.allocDest = allocates(u)
           /\ pkt.isControl = (u.kind = "LINK")
           /\ pkt.robEntry.ckptId = nextCkptId
           /\ allocates(u) =>
                /\ u.kind \in {"ALU", "MUL", "DIV", "LOAD", "LINK"}
                /\ u.rd # 0
                /\ pkt.phy = freeListHead
                /\ pkt.robEntry.newPhy = freeListHead
                /\ pkt.robEntry.oldPhy = RAT_PRF[u.rd]
                /\ pkt.robEntry.dest = u.rd
                /\ pkt.robEntry.halt = FALSE
                /\ pkt.robEntry.type = IF u.kind = "LINK" THEN "LINK"
                                                          ELSE "REGISTER"
           /\ ~allocates(u) => /\ pkt.robEntry.newPhy = InvalidPhy
                               /\ pkt.robEntry.oldPhy = InvalidPhy
<1>1. /\ u \in Uops /\ u.kind # "INVALID"
      /\ pkt = IssuePacket(u, nextCkptId)
  BY DEF PacketOf, NoPacket
<1>2. u \in Uop /\ u.rd \in Regs
  BY <1>1, BackendAssumption DEF Uop
<1>3. robEntryOf(u, nextCkptId) =
        [tag |-> NoTag, type |-> entryType(u),
         isCommitReady |-> (u.kind = "HALT"), halt |-> (u.kind = "HALT"),
         dest |-> IF u.kind \in {"STORE", "BRANCH"} THEN 0 ELSE u.rd,
         ckptId |-> nextCkptId,
         newPhy |-> IF allocates(u) THEN freeListHead ELSE InvalidPhy,
         oldPhy |-> IF allocates(u) THEN RAT_PRF[u.rd] ELSE InvalidPhy]
  BY <1>1 DEF robEntryOf, DefaultEntry
<1>4. /\ pkt.robEntry = robEntryOf(u, nextCkptId)
      /\ pkt.allocDest = allocates(u) /\ pkt.isControl = (u.kind = "LINK")
      /\ pkt.phy = IF allocates(u) THEN freeListHead ELSE InvalidPhy
  BY <1>1 DEF IssuePacket
<1>5. allocates(u) =>
        /\ u.kind \in {"ALU", "MUL", "DIV", "LOAD", "LINK"} /\ u.rd # 0
        /\ entryType(u) = IF u.kind = "LINK" THEN "LINK" ELSE "REGISTER"
        /\ (u.kind = "HALT") = FALSE
  BY DEF allocates, entryType
<1>6. pkt.robEntry.ckptId = nextCkptId
  BY <1>3, <1>4
<1>7. CASE allocates(u)
  <2>1. robEntryOf(u, nextCkptId) =
          [tag |-> NoTag, type |-> IF u.kind = "LINK" THEN "LINK" ELSE "REGISTER",
           isCommitReady |-> FALSE, halt |-> FALSE, dest |-> u.rd,
           ckptId |-> nextCkptId,
           newPhy |-> freeListHead, oldPhy |-> RAT_PRF[u.rd]]
    BY <1>3, <1>5, <1>7
  <2>2. pkt.phy = freeListHead
    BY <1>4, <1>7
  <2> QED BY <1>2, <1>4, <1>5, <1>6, <1>7, <2>1, <2>2
<1>8. CASE ~allocates(u)
  <2>1. pkt.robEntry.newPhy = InvalidPhy /\ pkt.robEntry.oldPhy = InvalidPhy
    BY <1>3, <1>4, <1>8
  <2> QED BY <1>2, <1>4, <1>6, <1>8, <2>1
<1> QED BY <1>7, <1>8

-----------------------------------------------------------------------------
(* Maps.                                                                   *)

(* Maps is the relation that mapping computes.                             *)
LEMMA MapsIsMapping ==
    ASSUME IInv, NEW S \in SUBSET LiveTags, NEW r, NEW p,
           Maps(ROBqueue, head, commitRAT, S, r, p)
    PROVE  mapping(r, S) = p
<1> DEFINE writers == {t \in S : entry(t).newPhy # InvalidPhy /\ entry(t).dest = r}
<1>1. writers = {t \in S : Writes(ROBqueue, t, r)}
  BY DEF Writes, Alloc, entry
<1>2. mapping(r, S) =
        IF writers = {} THEN commitRAT[r]
        ELSE entry(CHOOSE t \in writers :
                     \A v \in writers : dist(head, v) <= dist(head, t)).newPhy
  BY DEF mapping, age, dist
<1> HIDE DEF writers
<1>3. CASE p = commitRAT[r] /\ \A t \in S : ~Writes(ROBqueue, t, r)
  BY <1>1, <1>2, <1>3
<1>4. CASE \E t \in S : /\ Writes(ROBqueue, t, r)
                        /\ p = ROBqueue[robSlot(t)].newPhy
                        /\ \A v \in S : Writes(ROBqueue, v, r) =>
                                          dist(head, v) <= dist(head, t)
  <2>1. PICK t \in writers : /\ p = entry(t).newPhy
                             /\ \A v \in writers : dist(head, v) <= dist(head, t)
    BY <1>1, <1>4 DEF entry
  <2>2. ASSUME NEW w \in writers,
               \A v \in writers : dist(head, v) <= dist(head, w)
        PROVE  w = t
    <3>1. /\ w \in RobTags /\ t \in RobTags
          /\ dist(head, w) \in Nat /\ dist(head, t) \in Nat
      BY <1>1, FrameFacts
    <3>2. dist(head, w) = dist(head, t)
      BY <2>1, <2>2, <3>1
    <3> QED BY <3>1, <3>2, FrameFacts, AgeUnique
  <2>3. (CHOOSE w \in writers :
           \A v \in writers : dist(head, v) <= dist(head, w)) = t
    BY <2>1, <2>2
  <2> QED BY <1>2, <2>1, <2>3
<1> QED BY <1>3, <1>4 DEF Maps

(* Entries that agree give the same maps.                                  *)
LEMMA MapsSame ==
    ASSUME NEW q, NEW k, NEW h, NEW cr, NEW S, NEW r, NEW p,
           \A t \in S : /\ k[robSlot(t)].newPhy = q[robSlot(t)].newPhy
                        /\ k[robSlot(t)].dest = q[robSlot(t)].dest,
           Maps(q, h, cr, S, r, p)
    PROVE  Maps(k, h, cr, S, r, p)
BY DEF Maps, Writes, Alloc

(* A younger instruction that does not write r leaves r alone.             *)
LEMMA MapsAdd ==
    ASSUME NEW q, NEW h, NEW cr, NEW S, NEW r, NEW p, NEW n,
           ~Writes(q, n, r), Maps(q, h, cr, S, r, p)
    PROVE  Maps(q, h, cr, S \cup {n}, r, p)
BY DEF Maps

(* Commit moves the head's rename from the ROB to the committed map.       *)
LEMMA MapsCommit ==
    ASSUME IInv, NEW pkt, NEW u, NEW f \in Reports,
           PacketOf(pkt, u), Cycle(pkt, u, f),
           NEW S \in SUBSET KeptTags(pkt), commits => head \in S,
           NEW r \in Regs, NEW p,
           Maps(ROBqueue', head, commitRAT, S, r, p)
    PROVE  Maps(ROBqueue', head', commitRAT', {t \in S : ~(commits /\ t = head)},
                r, p)
<1> DEFINE q == ROBqueue'
           D == {t \in S : ~(commits /\ t = head)}
<1>1. CASE ~commits
  <2>1. D = S /\ head' = head /\ commitRAT' = commitRAT
    BY <1>1, CommitFacts DEF Cycle, CommitTick, commits
  <2> QED BY <2>1
<1>2. CASE commits
  <2>1. /\ head \in LiveTags /\ D = S \ {head}
        /\ \A t \in D : dist(head', t) = dist(head, t) - 1
        /\ \A t \in S : t \in RobTags /\ dist(head, t) \in Nat
    BY <1>2, CommitFacts, KeptFacts
  <2>2. commitRAT' = IF Alloc(q, head)
                       THEN [commitRAT EXCEPT ![q[robSlot(head)].dest] =
                                                  q[robSlot(head)].newPhy]
                       ELSE commitRAT
    <3>1. /\ q[robSlot(head)].newPhy = headEntry.newPhy
          /\ q[robSlot(head)].dest = headEntry.dest
      BY <2>1, SameEntries DEF headEntry
    <3> QED BY <1>2, <3>1 DEF Cycle, CommitTick, commits, Alloc
  <2>3. commitRAT \in [Regs -> Phys]
    BY DEF IInv, TypeOK
  <2> HIDE DEF q, D
  <2>4. commitRAT'[r] = IF Writes(q, head, r) THEN q[robSlot(head)].newPhy
                                              ELSE commitRAT[r]
    BY <2>2, <2>3 DEF Writes
  <2>5. ASSUME p = commitRAT[r], \A t \in S : ~Writes(q, t, r)
        PROVE  Maps(q, head', commitRAT', D, r, p)
    BY <1>2, <2>1, <2>4, <2>5 DEF Maps
  <2>6. ASSUME NEW t \in S, Writes(q, t, r), p = q[robSlot(t)].newPhy,
               \A v \in S : Writes(q, v, r) => dist(head, v) <= dist(head, t)
        PROVE  Maps(q, head', commitRAT', D, r, p)
    <3>1. CASE t = head
      <4>1. ASSUME NEW v \in D, Writes(q, v, r) PROVE FALSE
        <5>1. v \in S /\ v # head /\ dist(head, v) <= dist(head, head)
          BY <2>1, <2>6, <3>1, <4>1
        <5>2. dist(head, v) = dist(head, head)
          BY <2>1, <5>1, FrameFacts
        <5> QED BY <2>1, <5>1, <5>2, AgeUnique, FrameFacts
      <4> QED BY <2>4, <2>6, <3>1, <4>1 DEF Maps
    <3>2. CASE t # head
      <4>1. t \in D
        BY <2>1, <3>2
      <4>2. ASSUME NEW v \in D, Writes(q, v, r)
            PROVE  dist(head', v) <= dist(head', t)
        <5>1. v \in S /\ dist(head, v) <= dist(head, t)
          BY <2>1, <2>6, <4>2
        <5>2. dist(head, v) - 1 <= dist(head, t) - 1
          BY <2>1, <5>1
        <5> QED BY <2>1, <4>1, <4>2, <5>2
      <4> QED BY <2>6, <4>1, <4>2 DEF Maps
    <3> QED BY <3>1, <3>2
  <2>7. Maps(q, head', commitRAT', D, r, p)
    <3>1. Maps(q, head, commitRAT, S, r, p)
      BY DEF q
    <3> QED BY <2>5, <2>6, <3>1 DEF Maps
  <2> QED BY <2>7 DEF q, D
<1> QED BY <1>1, <1>2

(* What is older than a kept instruction is kept with it, and commit takes *)
(* the head out of every prefix.                                           *)
LEMMA Prefixes ==
    ASSUME IInv, NEW pkt, NEW u, NEW f \in Reports,
           PacketOf(pkt, u), Cycle(pkt, u, f), NEW t \in LiveTags'
    PROVE  /\ t \in KeptTags(pkt)
           /\ commits => t # head /\ head \in Before(head, KeptTags(pkt), t)
           /\ UpTo(head', LiveTags', t) =
                {v \in UpTo(head, KeptTags(pkt), t) : ~(commits /\ v = head)}
           /\ Before(head', LiveTags', t) =
                {v \in Before(head, KeptTags(pkt), t) : ~(commits /\ v = head)}
           /\ t \in LiveTags =>
                /\ UpTo(head, KeptTags(pkt), t) = UpTo(head, LiveTags, t)
                /\ Before(head, KeptTags(pkt), t) = Before(head, LiveTags, t)
           /\ t \notin LiveTags =>
                /\ pkt.valid /\ t = next_tag
                /\ UpTo(head, KeptTags(pkt), t) = KeptTags(pkt)
                /\ Before(head, KeptTags(pkt), t) = LiveTags
<1> DEFINE K == KeptTags(pkt)
<1>1. /\ LiveTags' = {v \in K : ~(commits /\ v = head)}
      /\ t \in K /\ (commits => t # head /\ head \in K)
  BY CommitFacts
<1>2. \A v \in K : v \in RobTags /\ dist(head, v) \in Nat
  BY KeptFacts
<1>3. commits => head \in Before(head, K, t)
  <2> SUFFICES ASSUME commits PROVE head \in Before(head, K, t)
    OBVIOUS
  <2>1. dist(head, t) # dist(head, head)
    BY <1>1, <1>2, AgeUnique, FrameFacts
  <2> QED BY <1>1, <1>2, <2>1, FrameFacts DEF Before
<1>4. \A v \in LiveTags' :
        /\ dist(head', v) <= dist(head', t) <=> dist(head, v) <= dist(head, t)
        /\ dist(head', v) < dist(head', t) <=> dist(head, v) < dist(head, t)
  <2> TAKE v \in LiveTags'
  <2>1. v \in K /\ (commits => v # head)
    BY <1>1
  <2>2. \/ dist(head', v) = dist(head, v) /\ dist(head', t) = dist(head, t)
        \/ /\ dist(head', v) = dist(head, v) - 1
           /\ dist(head', t) = dist(head, t) - 1
    BY <1>1, <2>1, CommitFacts
  <2>3. dist(head, v) \in Nat /\ dist(head, t) \in Nat
    BY <1>1, <1>2, <2>1
  <2> QED BY <2>2, <2>3
<1>5. /\ UpTo(head', LiveTags', t) = {v \in UpTo(head, K, t) : ~(commits /\ v = head)}
      /\ Before(head', LiveTags', t) = {v \in Before(head, K, t) : ~(commits /\ v = head)}
  BY <1>1, <1>4 DEF UpTo, Before
<1>6. ASSUME t \in LiveTags
      PROVE  /\ UpTo(head, K, t) = UpTo(head, LiveTags, t)
             /\ Before(head, K, t) = Before(head, LiveTags, t)
  <2>1. CASE squashDetect.needSquash
    <3> DEFINE S == squashDetect.SquashTag
    <3>1. K = UpTo(head, LiveTags, S) /\ S \in LiveTags
      BY <2>1, KeptFacts
    <3>2. dist(head, t) <= dist(head, S)
      BY <1>1, <3>1 DEF UpTo
    <3>3. \A v \in LiveTags : dist(head, v) \in Nat
      BY FrameFacts
    <3> HIDE DEF K, S
    <3> QED BY <1>6, <3>1, <3>2, <3>3 DEF UpTo, Before
  <2>2. CASE ~squashDetect.needSquash
    <3>1. K = LiveTags \cup issuedTags(pkt)
      BY <2>2, KeptFacts
    <3>2. dist(head, t) \in Nat /\ dist(head, t) < dist(head, next_tag)
          /\ dist(head, next_tag) \in Nat
      BY <1>6, FrameFacts
    <3> HIDE DEF K
    <3> QED BY <3>1, <3>2 DEF UpTo, Before, issuedTags
  <2> QED BY <2>1, <2>2
<1>7. ASSUME t \notin LiveTags
      PROVE  /\ pkt.valid /\ t = next_tag
             /\ UpTo(head, K, t) = K /\ Before(head, K, t) = LiveTags
  <2>1. pkt.valid /\ t = next_tag
    BY <1>1, <1>7 DEF KeptTags, issuedTags
  <2>2. K = LiveTags \cup {next_tag}
    BY <2>1, KeptFacts DEF issuedTags
  <2>3. /\ \A v \in LiveTags : /\ dist(head, v) \in Nat
                                /\ dist(head, v) < dist(head, next_tag)
        /\ dist(head, next_tag) \in Nat
    BY FrameFacts
  <2> HIDE DEF K
  <2> QED BY <2>1, <2>2, <2>3 DEF UpTo, Before
<1> QED BY <1>1, <1>3, <1>5, <1>6, <1>7

(* The id of the next instruction is not the id of a live one, as the      *)
(* checkpoint pool is at least as large as the ROB.                        *)
LEMMA NextIdFree ==
    ASSUME IInv, IdsConsecutive, dist(head, next_tag) < RobCap,
           NEW t \in LiveTags
    PROVE  entry(t).ckptId # nextCkptId
<1>1. /\ dist(head, t) \in Nat /\ dist(head, next_tag) \in Nat
      /\ dist(head, t) < dist(head, next_tag)
  BY FrameFacts
<1>2. nextCkptId \in 0 .. CkptCap - 1 /\ entry(t).ckptId \in 0 .. CkptCap - 1
  <2>1. robSlot(t) \in RobSlots
    BY FrameFacts, SlotFacts
  <2> QED BY <2>1 DEF IInv, TypeOK, Ckpts, entry, EntryType
<1>3. entry(t).ckptId + (dist(head, next_tag) - dist(head, t))
        \in {nextCkptId, nextCkptId + CkptCap}
  BY DEF IdsConsecutive
<1> QED BY <1>1, <1>2, <1>3, RobAssumption

(* Checkpoint ids are handed out in order and rewound by a squash to the   *)
(* id after the target's.                                                  *)
LEMMA IdsStep ==
    ASSUME IInv, IdsConsecutive, NEW pkt, NEW u, NEW f \in Reports,
           PacketOf(pkt, u), Cycle(pkt, u, f)
    PROVE  IdsConsecutive'
<1> SUFFICES ASSUME NEW t \in LiveTags'
             PROVE  ROBqueue'[robSlot(t)].ckptId
                      + (dist(head', next_tag') - dist(head', t))
                      \in {nextCkptId', nextCkptId' + CkptCap}
  BY DEF IdsConsecutive, entry, robSlot, dist
<1> DEFINE n == dist(head, next_tag)
           a == dist(head, t)
           end == IF squashDetect.needSquash
                    THEN dist(head, squashDetect.SquashTag) + 1
                    ELSE IF pkt.valid THEN n + 1 ELSE n
<1>1. /\ t \in KeptTags(pkt) /\ t \in RobTags /\ a \in Nat
      /\ commits => t # head
  BY Prefixes, KeptFacts
<1>2. \A x \in LiveTags : ROBqueue[robSlot(x)].ckptId \in 0 .. CkptCap - 1
  BY SameEntries DEF EntryType, Ckpts
<1>3. nextCkptId \in 0 .. CkptCap - 1
  BY DEF IInv, TypeOK, Ckpts
<1>4. /\ n \in Nat /\ n <= RobCap /\ (pkt.valid => n < RobCap)
      /\ \A x \in LiveTags : dist(head, x) \in Nat /\ dist(head, x) < n
  BY FrameFacts, KeptFacts
<1>5. dist(head', next_tag') - dist(head', t) = end - a
  <2>1. next_tag' \in RobTags /\ dist(head, next_tag') = end
    <3>1. ROBtick(pkt, robDone(f), squashDetect) /\ next_tag' \in RobTags
      BY LiveStep DEF Cycle
    <3>2. CASE squashDetect.needSquash
      <4>1. /\ squashDetect.SquashTag \in LiveTags /\ ~pkt.valid
            /\ entry(squashDetect.SquashTag).tag = squashDetect.SquashTag
        BY <3>2, KeptFacts, LiveFacts
      <4>2. head # next_tag
        BY <1>4, <4>1, FrameFacts
      <4>3. next_tag' = robNextTag(squashDetect.SquashTag)
        BY <3>1, <3>2, <4>1, <4>2
           DEF ROBtick, flushedTail, pushedTail, pushedQueue, entry
      <4>4. dist(head, squashDetect.SquashTag) < 2 * RobCap - 1
        BY <1>4, <4>1, RobAssumption
      <4>5. dist(head, next_tag') = dist(head, squashDetect.SquashTag) + 1
        BY <4>1, <4>3, <4>4, DistNext, FrameFacts
      <4> QED BY <3>1, <3>2, <4>5
    <3>3. CASE ~squashDetect.needSquash /\ pkt.valid
      <4>1. next_tag' = robNextTag(next_tag)
        BY <3>1, <3>3 DEF ROBtick, flushedTail, pushedTail
      <4>2. n < 2 * RobCap - 1
        BY <1>4, <3>3, RobAssumption
      <4> QED BY <3>1, <3>3, <4>1, <4>2, DistNext, FrameFacts
    <3>4. CASE ~squashDetect.needSquash /\ ~pkt.valid
      <4>1. next_tag' = next_tag
        BY <3>1, <3>4 DEF ROBtick, flushedTail, pushedTail
      <4> QED BY <3>1, <3>4, <4>1
    <3> QED BY <3>2, <3>3, <3>4
  <2>2. CASE ~commits
    BY <2>1, <2>2, CommitFacts
  <2>3. CASE commits
    <3>1. /\ dist(head', t) = a - 1 /\ head' = robNextTag(head)
      BY <1>1, <2>3, CommitFacts
    <3>2. end >= 1 /\ end \in Nat
      <4>1. head \in LiveTags
        BY <2>3, CommitFacts
      <4>2. squashDetect.needSquash => squashDetect.SquashTag \in LiveTags
        BY KeptFacts
      <4> QED BY <1>4, <4>1, <4>2
    <3>3. next_tag' # head
      BY <2>1, <3>2, FrameFacts
    <3>4. dist(head', next_tag') = end - 1
      BY <2>1, <3>1, <3>3, DistPop, FrameFacts
    <3> QED BY <1>1, <3>1, <3>2, <3>4
  <2> QED BY <2>2, <2>3
<1>6. nextCkptId' =
        IF squashDetect.needSquash THEN ckptNext(squashDetect.CkptId)
        ELSE IF pkt.valid THEN ckptNext(nextCkptId) ELSE nextCkptId
  BY DEF Cycle, FrontTick
<1> DEFINE id == ROBqueue'[robSlot(t)].ckptId
<1>7. id + (end - a) \in {nextCkptId', nextCkptId' + CkptCap}
  <2>1. CASE t \in LiveTags
    <3>1. /\ id = ROBqueue[robSlot(t)].ckptId
          /\ id \in 0 .. CkptCap - 1
          /\ id + (n - a) \in {nextCkptId, nextCkptId + CkptCap}
      BY <1>2, <2>1, SameEntries DEF IdsConsecutive, entry
    <3>2. a < n
      BY <1>4, <2>1
    <3> HIDE DEF id, n, a
    <3>3. CASE squashDetect.needSquash
      <4> DEFINE S == squashDetect.SquashTag
                 k == ROBqueue[robSlot(S)].ckptId
                 b == dist(head, S)
      <4>1. /\ S \in LiveTags /\ squashDetect.CkptId = k
            /\ t \in UpTo(head, LiveTags, S)
        BY <1>1, <3>3, KeptFacts DEF entry
      <4>2. /\ k \in 0 .. CkptCap - 1 /\ b \in Nat /\ b < n /\ a <= b
            /\ k + (n - b) \in {nextCkptId, nextCkptId + CkptCap}
        BY <1>2, <1>4, <4>1 DEF IdsConsecutive, entry, UpTo, n, a
      <4>3. nextCkptId' = IF k = CkptCap - 1 THEN 0 ELSE k + 1
        BY <1>6, <3>3, <4>1 DEF ckptNext
      <4>4. end = b + 1
        BY <3>3
      <4> HIDE DEF S, k, b, end
      <4>5. a \in Nat /\ n \in Nat /\ n <= RobCap
        BY <1>1, <1>4 DEF a, n
      <4> QED
        BY <1>3, <3>1, <3>2, <4>2, <4>3, <4>4, <4>5, RobAssumption
    <3>4. CASE ~squashDetect.needSquash /\ pkt.valid
      <4>1. nextCkptId' = IF nextCkptId = CkptCap - 1 THEN 0 ELSE nextCkptId + 1
        BY <1>6, <3>4 DEF ckptNext
      <4>2. end = n + 1 /\ a \in Nat /\ n \in Nat /\ n < RobCap
        BY <1>1, <1>4, <3>4 DEF a, n
      <4> QED BY <1>3, <3>1, <3>2, <4>1, <4>2, RobAssumption
    <3>5. CASE ~squashDetect.needSquash /\ ~pkt.valid
      BY <1>6, <3>1, <3>5
    <3> QED BY <3>3, <3>4, <3>5
  <2>2. CASE t \notin LiveTags
    <3>1. pkt.valid /\ t = next_tag /\ ~squashDetect.needSquash
      BY <2>2, Prefixes, KeptFacts
    <3>2. id = nextCkptId
      <4>1. pkt.robEntry.ckptId = nextCkptId
        BY <3>1, IssuedEntry
      <4>2. ROBqueue'[robSlot(next_tag)].ckptId = pkt.robEntry.ckptId
        BY <3>1, SameEntries
      <4> QED BY <3>1, <4>1, <4>2
    <3>3. end - a = 1 /\ nextCkptId' = ckptNext(nextCkptId)
      BY <1>4, <1>6, <3>1
    <3> QED BY <1>3, <3>2, <3>3, RobAssumption DEF ckptNext
  <2> QED BY <2>1, <2>2
<1> QED BY <1>5, <1>7

-----------------------------------------------------------------------------
(* Sequence numbers of the free list.                                      *)

(* The ring of the free list is larger than the ROB, so that the positions *)
(* InRing names never wrap onto each other.                                *)
LEMMA PrfSizes ==
    /\ PrfCap \in Nat /\ PrfCap >= 2 /\ PrfSpan \in Nat /\ PrfCap <= PrfSpan
    /\ RobCap \in Nat /\ RobCap >= 2 /\ RobCap + 2 <= PrfCap
BY RobAssumption, PrfAssumption DEF PrfCap

(* Distances of sequence numbers (prfSeqDistance, prfSeqNext).             *)
LEMMA PdFacts ==
    ASSUME NEW a \in PrfSeqs, NEW b \in PrfSeqs
    PROVE  /\ pd(a, b) \in 0 .. 2 * PrfCap - 1
           /\ pd(a, b) = 0 <=> a = b
           /\ prfSeqNext(a) \in PrfSeqs
           /\ pd(a, b) < 2 * PrfCap - 1 => pd(a, prfSeqNext(b)) = pd(a, b) + 1
           /\ a # b => pd(prfSeqNext(a), b) = pd(a, b) - 1
           /\ prfSlot(a) \in Phys
           /\ prfSlot(a) = prfSlot(b) <=> pd(b, a) \in {0, PrfCap}
<1>1. pd(a, b) \in 0 .. 2 * PrfCap - 1 /\ (pd(a, b) = 0 <=> a = b)
  BY PrfSizes, DistanceRange DEF pd, prfSeqDistance, PrfSeqs
<1>2. /\ prfSeqNext(a) \in PrfSeqs
      /\ pd(a, b) < 2 * PrfCap - 1 => pd(a, prfSeqNext(b)) = pd(a, b) + 1
  BY PrfSizes, NextIsCode, NextAddsOne DEF pd, prfSeqDistance, PrfSeqs, prfSeqNext
<1>3. a # b => pd(prfSeqNext(a), b) = pd(a, b) - 1
  BY PrfSizes, NextOfStart DEF pd, prfSeqDistance, PrfSeqs, prfSeqNext
<1>4. prfSlot(a) \in Phys
  BY PrfSizes DEF PrfSeqs, Codes, SlotOf, prfSlot, Phys
<1>5. prfSlot(a) = prfSlot(b) <=> pd(b, a) \in {0, PrfCap}
  BY PrfSizes, SlotWraps DEF pd, prfSeqDistance, PrfSeqs, prfSlot
<1> QED BY <1>1, <1>2, <1>3, <1>4, <1>5

(* Distances are counts.                                                   *)
LEMMA PdNat ==
    ASSUME NEW a \in PrfSeqs, NEW b \in PrfSeqs
    PROVE  pd(a, b) \in Nat /\ pd(b, b) = 0 /\ (a # b => pd(a, b) # 0)
BY PdFacts, PrfSizes

(* Distances add up.                                                       *)
LEMMA PdAdd ==
    ASSUME NEW a \in PrfSeqs, NEW b \in PrfSeqs, NEW c \in PrfSeqs
    PROVE  /\ pd(a, b) + pd(b, c) < 2 * PrfCap => pd(a, c) = pd(a, b) + pd(b, c)
           /\ pd(a, c) >= pd(b, c) => pd(a, b) = pd(a, c) - pd(b, c)
           /\ pd(a, c) = pd(b, c) => a = b
<1>1. /\ pd(a, b) \in 0 .. 2 * PrfCap - 1 /\ pd(b, c) \in 0 .. 2 * PrfCap - 1
      /\ pd(a, c) \in 0 .. 2 * PrfCap - 1 /\ (pd(a, b) = 0 <=> a = b)
  BY PdFacts
<1>2. pd(a, b) + pd(b, c) \in {pd(a, c), pd(a, c) + 2 * PrfCap}
  BY PrfSizes, DistancesAdd DEF pd, prfSeqDistance, PrfSeqs
<1> QED BY <1>1, <1>2, PrfSizes

(* Positions of the ring that are less than one turn before the tail have  *)
(* slots of their own, and the slot of the tail is not among them.         *)
LEMMA RingSlots ==
    ASSUME NEW T \in PrfSeqs, NEW x \in PrfSeqs, NEW y \in PrfSeqs,
           InRing(T, x), y = T \/ InRing(T, y), prfSlot(x) = prfSlot(y)
    PROVE  x = y
<1>1. /\ pd(x, T) \in 1 .. RobCap /\ pd(y, T) \in 0 .. RobCap
  BY PdFacts, PrfSizes DEF InRing
<1>2. pd(x, y) \in {0, PrfCap} /\ pd(y, x) \in {0, PrfCap}
  BY PdFacts
<1>3. pd(x, T) >= pd(y, T) => pd(x, y) = pd(x, T) - pd(y, T)
  BY PdAdd
<1>4. pd(y, T) >= pd(x, T) => pd(y, x) = pd(y, T) - pd(x, T)
  BY PdAdd
<1>5. pd(x, T) = pd(y, T)
  BY <1>1, <1>2, <1>3, <1>4, PrfSizes
<1> QED BY <1>5, PdAdd

(* There is a position at every distance before a given one.               *)
LEMMA PdBefore ==
    ASSUME NEW T \in PrfSeqs, NEW n \in Nat, n <= RobCap
    PROVE  \E x \in PrfSeqs : pd(x, T) = n
<1>1. n \in 0 .. 2 * PrfCap - 1
  BY PrfSizes
<1> QED BY <1>1, PrfSizes, CodeBefore DEF pd, prfSeqDistance, PrfSeqs

-----------------------------------------------------------------------------
(* Counting the instructions of a window.                                  *)

(* Instructions younger than n of an origin are at most n.                 *)
LEMMA WindowFinite ==
    ASSUME NEW h \in RobTags, NEW L \in SUBSET RobTags, NEW n \in Nat,
           \A t \in L : dist(h, t) < n
    PROVE  IsFiniteSet(L) /\ Cardinality(L) \in Nat /\ Cardinality(L) <= n
<1> DEFINE g == [t \in L |-> dist(h, t)]
<1>1. g \in Injection(L, 0 .. n - 1)
  <2>1. g \in [L -> 0 .. n - 1]
    BY DistFacts, RobAssumption
  <2>2. \A a, b \in L : g[a] = g[b] => a = b
    BY DistFacts
  <2> HIDE DEF g
  <2> QED BY <2>1, <2>2 DEF Injection, IsInjective
<1>2. IsFiniteSet(0 .. n - 1) /\ Cardinality(0 .. n - 1) = n
  BY FS_Interval
<1> HIDE DEF g
<1>3. IsFiniteSet(L) /\ Cardinality(L) <= n
  BY <1>1, <1>2, FS_Injection
<1> QED BY <1>3, FS_CardinalityType

(* Holders and their younger ones are finitely many, and the older holder  *)
(* has the more of them.                                                   *)
LEMMA HolderCounts ==
    ASSUME NEW q, NEW h \in RobTags, NEW L \in SUBSET RobTags, IsFiniteSet(L)
    PROVE  /\ IsFiniteSet(Holders(q, L))
           /\ Cardinality(Holders(q, L)) \in Nat
           /\ \A t \in L :
                LET Y(v) == Younger(q, h, L, v)
                IN  /\ Y(t) \subseteq Holders(q, L)
                    /\ IsFiniteSet(Y(t)) /\ Cardinality(Y(t)) \in Nat
                    /\ Cardinality(Y(t)) <= Cardinality(Holders(q, L))
                    /\ Alloc(q, t) =>
                         /\ Cardinality(Y(t)) + 1 <= Cardinality(Holders(q, L))
                         /\ \A v \in L : dist(h, v) < dist(h, t) =>
                              Cardinality(Y(t)) + 1 <= Cardinality(Y(v))
<1> DEFINE Y(v) == Younger(q, h, L, v)
           H == Holders(q, L)
<1>1. H \subseteq L /\ \A t \in L : Y(t) \subseteq H
  BY DEF Holders, Younger
<1>2. \A S \in SUBSET L : IsFiniteSet(S) /\ Cardinality(S) \in Nat
  BY FS_Subset, FS_CardinalityType
<1>3. \A S, R \in SUBSET L : S \subseteq R => Cardinality(S) <= Cardinality(R)
  BY <1>2, FS_Subset
<1>4. ASSUME NEW S \in SUBSET L, NEW R \in SUBSET L, NEW t \in R \ S,
             S \subseteq R
      PROVE  Cardinality(S) + 1 <= Cardinality(R)
  <2>1. Cardinality(S \cup {t}) = Cardinality(S) + 1
    BY <1>2, <1>4, FS_AddElement
  <2>2. Cardinality(S \cup {t}) <= Cardinality(R)
    BY <1>3, <1>4
  <2> QED BY <2>1, <2>2
<1>5. \A t \in L : dist(h, t) \in Nat
  BY DistFacts, RobAssumption
<1>6. ASSUME NEW t \in L, Alloc(q, t)
      PROVE  Cardinality(Y(t)) + 1 <= Cardinality(H)
  <2>1. t \in H \ Y(t)
    BY <1>5, <1>6 DEF Holders, Younger
  <2> HIDE DEF H, Y
  <2> QED BY <1>1, <1>4, <1>6, <2>1
<1>7. ASSUME NEW t \in L, Alloc(q, t), NEW v \in L, dist(h, v) < dist(h, t)
      PROVE  Cardinality(Y(t)) + 1 <= Cardinality(Y(v))
  <2>1. t \in Y(v) \ Y(t) /\ Y(t) \subseteq Y(v)
    BY <1>5, <1>7 DEF Younger
  <2> HIDE DEF Y
  <2>2. Y(t) \subseteq L /\ Y(v) \subseteq L
    BY <1>1
  <2> QED BY <1>4, <2>1, <2>2
<1>8. \A t \in L : Y(t) \in SUBSET L /\ Y(t) \in SUBSET H /\ H \in SUBSET L
  BY <1>1
<1> HIDE DEF H, Y
<1>9. /\ IsFiniteSet(H) /\ Cardinality(H) \in Nat
      /\ \A t \in L : /\ Y(t) \subseteq H
                      /\ IsFiniteSet(Y(t)) /\ Cardinality(Y(t)) \in Nat
                      /\ Cardinality(Y(t)) <= Cardinality(H)
  BY <1>1, <1>2, <1>3, <1>8
<1>10. \A t \in L : Alloc(q, t) =>
         /\ Cardinality(Y(t)) + 1 <= Cardinality(H)
         /\ \A v \in L : dist(h, v) < dist(h, t) =>
              Cardinality(Y(t)) + 1 <= Cardinality(Y(v))
  BY <1>6, <1>7
<1> QED BY <1>9, <1>10 DEF H, Y

(* The holders' ranks, counted from the youngest, are all numbers up to    *)
(* their count.                                                            *)
LEMMA Ranks ==
    ASSUME NEW q, NEW h \in RobTags, NEW L \in SUBSET RobTags, IsFiniteSet(L),
           NEW j \in 1 .. Cardinality(Holders(q, L))
    PROVE  \E t \in Holders(q, L) : Cardinality(Younger(q, h, L, t)) + 1 = j
<1> DEFINE H == Holders(q, L)
           A == Cardinality(H)
           g == [t \in H |-> Cardinality(Younger(q, h, L, t)) + 1]
<1>1. H \subseteq L /\ IsFiniteSet(H) /\ A \in Nat
  BY HolderCounts DEF Holders
<1>2. \A t \in H : Alloc(q, t)
  BY DEF Holders
<1>3. \A t \in H : g[t] \in 1 .. A
  <2> TAKE t \in H
  <2>1. /\ Cardinality(Younger(q, h, L, t)) \in Nat
        /\ Cardinality(Younger(q, h, L, t)) + 1 <= A
    BY <1>1, <1>2, HolderCounts
  <2> HIDE DEF A, H
  <2> QED BY <1>1, <2>1
<1>4. \A a, b \in H : dist(h, a) < dist(h, b) => g[a] # g[b]
  <2> TAKE a, b \in H
  <2> SUFFICES ASSUME dist(h, a) < dist(h, b) PROVE g[a] # g[b]
    OBVIOUS
  <2>1. /\ Cardinality(Younger(q, h, L, b)) + 1 <= Cardinality(Younger(q, h, L, a))
        /\ Cardinality(Younger(q, h, L, a)) \in Nat
        /\ Cardinality(Younger(q, h, L, b)) \in Nat
    BY <1>1, <1>2, HolderCounts
  <2> HIDE DEF H
  <2> QED BY <2>1
<1>5. \A a, b \in H : g[a] = g[b] => a = b
  <2> TAKE a, b \in H
  <2>1. /\ a \in RobTags /\ b \in RobTags
        /\ dist(h, a) \in Nat /\ dist(h, b) \in Nat
    BY <1>1, DistFacts, RobAssumption
  <2> HIDE DEF g, H
  <2>2. g[a] = g[b] => dist(h, a) = dist(h, b)
    BY <1>4, <2>1
  <2> QED BY <2>1, <2>2, AgeUnique
<1>6. g \in [H -> 1 .. A]
  <2> HIDE DEF A, H
  <2> QED BY <1>3
<1>7. IsFiniteSet(1 .. A) /\ Cardinality(1 .. A) = A
  <2> HIDE DEF A
  <2> QED BY <1>1, FS_Interval
<1>8. g \in Injection(H, 1 .. A)
  <2> HIDE DEF g, A, H
  <2> QED BY <1>5, <1>6 DEF Injection, IsInjective
<1>9. g \in Surjection(H, 1 .. A)
  BY <1>7, <1>8, FS_Injection
<1>10. \E t \in H : g[t] = j
  <2>1. j \in 1 .. A
    OBVIOUS
  <2> HIDE DEF g, H, A
  <2> QED BY <1>9, <2>1 DEF Surjection
<1> QED BY <1>10

-----------------------------------------------------------------------------
(* The free list through issue, squash and commit.                         *)

(* Entries that agree see the same free list.                              *)
LEMMA RingSame ==
    ASSUME NEW q, NEW k, NEW h, NEW L, NEW hs, NEW T, NEW fl, NEW ck,
           \A t \in L : /\ k[robSlot(t)].newPhy = q[robSlot(t)].newPhy
                        /\ k[robSlot(t)].ckptId = q[robSlot(t)].ckptId,
           RingRight(q, h, L, hs, T, fl, ck)
    PROVE  RingRight(k, h, L, hs, T, fl, ck)
<1>1. Holders(k, L) = Holders(q, L)
  BY DEF Holders, Alloc
<1>2. \A t : Younger(k, h, L, t) = Younger(q, h, L, t)
  BY DEF Younger, Alloc
<1>3. \A t \in Holders(q, L) : t \in L
  BY DEF Holders
<1> QED BY <1>1, <1>2, <1>3 DEF RingRight

(* A squash moves the head back to the target's checkpoint and so gives    *)
(* back exactly the registers of the younger instructions (PRF::tick).     *)
LEMMA RingSquash ==
    ASSUME NEW q, NEW h \in RobTags, NEW L \in SUBSET RobTags, IsFiniteSet(L),
           NEW hs \in PrfSeqs, NEW T \in PrfSeqs, NEW fl,
           NEW ck \in [Ckpts -> PrfSeqs],
           \A t \in L : q[robSlot(t)].ckptId \in Ckpts,
           RingRight(q, h, L, hs, T, fl, ck), NEW S \in L
    PROVE  RingRight(q, h, UpTo(h, L, S), ck[q[robSlot(S)].ckptId], T, fl, ck)
<1> DEFINE K == UpTo(h, L, S)
           g == ck[q[robSlot(S)].ckptId]
           H == Holders(q, L)
           Y(t) == Younger(q, h, L, t)
           y(t) == Cardinality(Y(t))
<1>1. /\ IsFiniteSet(H) /\ Cardinality(H) \in Nat
      /\ \A t \in L : /\ Y(t) \subseteq H /\ IsFiniteSet(Y(t))
                      /\ y(t) \in Nat /\ y(t) <= Cardinality(H)
                      /\ Alloc(q, t) => y(t) + 1 <= Cardinality(H)
  BY HolderCounts
<1>2. /\ g \in PrfSeqs /\ pd(g, hs) = y(S)
      /\ \A t \in L : /\ ck[q[robSlot(t)].ckptId] \in PrfSeqs
                      /\ pd(ck[q[robSlot(t)].ckptId], hs) = y(t)
  BY DEF RingRight
<1>3. pd(hs, T) + Cardinality(H) = RobCap /\ pd(hs, T) \in Nat
  BY PdFacts, PrfSizes DEF RingRight
<1>4. \A t \in L : dist(h, t) \in Nat
  BY DistFacts, RobAssumption
<1>5. K \subseteq L /\ \A t \in K : Y(S) \subseteq Y(t) /\ Younger(q, h, K, t) = Y(t) \ Y(S)
  BY <1>4 DEF UpTo, Younger
<1>6. Holders(q, K) = H \ Y(S)
  BY <1>4 DEF UpTo, Younger, Holders
<1>7. Cardinality(Holders(q, K)) = Cardinality(H) - y(S)
  <2>1. H \cap Y(S) = Y(S)
    BY <1>1
  <2> HIDE DEF H, Y
  <2> QED BY <1>1, <1>6, <2>1, FS_Difference
<1>8. \A t \in K : /\ Cardinality(Younger(q, h, K, t)) = y(t) - y(S)
                   /\ y(S) <= y(t)
  <2> TAKE t \in K
  <2>1. Y(t) \cap Y(S) = Y(S) /\ t \in L /\ Younger(q, h, K, t) = Y(t) \ Y(S)
    BY <1>5
  <2> HIDE DEF Y, K
  <2> QED BY <1>1, <1>5, <2>1, FS_Difference, FS_Subset
<1> HIDE DEF K, g, H, Y
<1>9. pd(g, T) + Cardinality(Holders(q, K)) = RobCap
  <2>1. pd(g, hs) + pd(hs, T) < 2 * PrfCap
    BY <1>1, <1>2, <1>3, PrfSizes
  <2>2. pd(g, T) = pd(g, hs) + pd(hs, T)
    BY <1>2, <2>1, PdAdd
  <2> QED BY <1>1, <1>2, <1>3, <1>7, <2>2, PrfSizes
<1>10. \A t \in K : pd(ck[q[robSlot(t)].ckptId], g) = Cardinality(Younger(q, h, K, t))
  <2> TAKE t \in K
  <2>1. t \in L /\ y(t) >= y(S) /\ y(t) \in Nat /\ y(S) \in Nat
    BY <1>1, <1>5, <1>8
  <2>2. pd(ck[q[robSlot(t)].ckptId], g)
          = pd(ck[q[robSlot(t)].ckptId], hs) - pd(g, hs)
    BY <1>2, <2>1, PdAdd
  <2> QED BY <1>2, <1>8, <2>1, <2>2
<1>11. \A t \in Holders(q, K) : \A x \in PrfSeqs :
         pd(x, g) = Cardinality(Younger(q, h, K, t)) + 1
           => fl[prfSlot(x)] = q[robSlot(t)].newPhy
  <2> TAKE t \in Holders(q, K)
  <2> TAKE x \in PrfSeqs
  <2> SUFFICES ASSUME pd(x, g) = Cardinality(Younger(q, h, K, t)) + 1
               PROVE  fl[prfSlot(x)] = q[robSlot(t)].newPhy
    OBVIOUS
  <2>1. t \in K /\ t \in L /\ t \in H /\ Alloc(q, t)
    BY <1>5, <1>6 DEF Holders
  <2>2. /\ y(t) \in Nat /\ y(S) \in Nat /\ y(t) + 1 <= Cardinality(H)
        /\ pd(x, g) = y(t) - y(S) + 1
    BY <1>1, <1>8, <2>1
  <2>3. pd(x, g) + pd(g, hs) = y(t) + 1 /\ y(t) + 1 < 2 * PrfCap
    BY <1>1, <1>2, <1>3, <2>2, PrfSizes
  <2>4. pd(x, hs) = y(t) + 1
    BY <1>2, <2>3, PdAdd
  <2> QED BY <2>1, <2>4 DEF RingRight, H, Y
<1>12. RingRight(q, h, K, g, T, fl, ck)
  BY <1>9, <1>10, <1>11 DEF RingRight
<1> QED BY <1>12 DEF K, g

(* An issued instruction takes the register at the head, if it takes one,  *)
(* and saves the head after that.                                          *)
LEMMA RingIssue ==
    ASSUME NEW q, NEW h \in RobTags, NEW L \in SUBSET RobTags, IsFiniteSet(L),
           NEW hs \in PrfSeqs, NEW T \in PrfSeqs, NEW fl,
           NEW ck \in [Ckpts -> PrfSeqs], NEW ck2,
           \A t \in L : q[robSlot(t)].ckptId \in Ckpts,
           RingRight(q, h, L, hs, T, fl, ck),
           NEW n \in RobTags \ L, \A t \in L : dist(h, t) < dist(h, n),
           NEW g, g = IF Alloc(q, n) THEN prfSeqNext(hs) ELSE hs,
           ck2[q[robSlot(n)].ckptId] = g,
           \A t \in L : ck2[q[robSlot(t)].ckptId] = ck[q[robSlot(t)].ckptId],
           Alloc(q, n) => /\ q[robSlot(n)].newPhy = fl[prfSlot(hs)]
                          /\ hs # T
    PROVE  RingRight(q, h, L \cup {n}, g, T, fl, ck2)
<1> DEFINE K == L \cup {n}
           H == Holders(q, L)
           Y(t) == Younger(q, h, L, t)
           y(t) == Cardinality(Y(t))
<1>1. /\ IsFiniteSet(H) /\ Cardinality(H) \in Nat
      /\ \A t \in L : /\ IsFiniteSet(Y(t)) /\ y(t) \in Nat
                      /\ y(t) <= Cardinality(H)
  BY HolderCounts
<1>2. \A t \in L : /\ ck[q[robSlot(t)].ckptId] \in PrfSeqs
                   /\ pd(ck[q[robSlot(t)].ckptId], hs) = y(t)
  BY DEF RingRight
<1>3. pd(hs, T) + Cardinality(H) = RobCap /\ pd(hs, T) \in Nat
  BY PdFacts, PrfSizes DEF RingRight
<1>4. \A t \in K : dist(h, t) \in Nat
  BY DistFacts, RobAssumption
<1>5. Younger(q, h, K, n) = {}
  BY <1>4 DEF Younger
<1>6. Cardinality(Younger(q, h, K, n)) = 0
  BY <1>5, FS_EmptySet
<1>7. n \notin H /\ \A t \in L : n \notin Y(t)
  BY DEF Holders, Younger
<1>8. CASE Alloc(q, n)
  <2>1. Holders(q, K) = H \cup {n}
    BY <1>8 DEF Holders
  <2>2. \A t \in L : Younger(q, h, K, t) = Y(t) \cup {n}
    BY <1>4, <1>8 DEF Younger
  <2> HIDE DEF H, Y, K
  <2>3. Cardinality(Holders(q, K)) = Cardinality(H) + 1
    BY <1>1, <1>7, <2>1, FS_AddElement
  <2>4. \A t \in L : Cardinality(Younger(q, h, K, t)) = y(t) + 1
    <3> TAKE t \in L
    <3>1. Cardinality(Y(t) \cup {n}) = y(t) + 1
      BY <1>1, <1>7, FS_AddElement
    <3> QED BY <2>2, <3>1
  <2>5. /\ g = prfSeqNext(hs) /\ g \in PrfSeqs /\ pd(g, T) = pd(hs, T) - 1
        /\ pd(g, g) = 0
    BY <1>8, PdFacts
  <2>6. pd(hs, g) = 1
    <3>1. pd(hs, hs) = 0
      BY PdFacts
    <3> QED BY <2>5, <3>1, PdFacts, PrfSizes
  <2>7. \A t \in L : pd(ck[q[robSlot(t)].ckptId], g) = y(t) + 1
    <3> TAKE t \in L
    <3>1. y(t) \in Nat /\ y(t) < 2 * PrfCap - 1
      BY <1>1, <1>3, PrfSizes
    <3> QED BY <1>2, <2>5, <3>1, PdFacts
  <2>8. \A t \in K : pd(ck2[q[robSlot(t)].ckptId], g)
                       = Cardinality(Younger(q, h, K, t))
    BY <1>6, <2>4, <2>5, <2>7 DEF K
  <2>9. ASSUME NEW t \in Holders(q, K), NEW x \in PrfSeqs,
               pd(x, g) = Cardinality(Younger(q, h, K, t)) + 1
        PROVE  fl[prfSlot(x)] = q[robSlot(t)].newPhy
    <3>1. CASE t = n
      <4>1. pd(x, g) = pd(hs, g)
        BY <1>6, <2>6, <2>9, <3>1
      <4>2. x = hs
        BY <2>5, <4>1, PdAdd
      <4> QED BY <1>8, <3>1, <4>2
    <3>2. CASE t # n
      <4>1. t \in H /\ t \in L
        BY <2>1, <3>2 DEF H, Holders
      <4>2. pd(x, g) = y(t) + 2 /\ y(t) \in Nat
        BY <1>1, <2>4, <2>9, <4>1
      <4>3. pd(x, g) >= pd(hs, g)
        BY <2>6, <4>2
      <4>4. pd(x, hs) = pd(x, g) - pd(hs, g)
        BY <2>5, <4>3, PdAdd
      <4>5. pd(x, hs) = y(t) + 1
        BY <2>6, <4>2, <4>4
      <4> QED BY <4>1, <4>5 DEF RingRight, H, Y
    <3> QED BY <3>1, <3>2
  <2>10. pd(g, T) + Cardinality(Holders(q, K)) = RobCap
    BY <1>1, <1>3, <2>3, <2>5
  <2>11. RingRight(q, h, K, g, T, fl, ck2)
    BY <2>8, <2>9, <2>10 DEF RingRight
  <2> QED BY <2>11 DEF K
<1>9. CASE ~Alloc(q, n)
  <2>1. Holders(q, K) = H
    BY <1>9 DEF Holders
  <2>2. \A t \in L : Younger(q, h, K, t) = Y(t)
    BY <1>9 DEF Younger
  <2>3. g = hs /\ pd(g, g) = 0
    <3>1. g = hs
      BY <1>9
    <3>2. pd(hs, hs) = 0
      BY PdFacts
    <3> QED BY <3>1, <3>2
  <2> HIDE DEF H, Y, K
  <2>4. \A t \in K : pd(ck2[q[robSlot(t)].ckptId], g)
                       = Cardinality(Younger(q, h, K, t))
    BY <1>2, <1>6, <2>2, <2>3 DEF K
  <2>5. \A t \in Holders(q, K) : \A x \in PrfSeqs :
          pd(x, g) = Cardinality(Younger(q, h, K, t)) + 1
            => fl[prfSlot(x)] = q[robSlot(t)].newPhy
    <3> TAKE t \in Holders(q, K)
    <3>1. t \in H /\ t \in L
      BY <2>1 DEF H, Holders
    <3> QED BY <2>2, <2>3, <3>1 DEF RingRight, H, Y
  <2>6. RingRight(q, h, K, g, T, fl, ck2)
    BY <1>3, <2>1, <2>3, <2>4, <2>5 DEF RingRight
  <2> QED BY <2>6 DEF K
<1> QED BY <1>8, <1>9

(* What the ring holds at the commit of the oldest instruction: its own    *)
(* register is the one that is about to leave the ring.                    *)
LEMMA OldestInRing ==
    ASSUME NEW q, NEW h \in RobTags, NEW L \in SUBSET RobTags, IsFiniteSet(L),
           NEW hs \in PrfSeqs, NEW T \in PrfSeqs, NEW fl, NEW ck,
           RingRight(q, h, L, hs, T, fl, ck), h \in L, Alloc(q, h),
           NEW x \in PrfSeqs, pd(x, T) = RobCap
    PROVE  fl[prfSlot(x)] = q[robSlot(h)].newPhy
<1> DEFINE H == Holders(q, L)
           Y == Younger(q, h, L, h)
<1>1. \A t \in L : dist(h, t) \in Nat /\ (dist(h, t) = 0 <=> t = h)
  BY DistFacts, RobAssumption
<1>2. Y = H \ {h} /\ h \in H
  BY <1>1 DEF Younger, Holders
<1>3. IsFiniteSet(H) /\ Cardinality(H) \in Nat
  BY HolderCounts
<1>4. Cardinality(Y) + 1 = Cardinality(H)
  <2> HIDE DEF H, Y
  <2>1. Cardinality(H \ {h}) = Cardinality(H) - 1
    BY <1>2, <1>3, FS_RemoveElement
  <2> QED BY <1>2, <1>3, <2>1
<1>5. pd(hs, T) + Cardinality(H) = RobCap /\ pd(hs, T) \in Nat
  BY PdFacts, PrfSizes DEF RingRight
<1>6. pd(x, hs) = Cardinality(H)
  <2>1. pd(x, T) >= pd(hs, T)
    BY <1>3, <1>5
  <2>2. pd(x, hs) = pd(x, T) - pd(hs, T)
    BY <2>1, PdAdd
  <2> HIDE DEF H
  <2> QED BY <1>3, <1>5, <2>2
<1> QED BY <1>2, <1>4, <1>6 DEF RingRight

(* Commit of an instruction with a register moves the tail by one over the *)
(* register it replaced; the positions of the others stay (ROB::pop and    *)
(* PRF::tick).                                                             *)
LEMMA RingCommit ==
    ASSUME NEW q, NEW h \in RobTags, NEW L \in SUBSET RobTags, IsFiniteSet(L),
           NEW hs \in PrfSeqs, NEW T \in PrfSeqs, NEW fl \in [Phys -> Phys],
           NEW ck, RingRight(q, h, L, hs, T, fl, ck), h \in L,
           NEW old,
           NEW T2, T2 = IF Alloc(q, h) THEN prfSeqNext(T) ELSE T,
           NEW fl2, fl2 = IF Alloc(q, h) THEN [fl EXCEPT ![prfSlot(T)] = old]
                                         ELSE fl
    PROVE  RingRight(q, robNextTag(h), L \ {h}, hs, T2, fl2, ck)
<1> DEFINE K == L \ {h}
           k == robNextTag(h)
           H == Holders(q, L)
           Y(t) == Younger(q, h, L, t)
           y(t) == Cardinality(Y(t))
<1>1. /\ IsFiniteSet(H) /\ Cardinality(H) \in Nat
      /\ \A t \in L : /\ IsFiniteSet(Y(t)) /\ y(t) \in Nat
                      /\ Alloc(q, t) => y(t) + 1 <= Cardinality(H)
  BY HolderCounts
<1>2. pd(hs, T) + Cardinality(H) = RobCap /\ pd(hs, T) \in Nat
  <2>1. pd(hs, T) \in Nat
    BY PdFacts, PrfSizes
  <2> QED BY <2>1 DEF RingRight
<1>3. \A t \in L : dist(h, t) \in Nat /\ (dist(h, t) = 0 <=> t = h)
  BY DistFacts, RobAssumption
<1>4. \A t \in K : dist(k, t) = dist(h, t) - 1
  BY DistPop
<1>5. \A t \in K : Younger(q, k, K, t) = Y(t)
  <2> TAKE t \in K
  <2>1. ASSUME NEW v \in K
        PROVE  dist(k, v) > dist(k, t) <=> dist(h, v) > dist(h, t)
    <3>1. /\ dist(k, v) = dist(h, v) - 1 /\ dist(k, t) = dist(h, t) - 1
          /\ dist(h, v) \in Nat /\ dist(h, t) \in Nat
      BY <1>3, <1>4, <2>1
    <3> QED BY <3>1
  <2>2. h \notin Y(t)
    <3>1. dist(h, h) = 0 /\ dist(h, t) \in Nat
      BY <1>3
    <3> QED BY <3>1 DEF Younger
  <2> HIDE DEF k
  <2> QED BY <2>1, <2>2 DEF Younger
<1>6. Holders(q, K) = H \ {h}
  BY DEF Holders
<1>7. pd(hs, T2) + Cardinality(Holders(q, K)) = RobCap
  <2>1. CASE Alloc(q, h)
    <3>1. h \in H
      BY <2>1 DEF Holders
    <3>2. pd(hs, T2) = pd(hs, T) + 1
      BY <1>1, <1>2, <2>1, PdFacts, PrfSizes
    <3> HIDE DEF H, K
    <3>3. Cardinality(Holders(q, K)) = Cardinality(H) - 1
      BY <1>1, <1>6, <3>1, FS_RemoveElement
    <3> QED BY <1>1, <1>2, <3>2, <3>3
  <2>2. CASE ~Alloc(q, h)
    <3>1. Holders(q, K) = H
      BY <1>6, <2>2 DEF Holders
    <3> QED BY <1>2, <2>2, <3>1
  <2> QED BY <2>1, <2>2
<1>8. \A t \in K : pd(ck[q[robSlot(t)].ckptId], hs) = Cardinality(Younger(q, k, K, t))
  BY <1>5 DEF RingRight
<1>9. ASSUME NEW t \in Holders(q, K), NEW x \in PrfSeqs,
             pd(x, hs) = Cardinality(Younger(q, k, K, t)) + 1
      PROVE  fl2[prfSlot(x)] = q[robSlot(t)].newPhy
  <2>1. t \in K /\ t \in L /\ t \in H /\ Alloc(q, t)
    BY DEF Holders
  <2> HIDE DEF H, Y, K, k
  <2>2. pd(x, hs) = y(t) + 1 /\ y(t) \in Nat /\ y(t) + 1 <= Cardinality(H)
    BY <1>1, <1>5, <1>9, <2>1
  <2>3. fl[prfSlot(x)] = q[robSlot(t)].newPhy
    BY <2>1, <2>2 DEF RingRight, H, Y
  <2>4. pd(x, T) = pd(x, hs) + pd(hs, T)
    <3>1. pd(x, hs) + pd(hs, T) < 2 * PrfCap
      BY <1>1, <1>2, <2>2, PrfSizes
    <3> QED BY <3>1, PdAdd
  <2>5. InRing(T, x)
    BY <1>1, <1>2, <2>2, <2>4, PrfSizes DEF InRing
  <2>6. prfSlot(x) # prfSlot(T)
    <3>1. pd(T, T) = 0
      BY PdFacts
    <3>2. x # T
      BY <2>5, <3>1 DEF InRing
    <3> QED BY <2>5, <3>2, RingSlots
  <2>7. prfSlot(x) \in Phys
    BY PdFacts
  <2> QED BY <2>3, <2>6, <2>7
<1>10. RingRight(q, k, K, hs, T2, fl2, ck)
  BY <1>7, <1>8, <1>9 DEF RingRight
<1> QED BY <1>10 DEF k, K

(* Commit swaps the register of the oldest instruction, which leaves the   *)
(* ring for the committed map, with the one it replaced, which enters it:  *)
(* no register is lost or named twice.                                     *)
LEMMA NamedCommit ==
    ASSUME NEW T \in PrfSeqs, NEW fl \in [Phys -> Phys],
           NEW cr \in [Regs -> Phys], NamedOnce(T, fl, cr),
           NEW d \in Regs \ {0}, NEW new,
           \A x \in PrfSeqs : pd(x, T) = RobCap => fl[prfSlot(x)] = new
    PROVE  NamedOnce(prfSeqNext(T), [fl EXCEPT ![prfSlot(T)] = cr[d]],
                     [cr EXCEPT ![d] = new])
<1> DEFINE U == prfSeqNext(T)
           f == [fl EXCEPT ![prfSlot(T)] = cr[d]]
           c == [cr EXCEPT ![d] = new]
           in(x) == fl[prfSlot(x)]
<1>1. U \in PrfSeqs /\ pd(T, U) = 1
  <2>1. pd(T, T) = 0
    BY PdFacts
  <2> QED BY <2>1, PdFacts, PrfSizes
<1>2. PICK z \in PrfSeqs : pd(z, T) = RobCap
  BY PdBefore, PrfSizes
<1>3. in(z) = new /\ InRing(T, z)
  BY <1>2, PrfSizes DEF InRing
<1>4. \A x \in PrfSeqs : pd(x, T) \in Nat /\ (pd(x, T) = 0 <=> x = T)
  BY PdFacts, PrfSizes
<1>5. ASSUME NEW x \in PrfSeqs
      PROVE  InRing(U, x) <=> x = T \/ (InRing(T, x) /\ x # z)
  <2>1. pd(x, T) <= RobCap => pd(x, U) = pd(x, T) + 1
    BY <1>4, PdFacts, PrfSizes
  <2>2. pd(x, U) \in 1 .. RobCap => pd(x, T) = pd(x, U) - 1
    <3> SUFFICES ASSUME pd(x, U) \in 1 .. RobCap
                 PROVE  pd(x, T) = pd(x, U) - 1
      OBVIOUS
    <3>1. pd(x, U) >= pd(T, U)
      BY <1>1, PrfSizes
    <3> QED BY <1>1, <3>1, PdAdd
  <2>3. pd(x, T) = RobCap <=> x = z
    BY <1>2, PdAdd
  <2> HIDE DEF U
  <2> QED BY <1>4, <2>1, <2>2, <2>3, PrfSizes DEF InRing
<1>6. \A x \in PrfSeqs : InRing(T, x) => x # T /\ prfSlot(x) # prfSlot(T)
  <2> TAKE x \in PrfSeqs
  <2>1. InRing(T, x) => x # T
    BY <1>4 DEF InRing
  <2> QED BY <2>1, RingSlots
<1>7. /\ f[prfSlot(T)] = cr[d]
      /\ \A x \in PrfSeqs : InRing(T, x) => f[prfSlot(x)] = in(x)
  <2>1. \A x \in PrfSeqs : prfSlot(x) \in Phys
    BY PdFacts
  <2> QED BY <1>6, <2>1
<1>8. /\ c[d] = new /\ \A r \in Regs \ {0, d} : c[r] = cr[r]
  OBVIOUS
<1> HIDE DEF U, f, c
<1>9. /\ \A x \in PrfSeqs : InRing(T, x) => in(x) # InvalidPhy
      /\ \A x, y \in PrfSeqs : InRing(T, x) /\ InRing(T, y) /\ in(x) = in(y) => x = y
      /\ \A x \in PrfSeqs, r \in Regs \ {0} : InRing(T, x) => in(x) # cr[r]
      /\ \A r \in Regs \ {0} : cr[r] # InvalidPhy
      /\ \A r, s \in Regs \ {0} : cr[r] = cr[s] => r = s
      /\ \A p \in Phys \ {InvalidPhy} :
           \/ \E x \in PrfSeqs : InRing(T, x) /\ in(x) = p
           \/ \E r \in Regs \ {0} : cr[r] = p
  BY DEF NamedOnce
<1> HIDE DEF in
<1>10. \A x \in PrfSeqs : InRing(U, x) =>
         IF x = T THEN f[prfSlot(x)] = cr[d]
                  ELSE f[prfSlot(x)] = in(x) /\ InRing(T, x) /\ x # z
  BY <1>5, <1>7
<1>11. \A r \in Regs \ {0} : IF r = d THEN c[r] = new ELSE c[r] = cr[r]
  BY <1>8
<1>12. \A x \in PrfSeqs : InRing(U, x) => f[prfSlot(x)] # InvalidPhy
  BY <1>9, <1>10
<1>13. \A x, y \in PrfSeqs :
         InRing(U, x) /\ InRing(U, y) /\ f[prfSlot(x)] = f[prfSlot(y)] => x = y
  BY <1>9, <1>10
<1>14. \A x \in PrfSeqs, r \in Regs \ {0} :
         InRing(U, x) => f[prfSlot(x)] # c[r]
  BY <1>3, <1>9, <1>10, <1>11
<1>15. \A r \in Regs \ {0} : c[r] # InvalidPhy
  BY <1>3, <1>9, <1>11
<1>16. \A r, s \in Regs \ {0} : c[r] = c[s] => r = s
  BY <1>3, <1>9, <1>11
<1>17. ASSUME NEW p \in Phys \ {InvalidPhy}
       PROVE  \/ \E x \in PrfSeqs : InRing(U, x) /\ f[prfSlot(x)] = p
              \/ \E r \in Regs \ {0} : c[r] = p
  <2>1. CASE \E x \in PrfSeqs : InRing(T, x) /\ in(x) = p
    BY <1>3, <1>5, <1>6, <1>10, <1>11, <2>1
  <2>2. CASE \E r \in Regs \ {0} : cr[r] = p
    BY <1>5, <1>10, <1>11, <2>2
  <2> QED BY <1>9, <2>1, <2>2
<1>18. NamedOnce(U, f, c)
  BY <1>12, <1>13, <1>14, <1>15, <1>16, <1>17 DEF NamedOnce
<1> QED BY <1>18 DEF U, f, c

-----------------------------------------------------------------------------
(* The registers through one cycle.                                        *)

(* The live window, as the counting lemmas take it.                        *)
LEMMA LiveCounts ==
    ASSUME IInv
    PROVE  /\ LiveTags \in SUBSET RobTags /\ IsFiniteSet(LiveTags)
           /\ Cardinality(Holders(ROBqueue, LiveTags)) \in Nat
           /\ Cardinality(Holders(ROBqueue, LiveTags)) <= dist(head, next_tag)
           /\ headSeq \in PrfSeqs /\ tailSeq \in PrfSeqs
           /\ freeList \in [Phys -> Phys] /\ commitRAT \in [Regs -> Phys]
           /\ PRFHeadCkpt \in [Ckpts -> PrfSeqs]
           /\ \A t \in LiveTags : ROBqueue[robSlot(t)] \in EntryType
<1>1. /\ headSeq \in PrfSeqs /\ tailSeq \in PrfSeqs
      /\ freeList \in [Phys -> Phys] /\ commitRAT \in [Regs -> Phys]
      /\ PRFHeadCkpt \in [Ckpts -> PrfSeqs]
      /\ ROBqueue \in [RobSlots -> EntryType]
  BY DEF IInv, TypeOK
<1>2. \A t \in LiveTags : ROBqueue[robSlot(t)] \in EntryType
  BY <1>1, FrameFacts, SlotFacts
<1>3. /\ head \in RobTags /\ dist(head, next_tag) \in Nat
      /\ LiveTags \in SUBSET RobTags
      /\ \A t \in LiveTags : dist(head, t) < dist(head, next_tag)
  BY FrameFacts
<1> DEFINE H == Holders(ROBqueue, LiveTags)
<1>4. IsFiniteSet(LiveTags)
  BY <1>3, WindowFinite
<1>5. H \in SUBSET RobTags /\ \A t \in H : dist(head, t) < dist(head, next_tag)
  BY <1>3 DEF Holders
<1>6. Cardinality(H) \in Nat /\ Cardinality(H) <= dist(head, next_tag)
  <2> HIDE DEF H
  <2> QED BY <1>3, <1>5, WindowFinite
<1> QED BY <1>1, <1>2, <1>3, <1>4, <1>6

(* A ROB with room leaves a free register: the guard of the free list in   *)
(* IssueArbiter::build never stops an instruction that has a ROB entry.    *)
LEMMA RegisterLeft ==
    ASSUME IInv, RInv, dist(head, next_tag) < RobCap
    PROVE  headSeq # tailSeq /\ freeListHead # InvalidPhy
<1>1. /\ headSeq \in PrfSeqs /\ tailSeq \in PrfSeqs
      /\ Cardinality(Holders(ROBqueue, LiveTags)) \in Nat
      /\ Cardinality(Holders(ROBqueue, LiveTags)) <= dist(head, next_tag)
      /\ dist(head, next_tag) \in Nat
  BY LiveCounts, FrameFacts
<1>2. pd(headSeq, tailSeq) \in Nat /\ pd(tailSeq, tailSeq) = 0
  BY <1>1, PdNat
<1>3. pd(headSeq, tailSeq) + Cardinality(Holders(ROBqueue, LiveTags)) = RobCap
  BY DEF RInv, RingRight
<1>4. pd(headSeq, tailSeq) \in 1 .. RobCap
  BY <1>1, <1>2, <1>3, PrfSizes
<1>5. headSeq # tailSeq
  BY <1>2, <1>4
<1>6. freeList[prfSlot(headSeq)] # InvalidPhy
  BY <1>1, <1>4 DEF RInv, NamedOnce, InRing
<1> QED BY <1>5, <1>6 DEF freeListHead

(* The issued instruction holds a register exactly when it allocates one.  *)
LEMMA IssuedHolds ==
    ASSUME IInv, RInv, NEW pkt, NEW u, NEW f \in Reports,
           PacketOf(pkt, u), Cycle(pkt, u, f), pkt.valid
    PROVE  /\ Alloc(ROBqueue', next_tag) <=> allocates(u)
           /\ ROBqueue'[robSlot(next_tag)].ckptId = nextCkptId
           /\ allocates(u) =>
                /\ ROBqueue'[robSlot(next_tag)].newPhy = freeListHead
                /\ ROBqueue'[robSlot(next_tag)].dest = u.rd
                /\ ROBqueue'[robSlot(next_tag)].oldPhy = RAT_PRF[u.rd]
           /\ ~allocates(u) => ROBqueue'[robSlot(next_tag)].oldPhy = InvalidPhy
           /\ headSeq # tailSeq /\ freeListHead # InvalidPhy
<1>1. headSeq # tailSeq /\ freeListHead # InvalidPhy
  BY KeptFacts, RegisterLeft
<1> DEFINE d == ROBqueue'[robSlot(next_tag)]
           e == pkt.robEntry
<1>2. d.ckptId = e.ckptId /\ d.newPhy = e.newPhy /\ d.oldPhy = e.oldPhy /\ d.dest = e.dest
  BY SameEntries
<1>3. /\ e.ckptId = nextCkptId
      /\ allocates(u) => /\ e.newPhy = freeListHead /\ e.dest = u.rd
                         /\ e.oldPhy = RAT_PRF[u.rd]
      /\ ~allocates(u) => e.newPhy = InvalidPhy /\ e.oldPhy = InvalidPhy
  BY IssuedEntry
<1> QED BY <1>1, <1>2, <1>3 DEF Alloc

(* The register that a commit recycles is the committed one of its         *)
(* destination.                                                            *)
LEMMA Recycles ==
    ASSUME IInv, RInv
    PROVE  /\ ~commits => recycled(squashDetect) = InvalidPhy
           /\ commits =>
                IF Alloc(ROBqueue, head)
                  THEN /\ ROBqueue[robSlot(head)].dest \in Regs \ {0}
                       /\ recycled(squashDetect)
                            = commitRAT[ROBqueue[robSlot(head)].dest]
                       /\ recycled(squashDetect) # InvalidPhy
                  ELSE recycled(squashDetect) = InvalidPhy
<1>1. ~commits => recycled(squashDetect) = InvalidPhy
  BY DEF commits, recycled
<1>2. ASSUME commits
      PROVE  IF Alloc(ROBqueue, head)
               THEN /\ ROBqueue[robSlot(head)].dest \in Regs \ {0}
                    /\ recycled(squashDetect)
                         = commitRAT[ROBqueue[robSlot(head)].dest]
                    /\ recycled(squashDetect) # InvalidPhy
               ELSE recycled(squashDetect) = InvalidPhy
  <2>1. head \in LiveTags /\ ROBqueue[robSlot(head)] \in EntryType
    BY <1>2, FrameFacts, LiveCounts DEF commits, willCommit, isEmpty
  <2> DEFINE e == ROBqueue[robSlot(head)]
  <2>2. CASE ~Alloc(ROBqueue, head)
    <3>1. e.oldPhy = InvalidPhy
      BY <2>1, <2>2 DEF RInv, EntriesSound, entry
    <3> QED BY <2>2, <3>1 DEF recycled, headEntry
  <2>3. CASE Alloc(ROBqueue, head)
    <3>1. e.type \in {"REGISTER", "LINK"} /\ ~e.halt /\ e.dest # 0
      BY <2>1, <2>3 DEF RInv, EntriesSound, entry
    <3>2. recycled(squashDetect) = e.oldPhy
      BY <1>2, <3>1 DEF recycled, headEntry, commits
    <3>3. Maps(ROBqueue, head, commitRAT, Before(head, LiveTags, head), e.dest, e.oldPhy)
      BY <2>1, <2>3 DEF RInv, MapsRight, entry
    <3>4. Before(head, LiveTags, head) = {}
      BY FrameFacts DEF Before
    <3>5. e.oldPhy = commitRAT[e.dest]
      BY <3>3, <3>4 DEF Maps
    <3>6. e.dest \in Regs \ {0}
      BY <2>1, <3>1 DEF EntryType
    <3>7. commitRAT[e.dest] # InvalidPhy
      BY <3>6 DEF RInv, NamedOnce
    <3> QED BY <2>3, <3>2, <3>5, <3>6, <3>7
  <2> QED BY <2>2, <2>3
<1> QED BY <1>1, <1>2

(* Issue and squash keep the free list in step with the instructions.      *)
LEMMA RingKept ==
    ASSUME IInv, RInv, NEW pkt, NEW u, NEW f \in Reports,
           PacketOf(pkt, u), Cycle(pkt, u, f)
    PROVE  RingRight(ROBqueue', head, KeptTags(pkt), headSeq', tailSeq, freeList,
                     PRFHeadCkpt')
<1> DEFINE q == ROBqueue'
<1>1. RingRight(q, head, LiveTags, headSeq, tailSeq, freeList, PRFHeadCkpt)
  <2>1. RingRight(ROBqueue, head, LiveTags, headSeq, tailSeq, freeList, PRFHeadCkpt)
    BY DEF RInv
  <2>2. \A t \in LiveTags :
          /\ q[robSlot(t)].newPhy = ROBqueue[robSlot(t)].newPhy
          /\ q[robSlot(t)].ckptId = ROBqueue[robSlot(t)].ckptId
    BY SameEntries
  <2> HIDE DEF q
  <2> QED BY <2>1, <2>2, RingSame
<1>2. /\ PRFHeadCkpt' =
           IF pkt.valid
             THEN [PRFHeadCkpt EXCEPT ![pkt.robEntry.ckptId] = poppedHead(pkt)]
             ELSE PRFHeadCkpt
      /\ headSeq' = IF squashDetect.needSquash
                      THEN PRFHeadCkpt[squashDetect.CkptId]
                      ELSE poppedHead(pkt)
  BY DEF Cycle, PRFtick
<1>3. /\ head \in RobTags /\ LiveTags \in SUBSET RobTags /\ IsFiniteSet(LiveTags)
      /\ headSeq \in PrfSeqs /\ tailSeq \in PrfSeqs
      /\ PRFHeadCkpt \in [Ckpts -> PrfSeqs]
      /\ \A t \in LiveTags : ROBqueue[robSlot(t)] \in EntryType
  BY FrameFacts, LiveCounts
<1>4. \A t \in LiveTags : /\ q[robSlot(t)].ckptId = ROBqueue[robSlot(t)].ckptId
                          /\ q[robSlot(t)].ckptId \in Ckpts
  BY <1>3, SameEntries DEF EntryType
<1>5. CASE squashDetect.needSquash
  <2> DEFINE S == squashDetect.SquashTag
  <2>1. /\ ~pkt.valid /\ S \in LiveTags
        /\ squashDetect.CkptId = ROBqueue[robSlot(S)].ckptId
        /\ KeptTags(pkt) = UpTo(head, LiveTags, S)
    BY <1>5, KeptFacts DEF entry
  <2>2. /\ PRFHeadCkpt' = PRFHeadCkpt
        /\ headSeq' = PRFHeadCkpt[q[robSlot(S)].ckptId]
    BY <1>2, <1>4, <1>5, <2>1
  <2> HIDE DEF q, S
  <2>3. RingRight(q, head, UpTo(head, LiveTags, S),
                  PRFHeadCkpt[q[robSlot(S)].ckptId], tailSeq, freeList, PRFHeadCkpt)
    BY <1>1, <1>3, <1>4, <2>1, RingSquash
  <2> QED BY <2>1, <2>2, <2>3 DEF q
<1>6. CASE ~squashDetect.needSquash /\ pkt.valid
  <2> DEFINE g == poppedHead(pkt)
  <2>1. KeptTags(pkt) = LiveTags \cup {next_tag} /\ dist(head, next_tag) < RobCap
    BY <1>6, KeptFacts DEF issuedTags
  <2>2. /\ Alloc(q, next_tag) <=> allocates(u)
        /\ q[robSlot(next_tag)].ckptId = nextCkptId
        /\ allocates(u) => q[robSlot(next_tag)].newPhy = freeListHead
        /\ headSeq # tailSeq
    BY <1>6, IssuedHolds
  <2>3. /\ pkt.allocDest = allocates(u) /\ pkt.robEntry.ckptId = nextCkptId
        /\ nextCkptId \in Ckpts
    BY <1>6, IssuedEntry DEF IInv, TypeOK
  <2>4. g = IF Alloc(q, next_tag) THEN prfSeqNext(headSeq) ELSE headSeq
    BY <2>2, <2>3 DEF poppedHead
  <2>5. PRFHeadCkpt' = [PRFHeadCkpt EXCEPT ![nextCkptId] = g] /\ headSeq' = g
    BY <1>2, <1>6, <2>3
  <2>6. \A t \in LiveTags : q[robSlot(t)].ckptId # nextCkptId
    BY <1>4, <2>1, NextIdFree DEF RInv, entry
  <2>7. /\ next_tag \in RobTags \ LiveTags
        /\ \A t \in LiveTags : dist(head, t) < dist(head, next_tag)
    BY FrameFacts
  <2>8. Alloc(q, next_tag) =>
          /\ q[robSlot(next_tag)].newPhy = freeList[prfSlot(headSeq)]
          /\ headSeq # tailSeq
    BY <2>2 DEF freeListHead
  <2> HIDE DEF q, g
  <2>9. /\ PRFHeadCkpt'[q[robSlot(next_tag)].ckptId] = g
        /\ \A t \in LiveTags : PRFHeadCkpt'[q[robSlot(t)].ckptId]
                                 = PRFHeadCkpt[q[robSlot(t)].ckptId]
    BY <1>3, <1>4, <2>2, <2>3, <2>5, <2>6
  <2>10. RingRight(q, head, LiveTags \cup {next_tag}, g, tailSeq, freeList,
                   PRFHeadCkpt')
    BY <1>1, <1>3, <1>4, <2>4, <2>7, <2>8, <2>9, RingIssue
  <2> QED BY <2>1, <2>5, <2>10 DEF q
<1>7. CASE ~squashDetect.needSquash /\ ~pkt.valid
  <2>1. KeptTags(pkt) = LiveTags
    BY <1>7, KeptFacts DEF issuedTags
  <2>2. ~pkt.allocDest
    BY <1>7, PacketType DEF IInv
  <2>3. headSeq' = headSeq /\ PRFHeadCkpt' = PRFHeadCkpt
    BY <1>2, <1>7, <2>2 DEF poppedHead
  <2> QED BY <1>1, <2>1, <2>3
<1> QED BY <1>5, <1>6, <1>7

(* Commit keeps the free list in step with the instructions, and every     *)
(* register named once.                                                    *)
LEMMA RegistersStep ==
    ASSUME IInv, RInv, NEW pkt, NEW u, NEW f \in Reports,
           PacketOf(pkt, u), Cycle(pkt, u, f)
    PROVE  /\ RingRight(ROBqueue', head', LiveTags', headSeq', tailSeq',
                        freeList', PRFHeadCkpt')
           /\ NamedOnce(tailSeq', freeList', commitRAT')
<1> DEFINE q == ROBqueue'
           K == KeptTags(pkt)
           old == recycled(squashDetect)
<1>1. RingRight(q, head, K, headSeq', tailSeq, freeList, PRFHeadCkpt')
  BY RingKept
<1>2. /\ freeList' = IF old = InvalidPhy THEN freeList
                     ELSE [freeList EXCEPT ![prfSlot(tailSeq)] = old]
      /\ tailSeq' = IF old = InvalidPhy THEN tailSeq ELSE prfSeqNext(tailSeq)
      /\ commitRAT' =
           IF commits /\ ROBqueue[robSlot(head)].newPhy # InvalidPhy
             THEN [commitRAT EXCEPT ![ROBqueue[robSlot(head)].dest] =
                                        ROBqueue[robSlot(head)].newPhy]
             ELSE commitRAT
  BY DEF Cycle, PRFtick, CommitTick, commits, headEntry
<1>3. NamedOnce(tailSeq, freeList, commitRAT)
  BY DEF RInv
<1>4. CASE ~commits
  <2>1. /\ freeList' = freeList /\ tailSeq' = tailSeq /\ commitRAT' = commitRAT
    BY <1>2, <1>4, Recycles
  <2>2. head' = head /\ LiveTags' = K
    BY <1>4, CommitFacts
  <2> QED BY <1>1, <1>3, <2>1, <2>2
<1>5. CASE commits
  <2>1. /\ head \in LiveTags /\ head \in K
        /\ head' = robNextTag(head) /\ LiveTags' = K \ {head}
    BY <1>5, CommitFacts
  <2>2. /\ q[robSlot(head)].newPhy = ROBqueue[robSlot(head)].newPhy
        /\ q[robSlot(head)].dest = ROBqueue[robSlot(head)].dest
    BY <2>1, SameEntries
  <2>3. Alloc(q, head) <=> Alloc(ROBqueue, head)
    BY <2>2 DEF Alloc
  <2>4. /\ tailSeq' = IF Alloc(q, head) THEN prfSeqNext(tailSeq) ELSE tailSeq
        /\ freeList' = IF Alloc(q, head)
                         THEN [freeList EXCEPT ![prfSlot(tailSeq)] = old]
                         ELSE freeList
    BY <1>2, <1>5, <2>3, Recycles
  <2>5. /\ head \in RobTags /\ K \in SUBSET RobTags /\ IsFiniteSet(K)
    <3>1. K \subseteq LiveTags \cup {next_tag}
      BY DEF KeptTags, issuedTags
    <3>2. IsFiniteSet(LiveTags \cup {next_tag})
      BY LiveCounts, FS_AddElement
    <3>3. IsFiniteSet(K)
      BY <3>1, <3>2, FS_Subset
    <3> QED BY <3>3, KeptFacts, FrameFacts
  <2>6. /\ headSeq' \in PrfSeqs /\ tailSeq \in PrfSeqs
        /\ freeList \in [Phys -> Phys] /\ commitRAT \in [Regs -> Phys]
    BY TypeStep, LiveCounts DEF TypeOK, PrfSeqs
  <2> HIDE DEF q, K, old
  <2>7. RingRight(q, robNextTag(head), K \ {head}, headSeq', tailSeq', freeList',
                  PRFHeadCkpt')
    BY <1>1, <2>1, <2>4, <2>5, <2>6, RingCommit
  <2>8. NamedOnce(tailSeq', freeList', commitRAT')
    <3>1. CASE ~Alloc(q, head)
      <4>1. commitRAT' = commitRAT
        BY <1>2, <2>3, <3>1 DEF Alloc
      <4> QED BY <1>3, <2>4, <3>1, <4>1
    <3>2. CASE Alloc(q, head)
      <4> DEFINE d == ROBqueue[robSlot(head)].dest
                 new == ROBqueue[robSlot(head)].newPhy
      <4>1. d \in Regs \ {0} /\ old = commitRAT[d]
        BY <1>5, <2>3, <3>2, Recycles DEF old
      <4>2. \A x \in PrfSeqs : pd(x, tailSeq) = RobCap => freeList[prfSlot(x)] = new
        BY <1>1, <2>1, <2>2, <2>5, <2>6, <3>2, OldestInRing
      <4>3. /\ commitRAT' = [commitRAT EXCEPT ![d] = new]
            /\ tailSeq' = prfSeqNext(tailSeq)
            /\ freeList' = [freeList EXCEPT ![prfSlot(tailSeq)] = commitRAT[d]]
        BY <1>2, <1>5, <2>3, <2>4, <3>2, <4>1 DEF Alloc
      <4> HIDE DEF d, new
      <4>4. NamedOnce(prfSeqNext(tailSeq),
                      [freeList EXCEPT ![prfSlot(tailSeq)] = commitRAT[d]],
                      [commitRAT EXCEPT ![d] = new])
        BY <1>3, <2>6, <4>1, <4>2, NamedCommit
      <4> QED BY <4>3, <4>4
    <3> QED BY <3>1, <3>2
  <2> QED BY <2>1, <2>7, <2>8 DEF q
<1> QED BY <1>4, <1>5

-----------------------------------------------------------------------------
(* Entries and waiting instructions through one cycle.                     *)

(* The waiting instructions of the next cycle waited before, unreported,   *)
(* or were issued, with the sources that the map names (RSUnit::tick,      *)
(* IssueArbiter::build).                                                   *)
LEMMA WaitingStep ==
    ASSUME IInv, NEW pkt, NEW u, NEW f \in Reports,
           PacketOf(pkt, u), Cycle(pkt, u, f), NEW w \in window'
    PROVE  /\ w.tag \in LiveTags'
           /\ \/ w \in window \ f /\ w.tag \in LiveTags
              \/ /\ pkt.valid /\ w \in stations(u) /\ w.tag = next_tag
                 /\ allocates(u) => w.unit \in CdbUnits
                 /\ \A op \in w.ops : op[1] \in Regs /\ op[2] = RAT_PRF[op[1]]
<1>1. w.tag \in LiveTags'
  BY WindowStep DEF WindowLive
<1>2. w \in (window \ f) \cup (IF pkt.valid THEN stations(u) ELSE {})
  BY DEF Cycle, WindowTick
<1>3. \A x \in window : x.tag \in LiveTags
  BY DEF IInv, WindowLive
<1>4. ASSUME pkt.valid, w \in stations(u)
      PROVE  /\ w.tag = next_tag
             /\ allocates(u) => w.unit \in CdbUnits
             /\ \A op \in w.ops : op[1] \in Regs /\ op[2] = RAT_PRF[op[1]]
  <2>1. /\ u.kind \in Kinds /\ u.kind # "INVALID"
        /\ u.rs1 \in Regs /\ u.rs2 \in Regs
    BY <1>4, PacketType DEF IInv, Uop
  <2>2. \A r \in Regs : \A op \in resolveSrc(r) :
          op[1] \in Regs /\ op[2] = RAT_PRF[op[1]]
    BY DEF resolveSrc
  <2>3. w.tag = next_tag
    BY <1>4, <2>1 DEF stations, Kinds
  <2>4. allocates(u) => w.unit \in CdbUnits
    BY <1>4, <2>1 DEF stations, Kinds, allocates, CdbUnits
  <2>5. w.ops \subseteq resolveSrc(u.rs1) \cup resolveSrc(u.rs2)
    BY <1>4, <2>1 DEF stations, Kinds
  <2> QED BY <2>1, <2>2, <2>3, <2>4, <2>5
<1> QED BY <1>1, <1>2, <1>3, <1>4

(* Every cycle keeps the entries sound.                                    *)
LEMMA EntriesStep ==
    ASSUME IInv, RInv, NEW pkt, NEW u, NEW f \in Reports,
           PacketOf(pkt, u), Cycle(pkt, u, f)
    PROVE  EntriesSound'
<1> DEFINE q == ROBqueue'
<1>1. ASSUME NEW t \in LiveTags'
      PROVE  IF q[robSlot(t)].newPhy # InvalidPhy
               THEN /\ q[robSlot(t)].type \in {"REGISTER", "LINK"}
                    /\ ~q[robSlot(t)].halt /\ q[robSlot(t)].dest # 0
               ELSE q[robSlot(t)].oldPhy = InvalidPhy
  <2>1. CASE t \in LiveTags
    <3> DEFINE d == q[robSlot(t)]
               e == ROBqueue[robSlot(t)]
    <3>1. /\ d.type = e.type /\ d.halt = e.halt /\ d.dest = e.dest
          /\ d.newPhy = e.newPhy /\ d.oldPhy = e.oldPhy
      BY <2>1, SameEntries
    <3>2. IF e.newPhy # InvalidPhy
            THEN e.type \in {"REGISTER", "LINK"} /\ ~e.halt /\ e.dest # 0
            ELSE e.oldPhy = InvalidPhy
      BY <2>1 DEF RInv, EntriesSound, entry, Alloc
    <3> HIDE DEF d, e, q
    <3>3. IF d.newPhy # InvalidPhy
            THEN d.type \in {"REGISTER", "LINK"} /\ ~d.halt /\ d.dest # 0
            ELSE d.oldPhy = InvalidPhy
      BY <3>1, <3>2
    <3> QED BY <3>3 DEF d
  <2>2. CASE t \notin LiveTags
    <3> DEFINE d == q[robSlot(next_tag)]
               e == pkt.robEntry
    <3>1. pkt.valid /\ t = next_tag
      BY <2>2, Prefixes
    <3>2. /\ d.type = e.type /\ d.halt = e.halt /\ d.dest = e.dest
          /\ d.newPhy = e.newPhy /\ d.oldPhy = e.oldPhy
      BY <3>1, SameEntries
    <3>3. IF e.newPhy # InvalidPhy
            THEN e.type \in {"REGISTER", "LINK"} /\ ~e.halt /\ e.dest # 0
            ELSE e.oldPhy = InvalidPhy
      <4>1. CASE allocates(u)
        <5>1. /\ e.type = IF u.kind = "LINK" THEN "LINK" ELSE "REGISTER"
              /\ e.halt = FALSE /\ e.dest = u.rd /\ u.rd # 0
              /\ e.newPhy = freeListHead
          BY <3>1, <4>1, IssuedEntry
        <5>2. freeListHead # InvalidPhy
          BY <3>1, IssuedHolds
        <5> QED BY <5>1, <5>2
      <4>2. CASE ~allocates(u)
        BY <3>1, <4>2, IssuedEntry
      <4> QED BY <4>1, <4>2
    <3> HIDE DEF d, e, q
    <3>4. IF d.newPhy # InvalidPhy
            THEN d.type \in {"REGISTER", "LINK"} /\ ~d.halt /\ d.dest # 0
            ELSE d.oldPhy = InvalidPhy
      BY <3>2, <3>3
    <3> QED BY <3>1, <3>4 DEF d
  <2> QED BY <2>1, <2>2
<1>2. ASSUME NEW w \in window', q[robSlot(w.tag)].newPhy # InvalidPhy
      PROVE  w.unit \in CdbUnits
  <2>1. CASE w \in window \ f /\ w.tag \in LiveTags
    <3>1. ROBqueue[robSlot(w.tag)].newPhy # InvalidPhy
      BY <1>2, <2>1, SameEntries
    <3> QED BY <2>1, <3>1 DEF RInv, EntriesSound, Alloc
  <2>2. CASE /\ pkt.valid /\ w.tag = next_tag
             /\ allocates(u) => w.unit \in CdbUnits
    BY <1>2, <2>2, IssuedHolds DEF Alloc
  <2> QED BY <2>1, <2>2, WaitingStep
<1> QED BY <1>1, <1>2 DEF EntriesSound, entry, Alloc, robSlot

-----------------------------------------------------------------------------
(* The maps through one cycle.                                             *)

(* Before commit, the new map is that of the instructions kept: issue adds *)
(* its own rename, a squash restores the map of its target (RAT::tick).    *)
LEMMA MapKept ==
    ASSUME IInv, RInv, NEW pkt, NEW u, NEW f \in Reports,
           PacketOf(pkt, u), Cycle(pkt, u, f), NEW r \in Regs
    PROVE  Maps(ROBqueue', head, commitRAT, KeptTags(pkt), r, RAT_PRF'[r])
<1> DEFINE q == ROBqueue'
           L == LiveTags
<1>1. \A t \in L : /\ q[robSlot(t)].newPhy = ROBqueue[robSlot(t)].newPhy
                   /\ q[robSlot(t)].dest = ROBqueue[robSlot(t)].dest
  BY SameEntries
<1>2. Maps(ROBqueue, head, commitRAT, L, r, RAT_PRF[r])
  BY DEF RInv, MapsRight
<1>3. Maps(q, head, commitRAT, L, r, RAT_PRF[r])
  <2> HIDE DEF q, L
  <2> QED BY <1>1, <1>2, MapsSame
<1>4. RAT_PRF' = IF pkt.valid THEN renamed(pkt)
                 ELSE IF squashDetect.needSquash THEN ratCkpt[squashDetect.CkptId]
                 ELSE RAT_PRF
  BY DEF Cycle, RATtick
<1>5. CASE squashDetect.needSquash
  <2> DEFINE S == squashDetect.SquashTag
  <2>1. /\ ~pkt.valid /\ S \in L /\ squashDetect.CkptId = entry(S).ckptId
        /\ KeptTags(pkt) = UpTo(head, L, S)
    BY <1>5, KeptFacts
  <2>2. Maps(ROBqueue, head, commitRAT, UpTo(head, L, S), r,
             ratCkpt[entry(S).ckptId][r])
    BY <2>1 DEF RInv, MapsRight
  <2>3. UpTo(head, L, S) \subseteq L
    BY DEF UpTo
  <2> HIDE DEF q, S, L
  <2>4. Maps(q, head, commitRAT, UpTo(head, L, S), r, ratCkpt[entry(S).ckptId][r])
    BY <1>1, <2>2, <2>3, MapsSame
  <2> QED BY <1>4, <1>5, <2>1, <2>4 DEF q, L
<1>6. CASE ~squashDetect.needSquash /\ pkt.valid
  <2> DEFINE n == next_tag
  <2>1. KeptTags(pkt) = L \cup {n} /\ RAT_PRF' = renamed(pkt)
    BY <1>4, <1>6, KeptFacts DEF issuedTags
  <2>2. /\ Alloc(q, n) <=> allocates(u)
        /\ allocates(u) => q[robSlot(n)].newPhy = freeListHead /\ q[robSlot(n)].dest = u.rd
    BY <1>6, IssuedHolds
  <2>3. /\ pkt.allocDest = allocates(u) /\ u.rd \in Regs
        /\ allocates(u) => pkt.phy = freeListHead /\ pkt.robEntry.dest = u.rd
    BY <1>6, IssuedEntry
  <2>4. RAT_PRF \in [Regs -> Phys]
    BY DEF IInv, TypeOK
  <2>5. /\ \A v \in L : dist(head, v) \in Nat /\ dist(head, v) < dist(head, n)
        /\ dist(head, n) \in Nat
    BY FrameFacts
  <2> HIDE DEF q, L, n
  <2>6. RAT_PRF'[r] = IF Writes(q, n, r) THEN q[robSlot(n)].newPhy ELSE RAT_PRF[r]
    BY <2>1, <2>2, <2>3, <2>4 DEF Writes, renamed
  <2>7. CASE Writes(q, n, r)
    <3>1. \A v \in L \cup {n} : dist(head, v) <= dist(head, n)
      BY <2>5
    <3>2. Maps(q, head, commitRAT, L \cup {n}, r, RAT_PRF'[r])
      BY <2>6, <2>7, <3>1 DEF Maps
    <3> QED BY <2>1, <3>2 DEF q
  <2>8. CASE ~Writes(q, n, r)
    <3>1. Maps(q, head, commitRAT, L \cup {n}, r, RAT_PRF'[r])
      BY <1>3, <2>6, <2>8, MapsAdd
    <3> QED BY <2>1, <3>1 DEF q
  <2> QED BY <2>7, <2>8
<1>7. CASE ~squashDetect.needSquash /\ ~pkt.valid
  <2>1. KeptTags(pkt) = L /\ RAT_PRF' = RAT_PRF
    BY <1>4, <1>7, KeptFacts DEF issuedTags
  <2> QED BY <1>3, <2>1
<1> QED BY <1>5, <1>6, <1>7

(* Before commit, the map that stood before an instruction that stays live *)
(* still does: older instructions are neither issued nor squashed.         *)
LEMMA PrefixKept ==
    ASSUME IInv, RInv, NEW pkt, NEW u, NEW f \in Reports,
           PacketOf(pkt, u), Cycle(pkt, u, f),
           NEW t \in LiveTags', t \in LiveTags, NEW r, NEW p
    PROVE  /\ Maps(ROBqueue, head, commitRAT, UpTo(head, LiveTags, t), r, p)
                => Maps(ROBqueue', head, commitRAT, UpTo(head, KeptTags(pkt), t), r, p)
           /\ Maps(ROBqueue, head, commitRAT, Before(head, LiveTags, t), r, p)
                => Maps(ROBqueue', head, commitRAT, Before(head, KeptTags(pkt), t), r, p)
<1> DEFINE q == ROBqueue'
           L == LiveTags
           K == KeptTags(pkt)
<1>1. \A v \in L : /\ q[robSlot(v)].newPhy = ROBqueue[robSlot(v)].newPhy
                   /\ q[robSlot(v)].dest = ROBqueue[robSlot(v)].dest
  BY SameEntries
<1>2. UpTo(head, K, t) = UpTo(head, L, t) /\ Before(head, K, t) = Before(head, L, t)
  BY Prefixes
<1>3. UpTo(head, L, t) \subseteq L /\ Before(head, L, t) \subseteq L
  BY DEF UpTo, Before
<1> HIDE DEF q, L, K
<1>4. \A S \in SUBSET L : Maps(ROBqueue, head, commitRAT, S, r, p)
                            => Maps(q, head, commitRAT, S, r, p)
  BY <1>1, MapsSame
<1>5. /\ Maps(ROBqueue, head, commitRAT, UpTo(head, L, t), r, p)
           => Maps(q, head, commitRAT, UpTo(head, K, t), r, p)
      /\ Maps(ROBqueue, head, commitRAT, Before(head, L, t), r, p)
           => Maps(q, head, commitRAT, Before(head, K, t), r, p)
  BY <1>2, <1>3, <1>4
<1> QED BY <1>5 DEF q, L, K

(* Commit carries each of these maps over to the next frame.               *)
LEMMA MapsCarry ==
    ASSUME IInv, NEW pkt, NEW u, NEW f \in Reports,
           PacketOf(pkt, u), Cycle(pkt, u, f), NEW r \in Regs, NEW p
    PROVE  /\ Maps(ROBqueue', head, commitRAT, KeptTags(pkt), r, p)
                => Maps(ROBqueue', head', commitRAT', LiveTags', r, p)
           /\ \A t \in LiveTags' :
                /\ Maps(ROBqueue', head, commitRAT, UpTo(head, KeptTags(pkt), t), r, p)
                     => Maps(ROBqueue', head', commitRAT',
                             UpTo(head', LiveTags', t), r, p)
                /\ Maps(ROBqueue', head, commitRAT, Before(head, KeptTags(pkt), t), r, p)
                     => Maps(ROBqueue', head', commitRAT',
                             Before(head', LiveTags', t), r, p)
<1> DEFINE q == ROBqueue'
           K == KeptTags(pkt)
           C(S) == {v \in S : ~(commits /\ v = head)}
<1>1. ASSUME NEW S \in SUBSET K, commits => head \in S,
             Maps(q, head, commitRAT, S, r, p)
      PROVE  Maps(q, head', commitRAT', C(S), r, p)
  BY <1>1, MapsCommit
<1>2. LiveTags' = C(K) /\ (commits => head \in K)
  BY CommitFacts
<1>3. ASSUME NEW t \in LiveTags'
      PROVE  /\ UpTo(head', LiveTags', t) = C(UpTo(head, K, t))
             /\ Before(head', LiveTags', t) = C(Before(head, K, t))
             /\ commits => head \in Before(head, K, t)
  BY Prefixes
<1>4. \A t : Before(head, K, t) \subseteq K /\ UpTo(head, K, t) \subseteq K
  BY DEF Before, UpTo
<1>5. ASSUME NEW t \in LiveTags', commits
      PROVE  head \in UpTo(head, K, t)
  <2>1. head \in Before(head, K, t)
    BY <1>3, <1>5
  <2>2. t \in K /\ \A v \in K : dist(head, v) \in Nat
    BY Prefixes, KeptFacts
  <2> QED BY <2>1, <2>2 DEF Before, UpTo
<1> HIDE DEF q, K, C
<1>6. Maps(q, head, commitRAT, K, r, p) => Maps(q, head', commitRAT', LiveTags', r, p)
  BY <1>1, <1>2
<1>7. ASSUME NEW t \in LiveTags'
      PROVE  /\ Maps(q, head, commitRAT, UpTo(head, K, t), r, p)
                  => Maps(q, head', commitRAT', UpTo(head', LiveTags', t), r, p)
             /\ Maps(q, head, commitRAT, Before(head, K, t), r, p)
                  => Maps(q, head', commitRAT', Before(head', LiveTags', t), r, p)
  BY <1>1, <1>3, <1>4, <1>5
<1> QED BY <1>6, <1>7 DEF q, K

(* Every cycle keeps all the maps right.                                   *)
LEMMA MapsStep ==
    ASSUME IInv, RInv, NEW pkt, NEW u, NEW f \in Reports,
           PacketOf(pkt, u), Cycle(pkt, u, f)
    PROVE  MapsRight'
<1> DEFINE q == ROBqueue'
           K == KeptTags(pkt)
<1>1. \A r \in Regs : Maps(q, head', commitRAT', LiveTags', r, RAT_PRF'[r])
  BY MapKept, MapsCarry
<1>2. ASSUME NEW t \in LiveTags', NEW r \in Regs
      PROVE  Maps(q, head', commitRAT', UpTo(head', LiveTags', t), r,
                  ratCkpt'[q[robSlot(t)].ckptId][r])
  <2> DEFINE p == ratCkpt'[q[robSlot(t)].ckptId][r]
  <2>1. ratCkpt' = IF pkt.valid
                     THEN [ratCkpt EXCEPT ![pkt.robEntry.ckptId] = renamed(pkt)]
                     ELSE ratCkpt
    BY DEF Cycle, RATtick
  <2>2. ratCkpt \in [Ckpts -> [Regs -> Phys]] /\ nextCkptId \in Ckpts
    BY DEF IInv, TypeOK
  <2>3. Maps(q, head, commitRAT, UpTo(head, K, t), r, p)
    <3>1. CASE t \in LiveTags
      <4>1. q[robSlot(t)].ckptId = entry(t).ckptId
        BY <3>1, SameEntries DEF entry
      <4>2. pkt.valid => /\ entry(t).ckptId # nextCkptId
                         /\ pkt.robEntry.ckptId = nextCkptId
        BY <3>1, KeptFacts, NextIdFree, IssuedEntry DEF RInv
      <4>3. p = ratCkpt[entry(t).ckptId][r]
        BY <2>1, <2>2, <4>1, <4>2
      <4>4. Maps(ROBqueue, head, commitRAT, UpTo(head, LiveTags, t), r,
                 ratCkpt[entry(t).ckptId][r])
        BY <3>1 DEF RInv, MapsRight
      <4> HIDE DEF q, K, p
      <4> QED BY <3>1, <4>3, <4>4, PrefixKept DEF q, K
    <3>2. CASE t \notin LiveTags
      <4>1. pkt.valid /\ t = next_tag /\ UpTo(head, K, t) = K
        BY <3>2, Prefixes
      <4>2. /\ q[robSlot(t)].ckptId = nextCkptId
            /\ pkt.robEntry.ckptId = nextCkptId
        BY <4>1, IssuedHolds, IssuedEntry
      <4>3. RAT_PRF' = renamed(pkt)
        BY <4>1 DEF Cycle, RATtick
      <4>4. p = RAT_PRF'[r]
        BY <2>1, <2>2, <4>1, <4>2, <4>3
      <4>5. Maps(q, head, commitRAT, K, r, RAT_PRF'[r])
        BY MapKept
      <4> HIDE DEF q, K, p
      <4> QED BY <4>1, <4>4, <4>5
    <3> QED BY <3>1, <3>2
  <2> HIDE DEF p
  <2>4. Maps(q, head', commitRAT', UpTo(head', LiveTags', t), r, p)
    BY <2>3, MapsCarry
  <2> QED BY <2>4 DEF p
<1>3. ASSUME NEW t \in LiveTags', Alloc(q, t)
      PROVE  Maps(q, head', commitRAT', Before(head', LiveTags', t),
                  q[robSlot(t)].dest, q[robSlot(t)].oldPhy)
  <2> DEFINE r == q[robSlot(t)].dest
             p == q[robSlot(t)].oldPhy
  <2>1. CASE t \in LiveTags
    <3>1. /\ r = entry(t).dest /\ p = entry(t).oldPhy
          /\ Alloc(ROBqueue, t) /\ entry(t) \in EntryType
      BY <1>3, <2>1, SameEntries DEF entry, Alloc
    <3>2. Maps(ROBqueue, head, commitRAT, Before(head, LiveTags, t), r, p)
      BY <2>1, <3>1 DEF RInv, MapsRight
    <3>3. r \in Regs
      BY <3>1 DEF EntryType
    <3> HIDE DEF r, p, q
    <3>4. Maps(q, head, commitRAT, Before(head, K, t), r, p)
      BY <2>1, <3>2, PrefixKept DEF q
    <3>5. Maps(q, head', commitRAT', Before(head', LiveTags', t), r, p)
      BY <3>3, <3>4, MapsCarry DEF q
    <3> QED BY <3>5 DEF r, p
  <2>2. CASE t \notin LiveTags
    <3>1. pkt.valid /\ t = next_tag /\ Before(head, K, t) = LiveTags
      BY <2>2, Prefixes
    <3>2. r = u.rd /\ p = RAT_PRF[u.rd] /\ r \in Regs
      <4>1. Alloc(q, next_tag)
        BY <1>3, <3>1
      <4> HIDE DEF r, p
      <4>2. /\ allocates(u)
            /\ q[robSlot(next_tag)].dest = u.rd
            /\ q[robSlot(next_tag)].oldPhy = RAT_PRF[u.rd]
        BY <3>1, <4>1, IssuedHolds
      <4>3. u.rd \in Regs
        BY <3>1, IssuedEntry
      <4> QED BY <3>1, <4>2, <4>3 DEF r, p
    <3>3. Maps(ROBqueue, head, commitRAT, LiveTags, r, p)
      BY <3>2 DEF RInv, MapsRight
    <3>4. \A v \in LiveTags : /\ q[robSlot(v)].newPhy = ROBqueue[robSlot(v)].newPhy
                              /\ q[robSlot(v)].dest = ROBqueue[robSlot(v)].dest
      BY SameEntries
    <3> HIDE DEF r, p, q
    <3>5. Maps(q, head, commitRAT, LiveTags, r, p)
      BY <3>3, <3>4, MapsSame
    <3>6. Maps(q, head', commitRAT', Before(head', LiveTags', t), r, p)
      BY <3>1, <3>2, <3>5, MapsCarry DEF q
    <3> QED BY <3>6 DEF r, p
  <2> QED BY <2>1, <2>2
<1>4. ASSUME NEW w \in window', NEW op \in w.ops
      PROVE  Maps(q, head', commitRAT', Before(head', LiveTags', w.tag), op[1], op[2])
  <2>1. CASE w \in window \ f /\ w.tag \in LiveTags
    <3>1. Maps(ROBqueue, head, commitRAT, Before(head, LiveTags, w.tag), op[1], op[2])
      BY <2>1 DEF RInv, MapsRight
    <3>2. op[1] \in Regs
      <4>1. w.ops \in SUBSET (Regs \X Phys)
        BY <2>1 DEF IInv, TypeOK
      <4> QED BY <4>1
    <3>3. w.tag \in LiveTags'
      BY WaitingStep
    <3> HIDE DEF q
    <3>4. Maps(q, head, commitRAT, Before(head, K, w.tag), op[1], op[2])
      BY <2>1, <3>1, <3>3, PrefixKept DEF q
    <3> QED BY <3>2, <3>3, <3>4, MapsCarry DEF q
  <2>2. CASE /\ pkt.valid /\ w.tag = next_tag
             /\ \A o \in w.ops : o[1] \in Regs /\ o[2] = RAT_PRF[o[1]]
    <3>1. op[1] \in Regs /\ op[2] = RAT_PRF[op[1]]
      BY <2>2
    <3>2. w.tag \in LiveTags' /\ w.tag \notin LiveTags
      BY <2>2, WaitingStep, FrameFacts
    <3>3. Before(head, K, w.tag) = LiveTags
      BY <3>2, Prefixes
    <3>4. Maps(ROBqueue, head, commitRAT, LiveTags, op[1], op[2])
      BY <3>1 DEF RInv, MapsRight
    <3>5. \A v \in LiveTags : /\ q[robSlot(v)].newPhy = ROBqueue[robSlot(v)].newPhy
                              /\ q[robSlot(v)].dest = ROBqueue[robSlot(v)].dest
      BY SameEntries
    <3> HIDE DEF q
    <3>6. Maps(q, head, commitRAT, LiveTags, op[1], op[2])
      BY <3>4, <3>5, MapsSame
    <3> QED BY <3>1, <3>2, <3>3, <3>6, MapsCarry DEF q
  <2> QED BY <2>1, <2>2, WaitingStep
<1> QED
  BY <1>1, <1>2, <1>3, <1>4
  DEF MapsRight, Maps, Writes, Alloc, UpTo, Before, dist, entry, robSlot

-----------------------------------------------------------------------------
(* Owners of registers, and the ready bits.                                *)

(* The register of a live instruction is in the ring, behind the head.     *)
LEMMA HolderPlace ==
    ASSUME IInv, RInv, NEW t \in Holders(ROBqueue, LiveTags)
    PROVE  \E x \in PrfSeqs :
             /\ InRing(tailSeq, x)
             /\ freeList[prfSlot(x)] = ROBqueue[robSlot(t)].newPhy
             /\ pd(x, headSeq)
                  = Cardinality(Younger(ROBqueue, head, LiveTags, t)) + 1
<1> DEFINE y == Cardinality(Younger(ROBqueue, head, LiveTags, t))
           H == Holders(ROBqueue, LiveTags)
<1>1. t \in LiveTags /\ Alloc(ROBqueue, t)
  BY DEF Holders
<1>2. /\ head \in RobTags /\ LiveTags \in SUBSET RobTags /\ IsFiniteSet(LiveTags)
      /\ headSeq \in PrfSeqs /\ tailSeq \in PrfSeqs
  BY FrameFacts, LiveCounts
<1>3. y \in Nat /\ y + 1 <= Cardinality(H) /\ Cardinality(H) \in Nat
  BY <1>1, <1>2, HolderCounts
<1>4. pd(headSeq, tailSeq) + Cardinality(H) = RobCap
  BY DEF RInv, RingRight
<1>5. pd(headSeq, tailSeq) \in Nat
  BY <1>2, PdNat
<1> HIDE DEF y, H
<1>6. PICK x \in PrfSeqs : pd(x, headSeq) = y + 1
  <2>1. y + 1 \in Nat /\ y + 1 <= RobCap
    BY <1>3, <1>4, <1>5, PrfSizes
  <2> QED BY <1>2, <2>1, PdBefore
<1>7. pd(x, tailSeq) = pd(x, headSeq) + pd(headSeq, tailSeq)
  <2>1. pd(x, headSeq) + pd(headSeq, tailSeq) < 2 * PrfCap
    BY <1>3, <1>4, <1>5, <1>6, PrfSizes
  <2> QED BY <1>2, <2>1, PdAdd
<1>8. InRing(tailSeq, x)
  BY <1>3, <1>4, <1>5, <1>6, <1>7, PrfSizes DEF InRing
<1>9. freeList[prfSlot(x)] = ROBqueue[robSlot(t)].newPhy
  BY <1>6 DEF RInv, RingRight, y
<1> QED BY <1>6, <1>8, <1>9 DEF y

(* No register has two owners among the live instructions, the committed   *)
(* map and the head of the free list.                                      *)
LEMMA OwnersDistinct ==
    ASSUME IInv, RInv, NEW t \in Holders(ROBqueue, LiveTags)
    PROVE  LET p == ROBqueue[robSlot(t)].newPhy
           IN  /\ \A v \in Holders(ROBqueue, LiveTags) :
                    ROBqueue[robSlot(v)].newPhy = p => v = t
               /\ \A r \in Regs \ {0} : commitRAT[r] # p
               /\ headSeq # tailSeq => freeListHead # p
<1> DEFINE H == Holders(ROBqueue, LiveTags)
           np(v) == ROBqueue[robSlot(v)].newPhy
           Y(v) == Cardinality(Younger(ROBqueue, head, LiveTags, v))
<1>1. PICK x \in PrfSeqs : /\ InRing(tailSeq, x)
                           /\ freeList[prfSlot(x)] = np(t)
                           /\ pd(x, headSeq) = Y(t) + 1
  BY HolderPlace
<1>2. \A v \in H : v \in LiveTags /\ Alloc(ROBqueue, v)
  BY DEF Holders
<1>3. /\ head \in RobTags /\ LiveTags \in SUBSET RobTags /\ IsFiniteSet(LiveTags)
      /\ headSeq \in PrfSeqs /\ tailSeq \in PrfSeqs
  BY FrameFacts, LiveCounts
<1>4. /\ \A a, b \in PrfSeqs :
           InRing(tailSeq, a) /\ InRing(tailSeq, b)
             /\ freeList[prfSlot(a)] = freeList[prfSlot(b)] => a = b
      /\ \A a \in PrfSeqs, r \in Regs \ {0} :
           InRing(tailSeq, a) => freeList[prfSlot(a)] # commitRAT[r]
  BY DEF RInv, NamedOnce
<1>5. ASSUME NEW v \in H, np(v) = np(t)
      PROVE  v = t
  <2>1. PICK z \in PrfSeqs : /\ InRing(tailSeq, z)
                             /\ freeList[prfSlot(z)] = np(v)
                             /\ pd(z, headSeq) = Y(v) + 1
    BY HolderPlace
  <2>2. Y(v) + 1 = Y(t) + 1
    BY <1>1, <1>4, <1>5, <2>1
  <2>3. \A a \in LiveTags : Y(a) \in Nat
    BY <1>3, HolderCounts
  <2>4. \A a, b \in H : dist(head, b) < dist(head, a) => Y(a) + 1 <= Y(b)
    BY <1>2, <1>3, HolderCounts
  <2>5. \A a \in H : a \in RobTags /\ dist(head, a) \in Nat /\ Y(a) \in Nat
    BY <1>2, <2>3, FrameFacts
  <2> HIDE DEF H, Y
  <2>6. dist(head, v) = dist(head, t)
    <3>1. t \in H
      BY DEF H
    <3> QED BY <1>5, <2>2, <2>4, <2>5, <3>1
  <2> QED BY <1>3, <1>5, <2>5, <2>6, AgeUnique DEF H
<1>6. ASSUME headSeq # tailSeq
      PROVE  freeListHead # np(t)
  <2>1. pd(headSeq, tailSeq) \in Nat /\ pd(headSeq, tailSeq) # 0
    BY <1>3, <1>6, PdNat
  <2>2. Cardinality(H) \in Nat /\ pd(headSeq, tailSeq) + Cardinality(H) = RobCap
    BY LiveCounts DEF RInv, RingRight
  <2>3. InRing(tailSeq, headSeq)
    BY <2>1, <2>2, PrfSizes DEF InRing
  <2>4. pd(headSeq, headSeq) = 0 /\ Y(t) \in Nat
    BY <1>2, <1>3, PdNat, HolderCounts
  <2>5. x # headSeq
    BY <1>1, <2>4
  <2> QED BY <1>1, <1>3, <1>4, <2>3, <2>5 DEF freeListHead
<1> QED BY <1>1, <1>4, <1>5, <1>6

(* The next ready bit of a register that is not being handed out           *)
(* (PRF::tick).                                                            *)
LEMMA ReadyKeeps ==
    ASSUME IInv, RInv, NEW pkt, NEW u, NEW f \in Reports,
           PacketOf(pkt, u), Cycle(pkt, u, f), NEW p \in Phys,
           \/ \E t \in Holders(ROBqueue, LiveTags) :
                p = ROBqueue[robSlot(t)].newPhy
           \/ \E r \in Regs \ {0} : p = commitRAT[r]
    PROVE  ready'[p] = (ready[p] \/ p \in written(cdbDone(f)))
<1>1. ASSUME pkt.allocDest PROVE p # pkt.phy
  <2>1. pkt.valid
    BY <1>1, PacketType DEF IInv
  <2>2. pkt.phy = freeListHead /\ headSeq # tailSeq
    BY <1>1, <2>1, IssuedEntry, IssuedHolds
  <2>3. ASSUME NEW r \in Regs \ {0} PROVE freeListHead # commitRAT[r]
    <3>1. headSeq \in PrfSeqs /\ tailSeq \in PrfSeqs
      BY LiveCounts
    <3>2. pd(headSeq, tailSeq) \in Nat /\ pd(headSeq, tailSeq) # 0
      BY <2>2, <3>1, PdNat
    <3>3. /\ Cardinality(Holders(ROBqueue, LiveTags)) \in Nat
          /\ pd(headSeq, tailSeq) + Cardinality(Holders(ROBqueue, LiveTags)) = RobCap
      BY LiveCounts DEF RInv, RingRight
    <3>4. InRing(tailSeq, headSeq)
      BY <3>2, <3>3, PrfSizes DEF InRing
    <3> QED BY <3>1, <3>4 DEF RInv, NamedOnce, freeListHead
  <2> QED BY <2>2, <2>3, OwnersDistinct
<1>2. ready' = readyNext(pkt, cdbDone(f))
  BY DEF Cycle, PRFtick
<1> QED BY <1>1, <1>2 DEF readyNext

(* A result on a bus is the register of its instruction, unless that is a  *)
(* link, whose register was written at issue.                              *)
LEMMA WrittenBy ==
    ASSUME IInv, RInv, NEW f \in Reports, NEW t \in Holders(ROBqueue, LiveTags)
    PROVE  ROBqueue[robSlot(t)].newPhy \in written(cdbDone(f)) <=>
             /\ ROBqueue[robSlot(t)].type # "LINK"
             /\ \E w \in f : w.tag = t
<1> DEFINE p == ROBqueue[robSlot(t)].newPhy
           D == cdbDone(f)
<1>1. t \in LiveTags /\ p # InvalidPhy
  BY DEF Holders, Alloc
<1>2. t \in D <=> \E w \in f : w.tag = t
  <2>1. \A w \in window : w.tag = t => w.unit \in CdbUnits
    BY <1>1 DEF RInv, EntriesSound, Alloc
  <2>2. f \subseteq window
    BY ReportFacts
  <2> QED BY <2>1, <2>2 DEF cdbDone
<1>3. \A v \in D : matchesTag(v) /\ v \in LiveTags
  <2> TAKE v \in D
  <2>1. v \in LiveTags
    BY ReportFacts
  <2>2. head # next_tag
    BY <2>1, FrameFacts
  <2> QED BY <2>1, <2>2, LiveFacts DEF matchesTag, isEmpty, entry
<1>4. \A v \in D : ROBqueue[robSlot(v)].newPhy = p => v = t
  <2> TAKE v \in D
  <2> SUFFICES ASSUME ROBqueue[robSlot(v)].newPhy = p PROVE v = t
    OBVIOUS
  <2>1. v \in Holders(ROBqueue, LiveTags)
    BY <1>1, <1>3 DEF Holders, Alloc
  <2> QED BY <2>1, OwnersDistinct
<1> HIDE DEF D, p
<1>5. p \in written(D) <=> t \in D /\ ROBqueue[robSlot(t)].type # "LINK"
  BY <1>1, <1>3, <1>4 DEF written, p
<1> QED BY <1>2, <1>5 DEF p, D

(* Every cycle keeps the ready bits true to their owners.                  *)
LEMMA ReadyStep ==
    ASSUME IInv, RInv, NEW pkt, NEW u, NEW f \in Reports,
           PacketOf(pkt, u), Cycle(pkt, u, f)
    PROVE  ReadyMeansProduced'
<1> DEFINE q == ROBqueue'
           H == Holders(ROBqueue, LiveTags)
<1>1. /\ ready \in [Phys -> BOOLEAN] /\ commitRAT \in [Regs -> Phys]
      /\ \A t \in LiveTags : ROBqueue[robSlot(t)] \in EntryType
  BY LiveCounts DEF IInv, TypeOK
<1>2. ASSUME NEW r \in Regs \ {0}
      PROVE  ready'[commitRAT'[r]]
  <2> DEFINE e == ROBqueue[robSlot(head)]
  <2>1. CASE commits /\ Alloc(ROBqueue, head) /\ e.dest = r
    <3>1. head \in LiveTags /\ entry(head).isCommitReady
      BY <2>1, CommitFacts
    <3>2. head \in H /\ e.newPhy \in Phys
      BY <1>1, <2>1, <3>1 DEF Holders, EntryType
    <3>3. commitRAT'[r] = e.newPhy
      BY <1>1, <2>1 DEF Cycle, CommitTick, commits, headEntry, Alloc
    <3>4. \A w \in window : w.tag # head
      BY <3>1 DEF IInv, WindowLive
    <3>5. ready[e.newPhy]
      BY <2>1, <3>1, <3>4 DEF RInv, ReadyMeansProduced, entry, Alloc
    <3>6. ready'[e.newPhy] = (ready[e.newPhy] \/ e.newPhy \in written(cdbDone(f)))
      BY <3>2, ReadyKeeps
    <3> QED BY <3>3, <3>5, <3>6
  <2>2. CASE ~(commits /\ Alloc(ROBqueue, head) /\ e.dest = r)
    <3>1. commitRAT'[r] = commitRAT[r]
      BY <1>1, <2>2 DEF Cycle, CommitTick, commits, headEntry, Alloc
    <3>2. ready[commitRAT[r]]
      BY DEF RInv, ReadyMeansProduced
    <3>3. ready'[commitRAT[r]]
            = (ready[commitRAT[r]] \/ commitRAT[r] \in written(cdbDone(f)))
      <4>1. commitRAT[r] \in Phys
        BY <1>1
      <4> QED BY <4>1, ReadyKeeps
    <3> QED BY <3>1, <3>2, <3>3
  <2> QED BY <2>1, <2>2
<1>3. ASSUME NEW t \in LiveTags', q[robSlot(t)].newPhy # InvalidPhy
      PROVE  ready'[q[robSlot(t)].newPhy] <=>
               \/ q[robSlot(t)].type = "LINK"
               \/ \A w \in window' : w.tag # t
  <2>1. CASE t \in LiveTags
    <3> DEFINE e == ROBqueue[robSlot(t)]
               p == e.newPhy
    <3>1. /\ q[robSlot(t)].newPhy = p /\ q[robSlot(t)].type = e.type
          /\ e \in EntryType
      BY <2>1, SameEntries
    <3>2. t \in H /\ p \in Phys /\ p # InvalidPhy
      BY <1>3, <2>1, <3>1 DEF Holders, Alloc, EntryType
    <3>3. ready'[p] = (ready[p] \/ p \in written(cdbDone(f)))
      BY <3>2, ReadyKeeps
    <3>4. ready[p] <=> e.type = "LINK" \/ \A w \in window : w.tag # t
      BY <2>1, <3>2 DEF RInv, ReadyMeansProduced, entry
    <3>5. p \in written(cdbDone(f)) <=> e.type # "LINK" /\ \E w \in f : w.tag = t
      BY <3>2, WrittenBy
    <3>6. \A v, w \in window : v.tag = t /\ w.tag = t => v = w
      <4>1. \A w \in window : w.tag = t => w.unit \in CdbUnits
        BY <2>1, <3>2 DEF RInv, EntriesSound, Alloc
      <4> QED BY <4>1 DEF IInv, StationsUnique, CdbUnits
    <3>7. (\E w \in window' : w.tag = t) <=> (\E w \in window \ f : w.tag = t)
      <4>1. \A w \in window' : w.tag = t => w \in window \ f
        BY <2>1, WaitingStep, FrameFacts
      <4>2. kept(t)
        BY Prefixes DEF KeptTags
      <4>3. \A w \in window \ f : w.tag = t => w \in window'
        BY <4>2 DEF Cycle, WindowTick
      <4> QED BY <4>1, <4>3
    <3>8. f \subseteq window
      BY ReportFacts
    <3>9. (\A w \in window' : w.tag # t) <=>
            (\A w \in window : w.tag # t) \/ (\E w \in f : w.tag = t)
      BY <3>6, <3>7, <3>8
    <3> HIDE DEF e, q
    <3>10. ready'[p] <=> e.type = "LINK" \/ \A w \in window' : w.tag # t
      BY <3>3, <3>4, <3>5, <3>9
    <3> QED BY <3>1, <3>10
  <2>2. CASE t \notin LiveTags
    <3>1. pkt.valid /\ t = next_tag /\ ~squashDetect.needSquash
      BY <2>2, Prefixes, KeptFacts
    <3>2. /\ allocates(u)
          /\ q[robSlot(t)].newPhy = freeListHead
      BY <1>3, <3>1, IssuedHolds DEF Alloc
    <3>3. /\ pkt.allocDest /\ pkt.phy = freeListHead
          /\ pkt.isControl = (u.kind = "LINK")
          /\ u.kind \in {"ALU", "MUL", "DIV", "LOAD", "LINK"}
          /\ q[robSlot(t)].type = IF u.kind = "LINK" THEN "LINK" ELSE "REGISTER"
      <4>1. q[robSlot(next_tag)].type = pkt.robEntry.type
        BY <3>1, SameEntries
      <4>2. /\ pkt.allocDest = allocates(u) /\ pkt.phy = freeListHead
            /\ pkt.isControl = (u.kind = "LINK")
            /\ u.kind \in {"ALU", "MUL", "DIV", "LOAD", "LINK"}
            /\ pkt.robEntry.type = IF u.kind = "LINK" THEN "LINK" ELSE "REGISTER"
        BY <3>1, <3>2, IssuedEntry
      <4> HIDE DEF q
      <4> QED BY <3>1, <3>2, <4>1, <4>2
    <3>4. ready' = readyNext(pkt, cdbDone(f)) /\ freeListHead \in Phys
      BY <3>1, <3>3, PacketType DEF Cycle, PRFtick, IInv
    <3>5. ready'[freeListHead] = (u.kind = "LINK")
      BY <3>3, <3>4 DEF readyNext
    <3>6. \E w \in stations(u) : w.tag = t
      BY <3>1, <3>3 DEF stations
    <3>7. \E w \in window' : w.tag = t
      <4>1. \A w \in stations(u) : w \in window'
        BY <3>1 DEF Cycle, WindowTick, kept
      <4> QED BY <3>6, <4>1
    <3> HIDE DEF q
    <3> QED BY <3>2, <3>3, <3>5, <3>7
  <2> QED BY <2>1, <2>2
<1> QED BY <1>2, <1>3 DEF ReadyMeansProduced, entry, robSlot

-----------------------------------------------------------------------------
(* The invariant of the specification.                                     *)

(* At reset the ring and the committed map split the registers.            *)
LEMMA InitNamed ==
    ASSUME NEW fl, fl = [s \in Phys |-> IF s < RobCap THEN RegCap + s ELSE InvalidPhy],
           NEW cr, cr = [r \in Regs |-> r]
    PROVE  /\ RobCap \in PrfSeqs /\ 0 \in PrfSeqs
           /\ pd(0, RobCap) = RobCap
           /\ NamedOnce(RobCap, fl, cr)
<1> USE RobAssumption, PrfAssumption, PrfSizes
<1>1. \A x \in PrfSeqs : InRing(RobCap, x) <=> x \in 0 .. RobCap - 1
  BY DEF InRing, pd, prfSeqDistance, RingDistance, PrfSeqs, Codes, SlotOf, EpochOf
<1>2. \A x \in 0 .. RobCap : x \in PrfSeqs /\ prfSlot(x) = x /\ x \in Phys
  BY DEF PrfSeqs, Codes, SlotOf, prfSlot, Phys
<1>3. pd(0, RobCap) = RobCap
  BY DEF pd, prfSeqDistance, RingDistance, SlotOf, EpochOf
<1>4. \A x \in 0 .. RobCap - 1 : fl[prfSlot(x)] = RegCap + x
  BY <1>2
<1>5. \A r \in Regs : cr[r] = r
  OBVIOUS
<1>6. ASSUME NEW p \in Phys \ {InvalidPhy}
      PROVE  \/ \E x \in PrfSeqs : InRing(RobCap, x) /\ fl[prfSlot(x)] = p
             \/ \E r \in Regs \ {0} : cr[r] = p
  <2>1. CASE p < RegCap
    <3>1. p \in Regs \ {0}
      BY <2>1 DEF Regs, Phys, InvalidPhy
    <3> QED BY <1>5, <3>1
  <2>2. CASE ~(p < RegCap)
    <3>1. p - RegCap \in 0 .. RobCap - 1
      BY <2>2 DEF Phys, PrfCap
    <3>2. fl[prfSlot(p - RegCap)] = p
      <4>1. fl[prfSlot(p - RegCap)] = RegCap + (p - RegCap)
        BY <1>4, <3>1
      <4>2. RegCap + (p - RegCap) = p
        BY DEF Phys
      <4> QED BY <4>1, <4>2
    <3>3. p - RegCap \in PrfSeqs
      BY <1>2, <3>1
    <3> QED BY <1>1, <3>1, <3>2, <3>3
  <2> QED BY <2>1, <2>2
<1>7. ASSUME NEW x \in PrfSeqs, InRing(RobCap, x)
      PROVE  /\ fl[prfSlot(x)] # InvalidPhy
             /\ \A y \in PrfSeqs :
                  InRing(RobCap, y) /\ fl[prfSlot(x)] = fl[prfSlot(y)] => x = y
             /\ \A r \in Regs \ {0} : fl[prfSlot(x)] # cr[r]
  <2>1. x \in 0 .. RobCap - 1 /\ fl[prfSlot(x)] = RegCap + x
    BY <1>1, <1>4, <1>7
  <2>2. \A y \in PrfSeqs : InRing(RobCap, y) =>
          y \in 0 .. RobCap - 1 /\ fl[prfSlot(y)] = RegCap + y
    BY <1>1, <1>4
  <2>3. \A r \in Regs \ {0} : r \in Nat /\ r < RegCap
    BY DEF Regs
  <2> QED BY <1>5, <2>1, <2>2, <2>3 DEF InvalidPhy
<1>8. \A r \in Regs \ {0} : /\ cr[r] # InvalidPhy
                            /\ \A s \in Regs \ {0} : cr[r] = cr[s] => r = s
  BY <1>5 DEF InvalidPhy
<1> QED BY <1>2, <1>3, <1>6, <1>7, <1>8 DEF NamedOnce

(* The reset state satisfies the invariant.                                *)
LEMMA InitRInv == Init => RInv
<1> SUFFICES ASSUME Init PROVE RInv
  OBVIOUS
<1>1. IInv
  BY InitIInv
<1>2. LiveTags = {}
  <2>1. head = next_tag
    BY DEF Init, ROBInit
  <2> QED BY <1>1, <2>1, FrameFacts
<1>3. /\ window = {} /\ RAT_PRF = [r \in Regs |-> r] /\ commitRAT = RAT_PRF
      /\ ready = [p \in Phys |-> p < RegCap]
      /\ freeList = [s \in Phys |-> IF s < RobCap THEN RegCap + s ELSE InvalidPhy]
      /\ headSeq = 0 /\ tailSeq = RobCap
  BY DEF Init, RATInit, PRFInit
<1>4. MapsRight /\ IdsConsecutive /\ EntriesSound
  BY <1>2, <1>3 DEF MapsRight, Maps, IdsConsecutive, EntriesSound
<1>5. pd(headSeq, tailSeq) = RobCap /\ NamedOnce(tailSeq, freeList, commitRAT)
  BY <1>3, InitNamed
<1>6. RingRight(ROBqueue, head, LiveTags, headSeq, tailSeq, freeList, PRFHeadCkpt)
  <2>1. Holders(ROBqueue, LiveTags) = {}
    BY <1>2 DEF Holders
  <2> QED BY <1>2, <1>5, <2>1, FS_EmptySet, PrfSizes DEF RingRight
<1>7. ReadyMeansProduced
  <2>1. \A r \in Regs \ {0} : r \in Phys /\ r < RegCap /\ commitRAT[r] = r
    BY <1>3, RobAssumption DEF Regs, Phys, PrfCap
  <2> QED BY <1>2, <1>3, <2>1 DEF ReadyMeansProduced
<1> QED BY <1>4, <1>5, <1>6, <1>7 DEF RInv

(* The invariant is inductive.                                             *)
LEMMA NextRInv ==
    ASSUME RoomAssumption, IInv, RInv, [Next]_vars
    PROVE  RInv'
<1>1. CASE UNCHANGED vars
  BY <1>1
  DEF vars, robVars, ratVars, prfVars, backVars, RInv, MapsRight, Maps, Writes,
      Alloc, UpTo, Before, IdsConsecutive, EntriesSound, RingRight, NamedOnce,
      InRing, Holders, Younger, ReadyMeansProduced, LiveTags, age, entry
<1>2. CASE \E pkt : \E u : \E f \in Reports : PacketOf(pkt, u) /\ Cycle(pkt, u, f)
  <2>0. PICK pkt, u : \E f \in Reports : PacketOf(pkt, u) /\ Cycle(pkt, u, f)
    BY <1>2
  <2>1. PICK f \in Reports : PacketOf(pkt, u) /\ Cycle(pkt, u, f)
    BY <2>0
  <2>2. MapsRight' /\ EntriesSound' /\ ReadyMeansProduced'
    BY <2>1, MapsStep, EntriesStep, ReadyStep
  <2>3. IdsConsecutive'
    BY <2>1, IdsStep DEF RInv
  <2>4. /\ RingRight(ROBqueue, head, LiveTags, headSeq, tailSeq, freeList,
                     PRFHeadCkpt)'
        /\ NamedOnce(tailSeq, freeList, commitRAT)'
    <3>1. /\ RingRight(ROBqueue', head', LiveTags', headSeq', tailSeq',
                       freeList', PRFHeadCkpt')
          /\ NamedOnce(tailSeq', freeList', commitRAT')
      BY <2>1, RegistersStep
    <3> QED BY <3>1
        DEF RingRight, NamedOnce, Holders, Younger, Alloc, InRing, pd,
            prfSeqDistance, prfSlot, robSlot, dist
  <2> QED BY <2>2, <2>3, <2>4 DEF RInv
<1> QED BY <1>1, <1>2, NextIsCycle

-----------------------------------------------------------------------------
(* What the invariant says of the properties of the back end.              *)

(* The checkpoints of every live instruction.                              *)
LEMMA CheckpointsFollow ==
    ASSUME IInv, RInv
    PROVE  CheckpointsReplay
<1> SUFFICES ASSUME NEW t \in LiveTags
             PROVE  /\ \A r \in Regs :
                         ratCkpt[entry(t).ckptId][r] = mapping(r, upTo(t))
                    /\ prfSeqDistance(PRFHeadCkpt[entry(t).ckptId], headSeq) =
                         Cardinality({v \in LiveTags \ upTo(t) :
                                        entry(v).newPhy # InvalidPhy})
  BY DEF CheckpointsReplay
<1>1. upTo(t) = UpTo(head, LiveTags, t) /\ upTo(t) \in SUBSET LiveTags
  BY DEF upTo, UpTo, age, dist
<1>2. \A r \in Regs : ratCkpt[entry(t).ckptId][r] = mapping(r, upTo(t))
  <2> TAKE r \in Regs
  <2>1. Maps(ROBqueue, head, commitRAT, upTo(t), r, ratCkpt[entry(t).ckptId][r])
    BY <1>1 DEF RInv, MapsRight
  <2> QED BY <1>1, <2>1, MapsIsMapping
<1>3. {v \in LiveTags \ upTo(t) : entry(v).newPhy # InvalidPhy}
        = Younger(ROBqueue, head, LiveTags, t)
  <2>1. \A v \in LiveTags : dist(head, v) \in Nat
    BY FrameFacts
  <2>2. \A v \in LiveTags : v \notin upTo(t) <=> dist(head, v) > dist(head, t)
    BY <1>1, <2>1 DEF UpTo
  <2> QED BY <2>2 DEF Younger, Alloc, entry
<1>4. pd(PRFHeadCkpt[entry(t).ckptId], headSeq)
        = Cardinality(Younger(ROBqueue, head, LiveTags, t))
  BY DEF RInv, RingRight, entry
<1> QED BY <1>2, <1>3, <1>4 DEF pd

(* Free, committed and handed-out registers are all registers but P0.      *)
LEMMA PartitionFollows ==
    ASSUME IInv, RInv
    PROVE  RegistersPartitioned
<1> DEFINE H == Holders(ROBqueue, LiveTags)
           A == Cardinality(H)
           n == pd(headSeq, tailSeq)
           F == {x \in PrfSeqs : pd(headSeq, x) < n}
           committed == {commitRAT[r] : r \in Regs \ {0}}
           given == {entry(t).newPhy : t \in LiveTags} \ {InvalidPhy}
           in(x) == freeList[prfSlot(x)]
<1>1. /\ head \in RobTags /\ LiveTags \in SUBSET RobTags /\ IsFiniteSet(LiveTags)
      /\ headSeq \in PrfSeqs /\ tailSeq \in PrfSeqs /\ A \in Nat
      /\ freeList \in [Phys -> Phys] /\ commitRAT \in [Regs -> Phys]
      /\ \A t \in LiveTags : ROBqueue[robSlot(t)] \in EntryType
  BY FrameFacts, LiveCounts
<1>2. n + A = RobCap /\ n \in Nat
  BY <1>1, PdNat DEF RInv, RingRight
<1>3. freeRegs = {in(x) : x \in F}
  BY DEF freeRegs, pd
<1>4. H = {t \in LiveTags : entry(t).newPhy # InvalidPhy}
  BY DEF Holders, Alloc, entry
<1>5. \A x \in PrfSeqs : pd(x, tailSeq) \in Nat /\ pd(headSeq, x) \in Nat
  BY <1>1, PdNat
<1>6. ASSUME NEW x \in F PROVE InRing(tailSeq, x)
  <2>1. pd(x, tailSeq) \in 0 .. 2 * PrfCap - 1 /\ pd(headSeq, x) \in Nat
    <3>1. x \in PrfSeqs
      OBVIOUS
    <3>2. pd(x, tailSeq) \in 0 .. 2 * PrfCap - 1
      BY <1>1, <3>1, PdFacts
    <3> QED BY <1>5, <3>1, <3>2
  <2>2. pd(headSeq, x) + pd(x, tailSeq) \in {n, n + 2 * PrfCap}
    BY <1>1, PrfSizes, DistancesAdd DEF pd, prfSeqDistance, PrfSeqs
  <2>3. pd(headSeq, x) < n
    BY <1>6
  <2> HIDE DEF n, A
  <2>4. pd(x, tailSeq) = n - pd(headSeq, x)
    BY <1>2, <2>1, <2>2, <2>3, PrfSizes
  <2> QED BY <1>1, <1>2, <2>1, <2>3, <2>4, PrfSizes DEF InRing
<1>7. ASSUME NEW x \in PrfSeqs, InRing(tailSeq, x)
      PROVE  x \in F \/ in(x) \in given
  <2>1. CASE pd(x, tailSeq) <= n
    <3>1. pd(headSeq, x) = n - pd(x, tailSeq)
      BY <1>1, <1>5, <1>2, <2>1, PdAdd
    <3>2. pd(x, tailSeq) >= 1
      BY <1>5, <1>7 DEF InRing
    <3>3. pd(headSeq, x) < n
      BY <1>2, <1>5, <3>1, <3>2
    <3> QED BY <3>3
  <2>2. CASE pd(x, tailSeq) > n
    <3>1. pd(x, headSeq) = pd(x, tailSeq) - n
      BY <1>1, <1>2, <1>5, <2>2, PdAdd
    <3>2. pd(x, tailSeq) <= RobCap
      BY <1>5, <1>7, PrfSizes DEF InRing
    <3>3. pd(x, headSeq) \in 1 .. A
      <4> HIDE DEF n, A
      <4> QED BY <1>1, <1>2, <1>5, <2>2, <3>1, <3>2, PrfSizes
    <3>4. PICK t \in H : Cardinality(Younger(ROBqueue, head, LiveTags, t)) + 1
                           = pd(x, headSeq)
      BY <1>1, <3>3, Ranks
    <3>5. in(x) = ROBqueue[robSlot(t)].newPhy
      BY <3>4 DEF RInv, RingRight
    <3>6. t \in LiveTags /\ entry(t).newPhy # InvalidPhy
      BY <1>4
    <3> QED BY <3>5, <3>6 DEF entry
  <2> QED BY <1>2, <1>5, <2>1, <2>2
<1>8. freeRegs \cup committed \cup given = Phys \ {InvalidPhy}
  <2>1. ASSUME NEW x \in F PROVE in(x) \in Phys \ {InvalidPhy}
    <3>1. InRing(tailSeq, x) /\ x \in PrfSeqs
      BY <1>6
    <3>2. in(x) # InvalidPhy
      BY <3>1 DEF RInv, NamedOnce
    <3>3. prfSlot(x) \in Phys
      BY <3>1, PdFacts
    <3> QED BY <1>1, <3>2, <3>3
  <2>2. ASSUME NEW r \in Regs \ {0} PROVE commitRAT[r] \in Phys \ {InvalidPhy}
    BY <1>1 DEF RInv, NamedOnce
  <2>3. given \subseteq Phys \ {InvalidPhy}
    BY <1>1 DEF entry, EntryType
  <2>4. ASSUME NEW p \in Phys \ {InvalidPhy}
        PROVE  p \in freeRegs \cup committed \cup given
    <3>1. CASE \E x \in PrfSeqs : InRing(tailSeq, x) /\ in(x) = p
      <4>1. PICK x \in PrfSeqs : InRing(tailSeq, x) /\ in(x) = p
        BY <3>1
      <4> HIDE DEF F, given
      <4> QED BY <1>3, <1>7, <4>1
    <3>2. CASE \E r \in Regs \ {0} : commitRAT[r] = p
      BY <3>2
    <3> QED BY <3>1, <3>2 DEF RInv, NamedOnce
  <2> HIDE DEF F, given, in
  <2> QED BY <1>3, <2>1, <2>2, <2>3, <2>4
<1>9. n + (RegCap - 1) + Cardinality({t \in LiveTags : entry(t).newPhy # InvalidPhy})
        = PrfCap - 1
  <2> HIDE DEF n
  <2>1. n + (RegCap - 1) + A = PrfCap - 1
    <3> HIDE DEF A
    <3> QED BY <1>1, <1>2, RobAssumption DEF PrfCap
  <2> QED BY <1>4, <2>1
<1> QED BY <1>8, <1>9 DEF RegistersPartitioned, pd

(* The invariant implies the properties about renaming.                    *)
LEMMA RenameFollows ==
    ASSUME IInv, RInv
    PROVE  /\ RatReplaysRob /\ CheckpointsReplay /\ RegistersPartitioned
           /\ WindowConsistent /\ ReadyMeansProduced
<1>1. RatReplaysRob
  <2> SUFFICES ASSUME NEW r \in Regs PROVE RAT_PRF[r] = mapping(r, LiveTags)
    BY DEF RatReplaysRob
  <2>1. Maps(ROBqueue, head, commitRAT, LiveTags, r, RAT_PRF[r])
    BY DEF RInv, MapsRight
  <2> QED BY <2>1, MapsIsMapping
<1>2. WindowConsistent
  <2> SUFFICES ASSUME NEW w \in window
               PROVE  /\ w.tag \in LiveTags /\ ~entry(w.tag).isCommitReady
                      /\ \A op \in w.ops : op[2] = mapping(op[1], before(w.tag))
    BY DEF WindowConsistent
  <2>1. w.tag \in LiveTags /\ ~entry(w.tag).isCommitReady
    BY DEF IInv, WindowLive
  <2>2. /\ before(w.tag) = Before(head, LiveTags, w.tag)
        /\ before(w.tag) \in SUBSET LiveTags
    BY DEF before, Before, age, dist
  <2>3. ASSUME NEW op \in w.ops
        PROVE  op[2] = mapping(op[1], before(w.tag))
    <3>1. Maps(ROBqueue, head, commitRAT, before(w.tag), op[1], op[2])
      BY <2>2 DEF RInv, MapsRight
    <3> QED BY <2>2, <3>1, MapsIsMapping
  <2> QED BY <2>1, <2>3
<1> QED BY <1>1, <1>2, CheckpointsFollow, PartitionFollows DEF RInv

(* The two parts of the invariant hold together in every reachable state   *)
(* of every machine and program that keeps to RoomAssumption.              *)
THEOREM RenameInvariant ==
    ASSUME RoomAssumption
    PROVE  Spec => [](IInv /\ RInv)
<1>1. Init => IInv /\ RInv
  BY InitIInv, InitRInv
<1>2. (IInv /\ RInv) /\ [Next]_vars => (IInv /\ RInv)'
  BY NextIInv, NextRInv
<1> QED BY <1>1, <1>2, PTL DEF Spec

(* The RAT always is what the committed map and the renames of the live    *)
(* instructions give, also after every squash restored it from a           *)
(* checkpoint (RAT::tick).                                                 *)
THEOREM RatFollowsRob ==
    ASSUME RoomAssumption
    PROVE  Spec => []RatReplaysRob
<1>1. IInv /\ RInv => RatReplaysRob
  BY RenameFollows
<1> QED BY <1>1, RenameInvariant, PTL

(* Whatever live instruction a squash chooses, its checkpoint id restores  *)
(* the map and the free-list head of the moment just after its issue: a    *)
(* pool of at least RobCap ids is never overrun (RAT::tick, PRF::tick).    *)
THEOREM CheckpointsRestore ==
    ASSUME RoomAssumption
    PROVE  Spec => []CheckpointsReplay
<1>1. IInv /\ RInv => CheckpointsReplay
  BY RenameFollows
<1> QED BY <1>1, RenameInvariant, PTL

(* No physical register is ever lost or handed out twice, through issue,   *)
(* commit and squash in any overlap (PRF::tick).                           *)
THEOREM NoRegisterLost ==
    ASSUME RoomAssumption
    PROVE  Spec => []RegistersPartitioned
<1>1. IInv /\ RInv => RegistersPartitioned
  BY RenameFollows
<1> QED BY <1>1, RenameInvariant, PTL

(* A waiting instruction is live, not ready, and still names the registers *)
(* that hold its sources: none is recycled before it is read               *)
(* (RSUnit::tick, ROB::matchesTag).                                        *)
THEOREM SourcesStay ==
    ASSUME RoomAssumption
    PROVE  Spec => []WindowConsistent
<1>1. IInv /\ RInv => WindowConsistent
  BY RenameFollows
<1> QED BY <1>1, RenameInvariant, PTL

(* A ready bit always speaks of the register's current owner (PRF::tick).  *)
THEOREM ReadyIsTrue ==
    ASSUME RoomAssumption
    PROVE  Spec => []ReadyMeansProduced
<1>1. IInv /\ RInv => ReadyMeansProduced
  BY RenameFollows
<1> QED BY <1>1, RenameInvariant, PTL

=============================================================================
