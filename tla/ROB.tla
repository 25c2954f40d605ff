-------------------------------- MODULE ROB --------------------------------
(***************************************************************************)
(* The reorder buffer (src/src/ROB/ROB.cpp): a ring of RobCap entries      *)
(* between head and next_tag, both packed {epoch, slot} tags.  One tick    *)
(* takes the issue packet, the tags whose execution completed and the      *)
(* accepted squash, all of the same clock cycle.                           *)
(***************************************************************************)
EXTENDS EpochRing

CONSTANTS
    RobCap,     \* ROB_CAP
    RobSpan,    \* ROB_INDEX_MASK + 1
    RegCap,     \* REGISTER_CAP, architectural registers 0 .. RegCap - 1
    CkptCap     \* CKPT_CAP

(* common.hpp's static_asserts on these sizes.                             *)
ASSUME RobAssumption ==
    /\ RobCap \in Nat /\ RobCap >= 2
    /\ RobSpan \in Nat /\ RobCap <= RobSpan
    /\ RegCap \in Nat /\ RegCap >= 2
    /\ CkptCap \in Nat /\ CkptCap >= RobCap

VARIABLES
    ROBqueue,       \* the ring of entries, a dead slot keeps its last entry
    head,           \* tag of the oldest entry
    next_tag,       \* tag the next issued instruction gets
    haltCommitted,  \* the halt marker has committed
    haltRd          \* its destination register

robVars == <<ROBqueue, head, next_tag, haltCommitted, haltRd>>

-----------------------------------------------------------------------------
(* Packed tags.                                                            *)

RobTags == Codes(RobCap, RobSpan)

RobSlots == 0 .. RobCap - 1

robSlot(t) == SlotOf(t, RobSpan)

robNextTag(t) == RingNext(t, RobCap, RobSpan)

isOlder(a, b) == RingOlder(a, b, RobSpan)

isYounger(a, b) == isOlder(b, a)

(* The initial tag of a slot, 0xFF: no allocated tag equals it.            *)
NoTag == 2 * RobSpan

(* The sentinel for "no physical register".                                *)
InvalidPhy == 0

-----------------------------------------------------------------------------
(* Entries, the default one as in struct ROBEntry.                         *)

DefaultEntry ==
    [tag |-> NoTag, type |-> "REGISTER", isCommitReady |-> FALSE,
     halt |-> FALSE, dest |-> 0, ckptId |-> 0,
     newPhy |-> InvalidPhy, oldPhy |-> InvalidPhy]

ROBType == {"REGISTER", "BRANCH", "STORE", "LINK"}

ROBInit ==
    /\ ROBqueue = [s \in RobSlots |-> DefaultEntry]
    /\ head = 0
    /\ next_tag = 0
    /\ haltCommitted = FALSE
    /\ haltRd = -1

isFull == robSlot(next_tag) = robSlot(head) /\ next_tag # head

isEmpty == head = next_tag

headEntry == ROBqueue[robSlot(head)]

(* The tag check every completion goes through: it reads the slot's stored *)
(* tag and does not ask whether the slot is still between head and         *)
(* next_tag.                                                               *)
matchesTag(t) == ~isEmpty /\ ROBqueue[robSlot(t)].tag = t

(* The gate of every bus in a squash cycle: only strictly older            *)
(* instructions than the squash target pass.                               *)
survives(t, squash) == squash.needSquash => isOlder(t, squash.SquashTag)

(* Mutant: the squash target itself may commit while it is being squashed. *)
willCommit_ignoresSquash(squash) == ~isEmpty /\ headEntry.isCommitReady

willCommit(squash) ==
    ~isEmpty /\ headEntry.isCommitReady /\ survives(head, squash)

-----------------------------------------------------------------------------
(* The stages of ROB::tick, in the order of the code.                      *)

(* push: the issued entry takes next_tag and its slot.                     *)
pushedQueue(pkt) ==
    IF pkt.valid
      THEN [ROBqueue EXCEPT ![robSlot(next_tag)] =
                [pkt.robEntry EXCEPT !.tag = next_tag]]
      ELSE ROBqueue

pushedTail(pkt) == IF pkt.valid THEN robNextTag(next_tag) ELSE next_tag

(* setROBCommitReady for every completed tag, on the queue after push.     *)
readyQueue(pkt, done) ==
    LET q == pushedQueue(pkt)
    IN  [s \in RobSlots |->
           IF head # pushedTail(pkt) /\ q[s].tag \in done
             THEN [q[s] EXCEPT !.isCommitReady = TRUE]
             ELSE q[s]]

(* Mutant: the flush also drops the squash target.                         *)
flushedTail_dropsTarget(pkt, squash) ==
    IF squash.needSquash THEN squash.SquashTag ELSE pushedTail(pkt)

(* flush: the entries younger than the squash target are dropped, the      *)
(* target stays.                                                           *)
flushedTail(pkt, squash) ==
    IF /\ squash.needSquash
       /\ head # pushedTail(pkt)
       /\ pushedQueue(pkt)[robSlot(squash.SquashTag)].tag = squash.SquashTag
      THEN robNextTag(squash.SquashTag)
      ELSE pushedTail(pkt)

(* ROB::tick.  done is the set of tags that a CDB, the BRU head or a ready *)
(* SQ entry reports in this cycle, already gated by survives.              *)
ROBtick(pkt, done, squash) ==
    /\ ROBqueue' = readyQueue(pkt, done)
    /\ next_tag' = flushedTail(pkt, squash)
    /\ head' = IF willCommit(squash) THEN robNextTag(head) ELSE head
    /\ haltCommitted' =
         (haltCommitted \/ (willCommit(squash) /\ headEntry.halt))
    /\ haltRd' = IF willCommit(squash) /\ headEntry.halt
                   THEN headEntry.dest ELSE haltRd

=============================================================================
