-------------------------------- MODULE PRF --------------------------------
(***************************************************************************)
(* The physical register file (src/src/PRF/PRF.cpp): the ready bit of each *)
(* physical register, the free list as a ring of PrfCap slots between the  *)
(* packed sequence numbers headSeq and tailSeq, and one saved headSeq per  *)
(* checkpoint id.  A squash gives the squashed instructions' registers     *)
(* back by moving headSeq backwards over slots it has already handed out;  *)
(* the slots themselves are never rewritten by a squash.  Register values  *)
(* are abstracted to the ready bit.                                        *)
(***************************************************************************)
EXTENDS RAT

CONSTANT PrfSpan    \* PRF_INDEX_MASK + 1

PrfCap == RobCap + RegCap

ASSUME PrfAssumption == PrfSpan \in Nat /\ PrfCap <= PrfSpan

VARIABLES
    ready,          \* PhysicalRegs[p].ready
    freeList,       \* the ring, a slot keeps the register it last held
    headSeq,        \* next register to hand out
    tailSeq,        \* next slot to take a recycled register
    PRFHeadCkpt     \* checkpoint id -> saved headSeq

prfVars == <<ready, freeList, headSeq, tailSeq, PRFHeadCkpt>>

Phys == 0 .. PrfCap - 1

PrfSeqs == Codes(PrfCap, PrfSpan)

prfSlot(s) == SlotOf(s, PrfSpan)

prfSeqNext(s) == RingNext(s, PrfCap, PrfSpan)

prfSeqDistance(from, to) == RingDistance(from, to, PrfCap, PrfSpan)

(* The constructor: x0 .. are bound to P0 .. and ready, the others enter   *)
(* the free list in order; P0 never does.                                  *)
PRFInit ==
    /\ ready = [p \in Phys |-> p < RegCap]
    /\ freeList = [s \in Phys |-> IF s < RobCap THEN RegCap + s ELSE InvalidPhy]
    /\ headSeq = 0
    /\ tailSeq = RobCap
    /\ PRFHeadCkpt = [c \in Ckpts |-> 0]

isFreeListEmpty == headSeq = tailSeq

(* The register the next allocating instruction gets.                      *)
freeListHead == freeList[prfSlot(headSeq)]

isReady(p) == ready[p]

(* The registers written by the completed tags: a tag is looked up in the  *)
(* ROB, a LINK instruction's result is a jump target and not a value, and  *)
(* an entry without a destination has no register.                         *)
written(done) ==
    {ROBqueue[robSlot(t)].newPhy :
        t \in {u \in done : /\ matchesTag(u)
                            /\ ROBqueue[robSlot(u)].type # "LINK"}}
      \ {InvalidPhy}

(* Mutant: the register of the committed value is recycled.                *)
recycled_newPhy(squash) ==
    IF /\ willCommit(squash) /\ ~headEntry.halt
       /\ headEntry.type \in {"REGISTER", "LINK"}
      THEN headEntry.newPhy
      ELSE InvalidPhy

(* The register that the committing instruction's rename replaced, which   *)
(* no later instruction can name.                                          *)
recycled(squash) ==
    IF /\ willCommit(squash) /\ ~headEntry.halt
       /\ headEntry.type \in {"REGISTER", "LINK"}
      THEN headEntry.oldPhy
      ELSE InvalidPhy

(* Mutant: an allocated register keeps its old ready bit.                  *)
readyNext_keepsOld(pkt, done) ==
    [p \in Phys |->
        ready[p] \/ p \in written(done)
          \/ (pkt.allocDest /\ p = pkt.phy /\ pkt.isControl)]

(* The ready bits: results first, then the allocation, which clears the    *)
(* bit unless the link value is written at once.                           *)
readyNext(pkt, done) ==
    [p \in Phys |->
        IF pkt.allocDest /\ p = pkt.phy
          THEN pkt.isControl
          ELSE ready[p] \/ p \in written(done)]

(* headSeq after the issued instruction, which is also what its checkpoint *)
(* saves.                                                                  *)
poppedHead(pkt) == IF pkt.allocDest THEN prfSeqNext(headSeq) ELSE headSeq

(* PRF::tick.                                                              *)
PRFtick(pkt, done, squash) ==
    /\ ready' = readyNext(pkt, done)
    /\ PRFHeadCkpt' =
         IF pkt.valid
           THEN [PRFHeadCkpt EXCEPT ![pkt.robEntry.ckptId] = poppedHead(pkt)]
           ELSE PRFHeadCkpt
    /\ headSeq' = IF squash.needSquash THEN PRFHeadCkpt[squash.CkptId]
                                       ELSE poppedHead(pkt)
    /\ freeList' = IF recycled(squash) = InvalidPhy THEN freeList
                   ELSE [freeList EXCEPT ![prfSlot(tailSeq)] = recycled(squash)]
    /\ tailSeq' = IF recycled(squash) = InvalidPhy THEN tailSeq
                                                   ELSE prfSeqNext(tailSeq)

=============================================================================
