--------------------------------- MODULE LQ ---------------------------------
(***************************************************************************)
(* The load queue (src/src/LQ/LQ.cpp): a ring of LqCap slots with one slot *)
(* kept free, holding the loads in program order from issue until they     *)
(* have left the ROB.  A load gets its value from the data cache or from a *)
(* store that forwards it, and is then broadcast.                          *)
(***************************************************************************)
EXTENDS SQ

CONSTANT LqCap      \* LQ_CAP

ASSUME LqAssumption == LqCap \in Nat /\ LqCap >= 2

VARIABLES
    LQqueue,    \* the ring of entries
    lqHead,     \* slot of the oldest load
    lqTail      \* slot of the next load

lqVars == <<LQqueue, lqHead, lqTail>>

LqSlots == 0 .. LqCap - 1

ValueState == {"NOTREADY", "FETCHING", "READY"}

NoLoad ==
    [robTag |-> NoTag, address |-> 0, value |-> 0, isAddressReady |-> FALSE,
     valueState |-> "NOTREADY", isCDBBroadcast |-> FALSE]

LQInit ==
    /\ LQqueue = [i \in LqSlots |-> NoLoad]
    /\ lqHead = 0
    /\ lqTail = 0

lqNext(i) == (i + 1) % LqCap

lqPos(i) == (i - lqHead + LqCap) % LqCap

lqIsFull == lqNext(lqTail) = lqHead

lqIsEmpty == lqHead = lqTail

lqActive == {i \in LqSlots : lqPos(i) < lqPos(lqTail)}

(* The oldest of a set of slots, as a set of at most one.                  *)
lqOldest(S) == {i \in S : \A j \in S : lqPos(i) <= lqPos(j)}

(* The oldest load that waits for the cache.                               *)
LoadDetect ==
    lqOldest({i \in lqActive : /\ LQqueue[i].isAddressReady
                               /\ LQqueue[i].valueState = "NOTREADY"})

(* The oldest load with a value that has not been broadcast.               *)
CDBDetect ==
    lqOldest({i \in lqActive : /\ LQqueue[i].isAddressReady
                               /\ LQqueue[i].valueState = "READY"
                               /\ ~LQqueue[i].isCDBBroadcast})

(* The LQ's result bus, gated by the squash of the cycle.                  *)
lqCDB(squash) == {i \in CDBDetect : survives(LQqueue[i].robTag, squash)}

-----------------------------------------------------------------------------
(* The stages of LQ::tick on the queue, in the order of the code.          *)

lqPushed(pkt, isLoad) ==
    IF pkt.valid /\ isLoad
      THEN [LQqueue EXCEPT ![lqTail] = [NoLoad EXCEPT !.robTag = next_tag]]
      ELSE LQqueue

(* writeValue: the load has its value, also if it was being fetched or had *)
(* one, and is (again) to be broadcast.                                    *)
withValue(e, value) ==
    [e EXCEPT !.value = value, !.valueState = "READY", !.isCDBBroadcast = FALSE]

(* A broadcast store forwards to the younger loads of its address that are *)
(* not behind one of its blockers.                                         *)
forwardsTo(n, e) ==
    /\ e.isAddressReady /\ e.address = n.addr
    /\ isOlder(n.storeTag, e.robTag)
    /\ \A b \in n.blockers : ~isOlder(b, e.robTag)

(* applyStoreForward for all broadcasts of the cycle.  Two of them never   *)
(* reach the same load: the older one is blocked by the younger one.       *)
lqForwarded(q, notifies) ==
    [i \in LqSlots |->
       LET from == {n \in notifies : forwardsTo(n, q[i])}
       IN  IF i \in lqActive /\ from # {}
             THEN withValue(q[i], (CHOOSE n \in from : TRUE).value) ELSE q[i]]

(* The AGU's load address, with the reply of the store queue.              *)
lqAddressed(q, addrs) ==
    [i \in LqSlots |->
       IF i \in DOMAIN addrs
         THEN LET e == [q[i] EXCEPT !.address = addrs[i],
                                    !.isAddressReady = TRUE]
                  reply == replyToLoadRequest(addrs[i], e.robTag)
              IN  IF reply = {} THEN e
                  ELSE withValue(e, CHOOSE v \in reply : TRUE)
         ELSE q[i]]

(* The load that is sent to the cache.                                     *)
lqFetching(q, sent) ==
    [i \in LqSlots |-> IF i \in sent
                         THEN [q[i] EXCEPT !.valueState = "FETCHING"]
                         ELSE q[i]]

(* writeValueIfFetching: a response is for the slot and the tag of its     *)
(* request, and only if that load still waits for it.                      *)
lqAnswered(q, resp) ==
    [i \in LqSlots |->
       IF /\ resp.valid /\ resp.id.slot = i
          /\ q[i].robTag = resp.id.robTag
          /\ q[i].valueState = "FETCHING"
         THEN withValue(q[i], resp.value[0]) ELSE q[i]]

lqBroadcast(q, cdb) ==
    [i \in LqSlots |-> IF i \in cdb THEN [q[i] EXCEPT !.isCDBBroadcast = TRUE]
                       ELSE q[i]]

(* The oldest load has left the ROB.                                       *)
retireLoad(squash) ==
    /\ ~squash.needSquash
    /\ ~lqIsEmpty
    /\ isEmpty \/ isOlder(LQqueue[lqHead].robTag, head)

lqPushedTail(pkt, isLoad) ==
    IF pkt.valid /\ isLoad THEN lqNext(lqTail) ELSE lqTail

lqFlushedTail(pkt, isLoad, squash) ==
    IF squash.needSquash /\ matchesTag(squash.SquashTag)
      THEN ROBqueue[robSlot(squash.SquashTag)].lqTailSnapshot
      ELSE lqPushedTail(pkt, isLoad)

(* LQ::tick.                                                               *)
LQtick(pkt, isLoad, notifies, addrs, sent, resp, squash) ==
    LET q1 == lqForwarded(lqPushed(pkt, isLoad), notifies)
        q2 == lqFetching(lqAddressed(q1, addrs), sent)
    IN  /\ LQqueue' = lqBroadcast(lqAnswered(q2, resp), lqCDB(squash))
        /\ lqHead' = IF retireLoad(squash) THEN lqNext(lqHead) ELSE lqHead
        /\ lqTail' = lqFlushedTail(pkt, isLoad, squash)

=============================================================================
