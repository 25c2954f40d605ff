--------------------------------- MODULE SQ ---------------------------------
(***************************************************************************)
(* The store queue (src/src/SQ/SQ.cpp): a ring of SqCap slots with one     *)
(* slot kept free, holding the stores in program order from issue until    *)
(* they are sent to the data cache.  Address and value of a store become   *)
(* known independently; a store that has left the ROB stays, committed,    *)
(* until the cache takes it.                                               *)
(*                                                                         *)
(* Accesses have one width here: an address names the whole datum, which   *)
(* is what the address comparisons of the code take for granted.           *)
(***************************************************************************)
EXTENDS ROB

CONSTANT SqCap      \* SQ_CAP

ASSUME SqAssumption == SqCap \in Nat /\ SqCap >= 2

VARIABLES
    SQqueue,    \* the ring of entries
    sqHead,     \* slot of the oldest store
    sqTail      \* slot of the next store

sqVars == <<SQqueue, sqHead, sqTail>>

SqSlots == 0 .. SqCap - 1

NoStore ==
    [robTag |-> NoTag, address |-> 0, value |-> 0, isAddressReady |-> FALSE,
     isValueReady |-> FALSE, isCommitted |-> FALSE]

SQInit ==
    /\ SQqueue = [i \in SqSlots |-> NoStore]
    /\ sqHead = 0
    /\ sqTail = 0

sqNext(i) == (i + 1) % SqCap

(* The distance of a slot from the head: the program order of the stores.  *)
sqPos(i) == (i - sqHead + SqCap) % SqCap

sqIsFull == sqNext(sqTail) = sqHead

sqIsEmpty == sqHead = sqTail

sqActive == {i \in SqSlots : sqPos(i) < sqPos(sqTail)}

sqIsCommitted(i) == i \in sqActive /\ SQqueue[i].isCommitted

isReadyToCommit(i) == SQqueue[i].isAddressReady /\ SQqueue[i].isValueReady

(* The first and the last slot of a set of slots, in program order.        *)
sqOldest(S) == CHOOSE i \in S : \A j \in S : sqPos(i) <= sqPos(j)

sqYoungest(S) == CHOOSE i \in S : \A j \in S : sqPos(j) <= sqPos(i)

-----------------------------------------------------------------------------
(* Forwarding, all on the snapshot of the cycle.                           *)

sameAddress(S, addr) ==
    {i \in S : SQqueue[i].isAddressReady /\ SQqueue[i].address = addr}

unknownAddress(S) == {i \in S : ~SQqueue[i].isAddressReady}

(* The stores behind slot i.                                               *)
sqBehind(i) == {j \in sqActive : sqPos(j) > sqPos(i)}

(* Mutant: a younger store whose address is unknown does not block.        *)
StoreNotify_ignoresUnknown(i, addr, value) ==
    LET same == sameAddress(sqBehind(i), addr)
    IN  [storeTag |-> SQqueue[i].robTag, addr |-> addr, value |-> value,
         blockers |-> {SQqueue[sqOldest(S)].robTag : S \in {same} \ {{}}}]

(* The broadcast of a store that has both address and value.  Its blockers *)
(* are the oldest younger store with the same address and the oldest with  *)
(* an unknown one: a load behind a blocker must not take the value.        *)
StoreNotify(i, addr, value) ==
    LET same == sameAddress(sqBehind(i), addr)
        unknown == unknownAddress(sqBehind(i))
    IN  [storeTag |-> SQqueue[i].robTag, addr |-> addr, value |-> value,
         blockers |->
           {SQqueue[sqOldest(S)].robTag : S \in {same, unknown} \ {{}}}]

(* The value of slot i becomes ready: broadcast if the address is known.   *)
planDataForward(i, value) ==
    IF SQqueue[i].isAddressReady
      THEN {StoreNotify(i, SQqueue[i].address, value)} ELSE {}

(* The address of slot i becomes ready: broadcast if the value is known.   *)
planAddressForward(i, addr) ==
    IF SQqueue[i].isValueReady
      THEN {StoreNotify(i, addr, SQqueue[i].value)} ELSE {}

(* The stores before a load: the walk from the head stops at the first     *)
(* uncommitted store that is younger than the load.                        *)
storesBefore(loadTag) ==
    {i \in sqActive :
        \A j \in sqActive : sqPos(j) <= sqPos(i) =>
            SQqueue[j].isCommitted \/ ~isYounger(SQqueue[j].robTag, loadTag)}

(* The value a load finds when its address is computed: of the youngest    *)
(* store before it with the same address, if that value is known and no    *)
(* store in between has an unknown address.                                *)
replyToLoadRequest(addr, loadTag) ==
    LET same == sameAddress(storesBefore(loadTag), addr)
        unknown == unknownAddress(storesBefore(loadTag))
        i == sqYoungest(same)
    IN  IF /\ same # {}
           /\ SQqueue[i].isValueReady
           /\ \A j \in unknown : sqPos(j) < sqPos(i)
          THEN {SQqueue[i].value} ELSE {}

(* A load may go to the cache unless an uncommitted older store is known   *)
(* to write its address.                                                   *)
canDispatchLoad(addr, loadTag) ==
    \A i \in sameAddress(sqActive, addr) :
        SQqueue[i].isCommitted \/ ~isOlder(SQqueue[i].robTag, loadTag)

-----------------------------------------------------------------------------
(* The stages of SQ::tick on the queue, in the order of the code.          *)

sqPushed(pkt) ==
    IF pkt.valid /\ pkt.robEntry.type = "STORE"
      THEN [SQqueue EXCEPT ![sqTail] = [NoStore EXCEPT !.robTag = next_tag]]
      ELSE SQqueue

(* Mutant: an address that arrives with the value hides the value.         *)
sqWritten_either(q, values, addrs) ==
    [i \in SqSlots |->
       IF i \in DOMAIN addrs
         THEN [q[i] EXCEPT !.address = addrs[i], !.isAddressReady = TRUE]
       ELSE IF i \in DOMAIN values
         THEN [q[i] EXCEPT !.value = values[i], !.isValueReady = TRUE]
       ELSE q[i]]

(* The values and the address that become ready: slot -> value, with the   *)
(* slots as the domain.                                                    *)
sqWritten(q, values, addrs) ==
    [i \in SqSlots |->
       LET v == IF i \in DOMAIN values
                  THEN [q[i] EXCEPT !.value = values[i], !.isValueReady = TRUE]
                  ELSE q[i]
       IN  IF i \in DOMAIN addrs
             THEN [v EXCEPT !.address = addrs[i], !.isAddressReady = TRUE]
             ELSE v]

storeWillCommit(squash) == willCommit(squash) /\ headEntry.type = "STORE"

(* The store at the ROB head commits: its active entry is marked.          *)
sqCommitted(q, squash) ==
    [i \in SqSlots |->
       IF /\ storeWillCommit(squash)
          /\ i \in sqActive /\ SQqueue[i].robTag = head
         THEN [q[i] EXCEPT !.isCommitted = TRUE] ELSE q[i]]

sqPushedTail(pkt) ==
    IF pkt.valid /\ pkt.robEntry.type = "STORE" THEN sqNext(sqTail) ELSE sqTail

(* Mutant: the squash is not followed.                                     *)
sqFlushedTail_keeps(pkt, squash) == sqPushedTail(pkt)

(* The flush: the tail goes back to the snapshot of the squash target.     *)
sqFlushedTail(pkt, squash) ==
    IF squash.needSquash /\ matchesTag(squash.SquashTag)
      THEN ROBqueue[robSlot(squash.SquashTag)].sqTailSnapshot
      ELSE sqPushedTail(pkt)

(* SQ::tick.  sent: the store at the head went to the cache.               *)
SQtick(pkt, values, addrs, sent, squash) ==
    /\ SQqueue' = sqCommitted(sqWritten(sqPushed(pkt), values, addrs), squash)
    /\ sqHead' = IF sent THEN sqNext(sqHead) ELSE sqHead
    /\ sqTail' = sqFlushedTail(pkt, squash)

=============================================================================
