---------------------------- MODULE FlushArbiter ----------------------------
(***************************************************************************)
(* The flush arbiter (src/src/DynamicArbiter/DynamicArbiter.cpp): the      *)
(* pending squash requests of the mispredicted branches and jumps and of   *)
(* the violated loads.  The squash of a cycle is the oldest pending one.   *)
(*                                                                         *)
(* The code keeps the requests sorted in an array of FlushCap slots, but   *)
(* arbitResult searches all of them for the oldest, so their order is not  *)
(* observable: the model keeps the set.  The squash PC is left out.        *)
(***************************************************************************)
EXTENDS IssueArbiter, FiniteSets

CONSTANT FlushCap   \* FLUSHARBITER_CAP

(* Three sources raise requests, and one slot more than that is kept.      *)
ASSUME FlushAssumption == FlushCap \in Nat /\ FlushCap > 3

VARIABLE requests

Requests == [SquashTag : RobTags, CkptId : Ckpts]

NoSquash == [needSquash |-> FALSE, SquashTag |-> 0, CkptId |-> 0]

(* The request for a tag, its checkpoint id read from the ROB snapshot.    *)
requestFor(t) == [SquashTag |-> t, CkptId |-> ROBqueue[robSlot(t)].ckptId]

(* Mutant: the youngest request is taken.                                  *)
arbitResult_youngest(reqs) ==
    IF reqs = {} THEN NoSquash
    ELSE LET r == CHOOSE x \in reqs :
                    \A y \in reqs : x = y \/ isYounger(x.SquashTag, y.SquashTag)
         IN  [needSquash |-> TRUE, SquashTag |-> r.SquashTag, CkptId |-> r.CkptId]

(* The accepted squash of the cycle.                                       *)
arbitResult(reqs) ==
    IF reqs = {} THEN NoSquash
    ELSE LET r == CHOOSE x \in reqs :
                    \A y \in reqs : x = y \/ isOlder(x.SquashTag, y.SquashTag)
         IN  [needSquash |-> TRUE, SquashTag |-> r.SquashTag, CkptId |-> r.CkptId]

(* clear: the accepted request and the ones not older than it go.          *)
cleared(squash) ==
    IF squash.needSquash
      THEN {r \in requests : isOlder(r.SquashTag, squash.SquashTag)}
      ELSE requests

(* The tags that may raise a request.  mis holds the tags of the BRU head  *)
(* and of the ALU's control result whose actual target differs from the    *)
(* predicted one, viol the load found by the scan of the LQ for the store  *)
(* address the AGU reports.  All are gated by the squash of the cycle and  *)
(* looked up in the ROB; a jump must not be older than the ROB head.       *)
raised(mis, viol, squash) ==
    {t \in mis \cup viol :
        /\ matchesTag(t)
        /\ survives(t, squash)
        /\ ROBqueue[robSlot(t)].type = "LINK" => ~isOlder(t, head)}

FlushInit == requests = {}

(* FlushArbiter::tick.                                                     *)
FlushTick(mis, viol, squash) ==
    requests' = cleared(squash)
                  \cup {requestFor(t) : t \in raised(mis, viol, squash)}

=============================================================================
