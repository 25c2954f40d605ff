------------------------------ MODULE Backend ------------------------------
(***************************************************************************)
(* The speculative back end: issue arbiter, ROB, RAT, PRF, reservation     *)
(* stations with their execution units, and flush arbiter, composed as in  *)
(* src/src/CPU/CPU.cpp.  CPU::comb evaluates the buses on a snapshot of    *)
(* all modules, then every module ticks on the snapshot and writes only    *)
(* its own state: one step of this module is one clock cycle, the          *)
(* conjunction of all ticks.                                               *)
(*                                                                         *)
(* An instruction waits in window from issue until its unit reports it;    *)
(* how many cycles that takes is left open, so every interleaving of the   *)
(* units' latencies is covered.  What the program does (which instruction  *)
(* comes next, which branch is mispredicted, which store address hits a    *)
(* younger load) is chosen by \E.                                          *)
(***************************************************************************)
EXTENDS FlushArbiter

CONSTANTS
    Uops,           \* the instructions the program may present
    HaltFindsRoom   \* TRUE: the halt marker is presented only to a ROB with
                    \* a free entry; FALSE: whenever the program reaches it

ASSUME BackendAssumption == Uops \subseteq Uop /\ HaltFindsRoom \in BOOLEAN

VARIABLES
    window,         \* occupied reservation stations and units
    loads,          \* tags of the uncommitted loads in the LQ
    stores,         \* tags of the uncommitted stores in the SQ
    nextCkptId,     \* checkpoint id of the next instruction (BPU)
    haltFetched,    \* the front end has delivered the halt marker
    commitRAT       \* history: the map at the last commit

backVars == <<window, loads, stores, nextCkptId, haltFetched, commitRAT>>

vars == <<robVars, ratVars, prfVars, requests, backVars>>

Units == {"ALU", "MUL", "DIV", "LOAD", "BRANCH", "STADDR", "STVAL"}

(* The units that broadcast on a common data bus.                          *)
CdbUnits == {"ALU", "MUL", "DIV", "LOAD"}

Init ==
    /\ ROBInit /\ RATInit /\ PRFInit /\ FlushInit
    /\ window = {}
    /\ loads = {}
    /\ stores = {}
    /\ nextCkptId = 0
    /\ haltFetched = FALSE
    /\ commitRAT = RAT_PRF

-----------------------------------------------------------------------------
(* Buses.                                                                  *)

squashDetect == arbitResult(requests)

ckptNext(c) == IF c = CkptCap - 1 THEN 0 ELSE c + 1

(* A waiting instruction may be reported when its sources are ready and    *)
(* the squash of the cycle does not stop it.                               *)
canFinish(w) ==
    /\ \A op \in w.ops : isReady(op[2])
    /\ survives(w.tag, squashDetect)

(* One report per unit and cycle, except for the store values, which are   *)
(* all written as soon as they are ready.                                  *)
Reports ==
    {f \in SUBSET {w \in window : canFinish(w)} :
        \A v, w \in f : v.unit = w.unit => v = w \/ v.unit = "STVAL"}

(* The mispredictions that a set of reports may bring: the branch of the   *)
(* BRU head, the jump of the ALU head.                                     *)
controlTags(f) ==
    {w.tag : w \in {v \in f : \/ v.unit = "BRANCH"
                              \/ /\ v.unit = "ALU"
                                 /\ ROBqueue[robSlot(v.tag)].type = "LINK"}}

(* The loads that a reported store address may turn out to have been       *)
(* overtaken by: younger, with a known address (its sources are ready).    *)
overtaking(f) ==
    {l \in loads :
        /\ \E w \in f : w.unit = "STADDR" /\ isYounger(l, w.tag)
        /\ \A w \in window : w.tag = l => \A op \in w.ops : isReady(op[2])}

(* The tags that become ready to commit: results on the CDBs, the BRU      *)
(* head, and the stores that have both address and value.                  *)
storesReady ==
    {t \in stores : survives(t, squashDetect) /\ \A w \in window : w.tag # t}

robDone(f) ==
    {w.tag : w \in {v \in f : v.unit \in CdbUnits \cup {"BRANCH"}}}
      \cup storesReady

cdbDone(f) == {w.tag : w \in {v \in f : v.unit \in CdbUnits}}

-----------------------------------------------------------------------------
(* Ticks of the remaining modules.                                         *)

(* Mutant: the two tags of the age comparison are swapped.                 *)
kept_swapped(t) ==
    squashDetect.needSquash => ~isOlder(t, squashDetect.SquashTag)

(* A squash frees the stations and rewinds the queues behind its target.   *)
kept(t) ==
    squashDetect.needSquash => ~isOlder(squashDetect.SquashTag, t)

(* RSUnit::tick and the units: fill the issued stations, free the reported *)
(* ones, drop what the squash discards.                                    *)
WindowTick(issued, f) ==
    window' = {w \in (window \ f) \cup issued : kept(w.tag)}

(* The load and store queues hold the uncommitted memory instructions.     *)
QueueTick(valid, u) ==
    LET uncommitted(q, kind) ==
          {t \in q \cup (IF valid /\ u.kind = kind THEN {next_tag} ELSE {}) :
             kept(t) /\ ~(willCommit(squashDetect) /\ t = head)}
    IN  /\ loads' = uncommitted(loads, "LOAD")
        /\ stores' = uncommitted(stores, "STORE")

(* Mutant: after a squash the target's own checkpoint id is used again.    *)
FrontTick_reusesId(valid, u) ==
    /\ nextCkptId' =
         IF squashDetect.needSquash THEN squashDetect.CkptId
         ELSE IF valid THEN ckptNext(nextCkptId) ELSE nextCkptId
    /\ haltFetched' =
         (~squashDetect.needSquash
            /\ (haltFetched \/ (valid /\ u.kind = "HALT")))

(* The checkpoint ids follow the fetch order and are rewound by a squash;  *)
(* the halt latch stops the front end until a squash.                      *)
FrontTick(valid, u) ==
    /\ nextCkptId' =
         IF squashDetect.needSquash THEN ckptNext(squashDetect.CkptId)
         ELSE IF valid THEN ckptNext(nextCkptId) ELSE nextCkptId
    /\ haltFetched' =
         (~squashDetect.needSquash
            /\ (haltFetched \/ (valid /\ u.kind = "HALT")))

CommitTick ==
    commitRAT' =
      IF willCommit(squashDetect) /\ headEntry.newPhy # InvalidPhy
        THEN [commitRAT EXCEPT ![headEntry.dest] = headEntry.newPhy]
        ELSE commitRAT

-----------------------------------------------------------------------------
(* Everything a cycle does with the reports f and the issued uop u, if the *)
(* packet is valid; the mispredicted tags and the violated load are chosen.*)
Cycle(pkt, u, f) ==
    /\ ROBtick(pkt, robDone(f), squashDetect)
    /\ RATtick(pkt, squashDetect)
    /\ PRFtick(pkt, cdbDone(f), squashDetect)
    /\ \E mis \in SUBSET controlTags(f) :
         \E viol \in {{}} \cup {{l} : l \in overtaking(f)} :
           FlushTick(mis, viol, squashDetect)
    /\ WindowTick(IF pkt.valid THEN stations(u) ELSE {}, f)
    /\ QueueTick(pkt.valid, u)
    /\ FrontTick(pkt.valid, u)
    /\ CommitTick

(* The simulation loop ends when the halt marker has committed and nothing *)
(* is left in the pipeline.                                                *)
finished == haltCommitted /\ isEmpty

(* A cycle that issues no instruction.                                     *)
Idle(f) == ~finished /\ Cycle(NoPacket, NoUop, f)

(* A cycle that issues u: not in a squash cycle, and not after the halt    *)
(* marker.                                                                 *)
Issue(u, f) ==
    /\ ~finished
    /\ ~squashDetect.needSquash
    /\ ~haltFetched
    /\ canIssue(u)
    /\ (HaltFindsRoom /\ u.kind = "HALT") => ~isFull
    /\ Cycle(IssuePacket(u, nextCkptId), u, f)

Done == finished /\ UNCHANGED vars

Next ==
    \/ \E f \in Reports : Idle(f)
    \/ \E u \in Uops : \E f \in Reports : Issue(u, f)
    \/ Done

(* A cycle in which a unit other than the load queue reports the oldest    *)
(* instruction.                                                            *)
HeadReports == \E f \in Reports :
    /\ \E w \in f : w.tag = head /\ w.unit # "LOAD"
    /\ Idle(f) \/ \E u \in Uops : Issue(u, f)

Spec == Init /\ [][Next]_vars

(* The clock ticks.  The dispatch arbiter takes the oldest ready station   *)
(* of every unit, and the units' buffers are queues of fixed latency, so   *)
(* the oldest instruction is reported in the end; whether a load is, is    *)
(* the business of the load queue, and nothing is assumed of it.           *)
FairSpec == Spec /\ WF_vars(Next) /\ WF_vars(HeadReports)

-----------------------------------------------------------------------------
(* Positions in the ROB.                                                   *)

age(t) == RingDistance(head, t, RobCap, RobSpan)

LiveTags == {t \in RobTags : age(t) < age(next_tag)}

entry(t) == ROBqueue[robSlot(t)]

(* The mapping of register r seen by an instruction younger than exactly   *)
(* the live tags in S: the youngest writer in S, else the committed one.   *)
mapping(r, S) ==
    LET writers == {t \in S : entry(t).newPhy # InvalidPhy /\ entry(t).dest = r}
    IN  IF writers = {} THEN commitRAT[r]
        ELSE entry(CHOOSE t \in writers :
                     \A v \in writers : age(v) <= age(t)).newPhy

upTo(t) == {v \in LiveTags : age(v) <= age(t)}

before(t) == {v \in LiveTags : age(v) < age(t)}

freeRegs ==
    {freeList[prfSlot(s)] :
        s \in {x \in PrfSeqs :
                 prfSeqDistance(headSeq, x) < prfSeqDistance(headSeq, tailSeq)}}

(* The two ways out of the ROB.                                            *)
leaves(t) ==
    \/ /\ squashDetect.needSquash
       /\ isYounger(t, squashDetect.SquashTag)
    \/ /\ t = head /\ entry(t).isCommitReady
       /\ squashDetect.needSquash => t # squashDetect.SquashTag

-----------------------------------------------------------------------------
(* Properties.                                                             *)

EntryType ==
    [tag : RobTags \cup {NoTag}, type : ROBType, isCommitReady : BOOLEAN,
     halt : BOOLEAN, dest : Regs, ckptId : Ckpts, newPhy : Phys, oldPhy : Phys]

(* Every module's state keeps its type across all cycles: tags and         *)
(* sequence numbers never leave the allocated codes of their rings.        *)
TypeOK ==
    /\ ROBqueue \in [RobSlots -> EntryType]
    /\ head \in RobTags /\ next_tag \in RobTags
    /\ haltCommitted \in BOOLEAN /\ haltRd \in Regs \cup {-1}
    /\ RAT_PRF \in [Regs -> Phys]
    /\ ratCkpt \in [Ckpts -> [Regs -> Phys]]
    /\ ready \in [Phys -> BOOLEAN]
    /\ freeList \in [Phys -> Phys]
    /\ headSeq \in PrfSeqs /\ tailSeq \in PrfSeqs
    /\ PRFHeadCkpt \in [Ckpts -> PrfSeqs]
    /\ requests \in SUBSET Requests
    /\ window \in SUBSET [tag : RobTags, unit : Units,
                          ops : SUBSET (Regs \X Phys)]
    /\ loads \in SUBSET RobTags /\ stores \in SUBSET RobTags
    /\ nextCkptId \in Ckpts
    /\ haltFetched \in BOOLEAN
    /\ commitRAT \in [Regs -> Phys]

(* The slots between head and next_tag hold exactly the live instructions, *)
(* never more than the ROB has: no issue overwrites an entry, no flush or  *)
(* commit leaves a foreign one (ROB::push, flush, pop).                    *)
RobWindow ==
    /\ age(next_tag) <= RobCap
    /\ \A t \in LiveTags : entry(t).tag = t

(* The RAT is what the committed map and the live instructions' renames    *)
(* give, also after every squash restored it from a checkpoint             *)
(* (RAT::tick).                                                            *)
RatReplaysRob == \A r \in Regs : RAT_PRF[r] = mapping(r, LiveTags)

(* Whatever live instruction a squash may choose as its target, the        *)
(* checkpoints under its id restore the map and the free-list head of the  *)
(* moment just after it was issued: no younger instruction has reused the  *)
(* id (RAT::tick, PRF::tick, BPU's checkpoint ids).                        *)
CheckpointsReplay ==
    \A t \in LiveTags :
        /\ \A r \in Regs : ratCkpt[entry(t).ckptId][r] = mapping(r, upTo(t))
        /\ prfSeqDistance(PRFHeadCkpt[entry(t).ckptId], headSeq) =
             Cardinality({v \in LiveTags \ upTo(t) : entry(v).newPhy # InvalidPhy})

(* Every physical register except P0 is exactly one of: free, the value of *)
(* a committed register, the destination of a live instruction.  None is   *)
(* lost or handed out twice, through issue, commit and squash, also when   *)
(* they fall into the same cycle (PRF::tick).                              *)
RegistersPartitioned ==
    LET committed == {commitRAT[r] : r \in Regs \ {0}}
        dest == {entry(t).newPhy : t \in LiveTags} \ {InvalidPhy}
    IN  /\ freeRegs \cup committed \cup dest = Phys \ {InvalidPhy}
        /\ prfSeqDistance(headSeq, tailSeq) + (RegCap - 1)
             + Cardinality({t \in LiveTags : entry(t).newPhy # InvalidPhy})
           = PrfCap - 1

(* A pending squash names a live instruction and that instruction's own    *)
(* checkpoint when it is served, one cycle after it was raised, although   *)
(* commits and an older squash may happen in between, and the queue never  *)
(* overflows (FlushArbiter::receive throws "flush arbiter overload!").     *)
RequestsServable ==
    /\ Cardinality(requests) < FlushCap
    /\ \A q \in requests :
         q.SquashTag \in LiveTags /\ q.CkptId = entry(q.SquashTag).ckptId

(* Whoever waits in a station or unit is live and not yet ready to commit, *)
(* so that no result can reach an entry that reused its tag, and it still  *)
(* names the registers its sources were renamed to: none of them has been  *)
(* recycled before it is read (RSUnit::tick, ROB::matchesTag).             *)
WindowConsistent ==
    \A w \in window :
        /\ w.tag \in LiveTags
        /\ ~entry(w.tag).isCommitReady
        /\ \A op \in w.ops : op[2] = mapping(op[1], before(w.tag))

(* A ready register holds the value of its current owner: committed ones   *)
(* are ready, a live instruction's destination is ready exactly when it    *)
(* has been reported or is a link value (PRF::tick).                       *)
ReadyMeansProduced ==
    /\ \A r \in Regs \ {0} : ready[commitRAT[r]]
    /\ \A t \in LiveTags : entry(t).newPhy # InvalidPhy =>
         (ready[entry(t).newPhy] <=>
             entry(t).type = "LINK" \/ \A w \in window : w.tag # t)

(* A live instruction leaves the ROB in exactly two ways: as the ready     *)
(* head, unless it is itself the squash target of the cycle, or because it *)
(* is younger than the target; commit and squash of one cycle never remove *)
(* anything else (ROB::willCommit, ROB::flush).                            *)
LeavesByCommitOrSquash ==
    [][\A t \in LiveTags : t \notin LiveTags' <=> leaves(t)]_vars

(* What the documentation promises of issue: an instruction enters the ROB *)
(* only when the ROB has a free entry (IssueArbiter::build, the halt       *)
(* branch).                                                                *)
IssueFindsRoom == [][next_tag' # next_tag /\ isFull => squashDetect.needSquash]_vars

(* The oldest instruction, unless it is a load, commits in the end: no     *)
(* squash frees its stations, drops its report or takes a source it waits  *)
(* for (RSUnit::tick, ROB::tick, ROB::willCommit).                         *)
HeadCommits ==
    \A t \in RobTags :
        (head = t /\ ~isEmpty /\ t \notin loads) ~> (head # t)

=============================================================================
