-------------------------------- MODULE LSQ --------------------------------
(***************************************************************************)
(* The memory side of the back end: load queue, store queue, AGU, the      *)
(* memory stations, the memory arbiter and the part of the flush arbiter   *)
(* that replays loads, composed with the ROB as in src/src/CPU/CPU.cpp.    *)
(* One step is one clock cycle: all modules tick on the same snapshot.     *)
(*                                                                         *)
(* The data cache is the memory it implements (AtomicMemory; proved in     *)
(* DCacheProofs.tla): a request is served in the cycle it is taken,        *)
(* a hit, or later, a miss.  A program is a sequence of loads, stores and  *)
(* branches that ends with the halt marker.  When the operands of an       *)
(* instruction become ready is left open.                                  *)
(***************************************************************************)
EXTENDS LQ, Sequences, FiniteSets

CONSTANTS
    Addrs,      \* data addresses, 0 .. n
    Programs    \* the programs that may be run

(* A store's value is its own position in the program, so that every value *)
(* in memory names the store that wrote it; the initial content of an      *)
(* address is a negative number of its own.                                *)
Instr == [kind : {"LOAD", "STORE"}, addr : Addrs]
           \cup [kind : {"BRANCH"}, pred : Nat, next : Nat]
           \cup [kind : {"HALT"}]

ASSUME LsqAssumption ==
    /\ Cardinality(Addrs) \in Nat \ {0}
    /\ Addrs = 0 .. Cardinality(Addrs) - 1
    /\ \A p \in Programs :
         /\ p \in Seq(Instr) /\ p # <<>> /\ p[Len(p)].kind = "HALT"
         /\ \A k \in 1 .. Len(p) : p[k].kind = "BRANCH" =>
              p[k].pred \in 1 .. Len(p) /\ p[k].next \in 1 .. Len(p)

VARIABLES
    program,    \* the program that is run
    pc,         \* the next instruction to issue
    addrRS,     \* tags in the load and store-address stations
    valRS,      \* tags in the store-value stations
    brRS,       \* tags of the unresolved branches
    agu,        \* tags in the AGU's output buffer
    requests,   \* pending squashes
    memory,     \* the memory behind the queues
    pending,    \* the request the cache is busy with
    answer,     \* the cache's load response of the cycle
    result,     \* PRF: the last value broadcast for a ROB slot
    refMem,     \* history: the memory after the committed instructions
    replayed,   \* history: live loads that a violation squash kept
    exposed,    \* history: live loads that met one of the two races below
    dropped     \* history: a load the squash kept has lost its answer

restVars ==
    <<program, pc, addrRS, valRS, brRS, agu, requests, memory, pending, answer,
      result, refMem, replayed, exposed, dropped>>

vars == <<robVars, sqVars, lqVars, restVars>>

Memory == INSTANCE AtomicMemory WITH
    BlockCap <- 1, NumBlocks <- Cardinality(Addrs),
    MemBlocks <- Cardinality(Addrs), Bytes <- Int, Program <- {},
    store <- memory

Init ==
    /\ ROBInit /\ SQInit /\ LQInit
    /\ program \in Programs
    /\ pc = 1
    /\ addrRS = {} /\ valRS = {} /\ brRS = {} /\ agu = {} /\ requests = {}
    /\ refMem = [a \in Addrs |-> -1 - a]
    /\ memory = [a \in Addrs |-> [o \in {0} |-> refMem[a]]]
    /\ pending = {}
    /\ answer = Memory!NoResponse
    /\ result = [s \in RobSlots |-> 0]
    /\ replayed = {} /\ exposed = {} /\ dropped = FALSE

-----------------------------------------------------------------------------
(* Instructions and their queue slots.                                     *)

entry(t) == ROBqueue[robSlot(t)]

instr(t) == program[entry(t).pc]

(* memIndex: the queue slot an instruction was given at issue, just before *)
(* the tail it recorded.  It travels with the instruction through station  *)
(* and AGU.                                                                *)
lqSlotOf(t) == (entry(t).lqTailSnapshot - 1 + LqCap) % LqCap

sqSlotOf(t) == (entry(t).sqTailSnapshot - 1 + SqCap) % SqCap

(* The accepted squash of the cycle: the oldest pending request.           *)
squashDetect ==
    IF requests = {} THEN [needSquash |-> FALSE, SquashTag |-> 0, SquashPC |-> 0]
    ELSE LET r == CHOOSE x \in requests :
                    \A y \in requests : x = y \/ isOlder(x.SquashTag, y.SquashTag)
         IN  [needSquash |-> TRUE, SquashTag |-> r.SquashTag,
              SquashPC |-> r.SquashPC]

live(t) == survives(t, squashDetect)

kept(t) == squashDetect.needSquash => ~isOlder(squashDetect.SquashTag, t)

-----------------------------------------------------------------------------
(* AGU.                                                                    *)

aguHead == {t \in agu : \A u \in agu : t = u \/ isOlder(t, u)}

(* The AGU's result of the cycle, gated by the squash.                     *)
aguOut(kind) == {t \in aguHead : live(t) /\ instr(t).kind = kind}

(* slot -> address for the result, if it is of the given kind.             *)
loadAddress ==
    [i \in {lqSlotOf(t) : t \in aguOut("LOAD")} |->
        instr(CHOOSE t \in aguOut("LOAD") : lqSlotOf(t) = i).addr]

storeAddress ==
    [i \in {sqSlotOf(t) : t \in aguOut("STORE")} |->
        instr(CHOOSE t \in aguOut("STORE") : sqSlotOf(t) = i).addr]

(* AGU::tick: the dispatched entry comes, the head goes, a squash drops    *)
(* the entries that are not older than its target.                         *)
AguTick(dispatch) == agu' = {t \in (agu \ aguHead) \cup dispatch : live(t)}

-----------------------------------------------------------------------------
(* Memory arbiter.                                                         *)

noneSent == [op |-> "None", slot |-> 0]

(* Mutant: a store goes as soon as it has address and value.               *)
headStoreGoes_early ==
    pending = {} /\ ~sqIsEmpty /\ isReadyToCommit(sqHead)

(* The store at the head of the SQ: committed, or committing now.          *)
headStoreGoes ==
    /\ pending = {} /\ ~sqIsEmpty
    /\ \/ sqIsCommitted(sqHead)
       \/ storeWillCommit(squashDetect) /\ SQqueue[sqHead].robTag = head

loadGoes ==
    {i \in LoadDetect :
        /\ pending = {}
        /\ canDispatchLoad(LQqueue[i].address, LQqueue[i].robTag)
        /\ live(LQqueue[i].robTag)}

(* MemArbiter::arbitrate: at most one request per cycle, stores first.     *)
MemDispatch ==
    IF headStoreGoes THEN [op |-> "Store", slot |-> sqHead]
    ELSE IF loadGoes # {}
      THEN [op |-> "Load", slot |-> CHOOSE i \in loadGoes : TRUE]
    ELSE noneSent

MemRequest(d) ==
    LET e == IF d.op = "Store" THEN SQqueue[d.slot] ELSE LQqueue[d.slot]
    IN  [op |-> d.op, block |-> e.address, off |-> 0, n_bytes |-> 1,
         val |-> [i \in {0} |-> e.value],
         id |-> [slot |-> d.slot, robTag |-> e.robTag]]

(* The cache: takes the request, which hits or misses, or serves a miss.   *)
MemTick ==
    IF MemDispatch.op # "None"
      THEN Memory!Serve(MemRequest(MemDispatch))
             \/ Memory!Accept(MemRequest(MemDispatch))
      ELSE Memory!Quiet \/ \E r \in pending : Memory!Serve(r)

(* DCache::loadResp: in a squash cycle only a response to a load strictly  *)
(* older than the target passes; the response is gone after the cycle.     *)
loadResp ==
    IF answer.valid /\ live(answer.id.robTag) THEN answer ELSE Memory!NoResponse

-----------------------------------------------------------------------------
(* Store broadcasts of the cycle.                                          *)

(* slot -> value for the stores whose values become ready.                 *)
storeValues(vals) ==
    LET written == {t \in vals : live(t)}
    IN  [i \in {sqSlotOf(t) : t \in written} |->
           entry(CHOOSE t \in written : sqSlotOf(t) = i).pc]

storeNotifies(vals) ==
    (UNION {planDataForward(i, storeValues(vals)[i]) :
              i \in DOMAIN storeValues(vals)})
    \cup (UNION {planAddressForward(i, storeAddress[i]) :
                   i \in DOMAIN storeAddress})

-----------------------------------------------------------------------------
(* Flush arbiter.                                                          *)

(* The loads that the resolving store finds to have overtaken it.          *)
violations ==
    {i \in lqActive : \E s \in DOMAIN storeAddress :
        /\ LQqueue[i].isAddressReady
        /\ LQqueue[i].address = storeAddress[s]
        /\ LQqueue[i].valueState \in {"READY", "FETCHING"}
        /\ isYounger(LQqueue[i].robTag, SQqueue[s].robTag)
        /\ live(LQqueue[i].robTag)
        /\ matchesTag(LQqueue[i].robTag)}

(* FlushArbiter::tick: the accepted request and the ones not older than it *)
(* go; a mispredicted branch and the oldest violated load come, the load   *)
(* with its own pc.                                                        *)
FlushTick(brs) ==
    requests' =
      {r \in requests : live(r.SquashTag)}
      \cup {[SquashTag |-> t, SquashPC |-> instr(t).next] :
              t \in {u \in brs : live(u) /\ instr(u).pred # instr(u).next}}
      \cup {[SquashTag |-> LQqueue[i].robTag,
             SquashPC |-> entry(LQqueue[i].robTag).pc] :
              i \in lqOldest(violations)}

-----------------------------------------------------------------------------
(* Issue.                                                                  *)

curr == program[pc]

(* The halt marker waits for room here too; that the code issues it into a *)
(* full ROB is the finding of Backend.tla.  Free stations are left to the  *)
(* choice of not issuing.                                                  *)
canIssue ==
    /\ ~squashDetect.needSquash
    /\ pc <= Len(program)
    /\ ~isFull
    /\ curr.kind = "LOAD" => ~lqIsFull
    /\ curr.kind = "STORE" => ~sqIsFull

(* The ROB entry of each path; the queue tails an instruction records are  *)
(* the ones just after itself.                                             *)
entryOf(i) ==
    [tag |-> NoTag,
     type |-> CASE i.kind = "STORE" -> "STORE"
                [] i.kind = "BRANCH" -> "BRANCH"
                [] OTHER -> "REGISTER",
     isCommitReady |-> i.kind = "HALT", halt |-> i.kind = "HALT", dest |-> 0,
     pc |-> pc,
     lqTailSnapshot |-> IF i.kind = "LOAD" THEN lqNext(lqTail) ELSE lqTail,
     sqTailSnapshot |-> IF i.kind = "STORE" THEN sqNext(sqTail) ELSE sqTail]

NoPacket == [valid |-> FALSE]

(* What the front end delivers behind an issued instruction: the path it   *)
(* predicts, and nothing behind the halt marker.                           *)
following(i) ==
    CASE i.kind = "BRANCH" -> i.pred
      [] i.kind = "HALT" -> Len(program) + 1
      [] OTHER -> pc + 1

(* The stations: the issued instruction comes, the dispatched ones go, a   *)
(* squash frees the ones behind its target.  The front end goes on behind  *)
(* the issued instruction, after a squash at the squash PC.                *)
StationTick(issued, dispatch, vals, brs) ==
    LET tags(kinds) == IF issued /\ curr.kind \in kinds THEN {next_tag} ELSE {}
    IN  /\ addrRS' = {t \in (addrRS \ dispatch) \cup tags({"LOAD", "STORE"}) : kept(t)}
        /\ valRS' = {t \in (valRS \ vals) \cup tags({"STORE"}) : kept(t)}
        /\ brRS' = {t \in (brRS \ brs) \cup tags({"BRANCH"}) : kept(t)}
        /\ pc' = IF squashDetect.needSquash THEN squashDetect.SquashPC
                 ELSE IF issued THEN following(curr) ELSE pc

-----------------------------------------------------------------------------
(* One cycle.                                                              *)

(* The tags that become ready to commit: the LQ's broadcast, the resolved  *)
(* branch, the stores with address and value.                              *)
robDone(brs) ==
    {LQqueue[i].robTag : i \in lqCDB(squashDetect)}
      \cup {t \in brs : live(t)}
      \cup {SQqueue[i].robTag : i \in {j \in sqActive :
              /\ isReadyToCommit(j) /\ ~SQqueue[j].isCommitted
              /\ live(SQqueue[j].robTag)}}

PrfTick ==
    result' = [s \in RobSlots |->
                 LET cdb == {i \in lqCDB(squashDetect) :
                               /\ robSlot(LQqueue[i].robTag) = s
                               /\ matchesTag(LQqueue[i].robTag)}
                 IN  IF cdb = {} THEN result[s]
                     ELSE LQqueue[CHOOSE i \in cdb : TRUE].value]

Races == {"resolving", "late"}

(* The two races of a load that is sent to the cache in this cycle: an     *)
(* older store to its address resolves in the same cycle, so that neither  *)
(* canDispatchLoad nor the scan for violations sees the other; or an       *)
(* answer for its tag and slot arrives in this cycle, which the cache has  *)
(* been asked for by an earlier load that had them.                        *)
races(tag) ==
    {r \in Races :
       CASE r = "resolving" ->
              \E s \in DOMAIN storeAddress :
                /\ storeAddress[s] = LQqueue[MemDispatch.slot].address
                /\ isOlder(SQqueue[s].robTag, tag)
         [] OTHER ->
              /\ loadResp.valid
              /\ loadResp.id.slot = MemDispatch.slot
              /\ loadResp.id.robTag = tag}

(* The history variables.                                                  *)
HistoryTick ==
    LET stays(t) == kept(t) /\ ~(willCommit(squashDetect) /\ t = head)
        sentTag == LQqueue[MemDispatch.slot].robTag
    IN  /\ refMem' = IF storeWillCommit(squashDetect)
                       THEN [refMem EXCEPT ![instr(head).addr] = entry(head).pc]
                       ELSE refMem
        /\ replayed' =
             {t \in replayed \cup
                (IF squashDetect.needSquash THEN {squashDetect.SquashTag} ELSE {}) :
                  stays(t) /\ instr(t).kind = "LOAD"}
        /\ exposed' =
             {x \in exposed \cup
                (IF MemDispatch.op = "Load" THEN {sentTag} \X races(sentTag) ELSE {}) :
                  stays(x[1])}
        /\ dropped' = (dropped \/ (answer.valid /\ squashDetect.needSquash
                                     /\ answer.id.robTag = squashDetect.SquashTag))

Cycle(pkt, dispatch, vals, brs) ==
    LET isLoad == pkt.valid /\ curr.kind = "LOAD"
        sent == MemDispatch
    IN  /\ ROBtick(pkt, robDone(brs), squashDetect)
        /\ SQtick(pkt, storeValues(vals), storeAddress, sent.op = "Store",
                  squashDetect)
        /\ LQtick(pkt, isLoad, storeNotifies(vals), loadAddress,
                  IF sent.op = "Load" THEN {sent.slot} ELSE {},
                  loadResp, squashDetect)
        /\ AguTick(dispatch)
        /\ FlushTick(brs)
        /\ StationTick(pkt.valid, dispatch, vals, brs)
        /\ MemTick
        /\ PrfTick
        /\ HistoryTick
        /\ UNCHANGED program

(* Mutant: the cache may still be busy.                                    *)
finished_ignoresCache == haltCommitted /\ isEmpty /\ sqIsEmpty

(* The run ends when the halt marker has committed, the pipeline and the   *)
(* store queue are empty and the cache is idle.                            *)
finished == haltCommitted /\ isEmpty /\ sqIsEmpty /\ pending = {}

(* What may become ready in a cycle: one address, any store values, one    *)
(* branch.                                                                 *)
AtMostOne(S) == {{}} \cup {{t} : t \in S}

Step(dispatch, vals, brs) ==
    /\ ~finished
    /\ \/ Cycle(NoPacket, dispatch, vals, brs)
       \/ canIssue /\ Cycle([valid |-> TRUE, robEntry |-> entryOf(curr)],
                            dispatch, vals, brs)

Done == finished /\ UNCHANGED vars

Next ==
    \/ \E dispatch \in AtMostOne({t \in addrRS : live(t)}),
          vals \in SUBSET valRS, brs \in AtMostOne(brRS) :
         Step(dispatch, vals, brs)
    \/ Done

Spec == Init /\ [][Next]_vars

(* Fairness: the loop in CPU::run goes on; the operands of every waiting   *)
(* instruction become ready and the arbiters pass it on; the cache serves  *)
(* every miss (MissServed in DCache.tla); the front end delivers what may  *)
(* be issued.                                                              *)
FairSpec ==
    /\ Spec
    /\ WF_vars(Next)
    /\ \A t \in RobTags : []<>(t \notin addrRS \cup valRS \cup brRS)
    /\ []<>(pending = {})
    /\ []<>~canIssue \/ []<><<next_tag' # next_tag>>_vars

-----------------------------------------------------------------------------
(* Properties.                                                             *)

(* Types of the state (the fields of LQ, SQ, AGU, the stations).           *)
TypeOK ==
    /\ head \in RobTags /\ next_tag \in RobTags
    /\ sqHead \in SqSlots /\ sqTail \in SqSlots
    /\ lqHead \in LqSlots /\ lqTail \in LqSlots
    /\ \A i \in SqSlots :
         /\ SQqueue[i].robTag \in RobTags \cup {NoTag}
         /\ SQqueue[i].address \in Addrs
         /\ SQqueue[i].value \in 0 .. Len(program)
    /\ \A i \in LqSlots :
         /\ LQqueue[i].robTag \in RobTags \cup {NoTag}
         /\ LQqueue[i].address \in Addrs
         /\ LQqueue[i].valueState \in ValueState
    /\ addrRS \cup valRS \cup brRS \cup agu \subseteq RobTags
    /\ Cardinality(pending) <= 1
    /\ pc \in 1 .. Len(program) + 1

(* The live instructions of the ROB, by kind.                              *)
liveTags(kind) ==
    LET age(t) == RingDistance(head, t, RobCap, RobSpan)
    IN  {t \in RobTags : age(t) < age(next_tag) /\ instr(t).kind = kind}

(* Queues and ROB agree after every issue, commit, retirement and squash:  *)
(* the SQ is its committed stores followed by exactly the stores of the    *)
(* ROB, the LQ loads that have left the ROB followed by exactly the loads  *)
(* of the ROB, each once and in program order, and the age comparison that *)
(* retires loads tells the two apart.  (The SQ and LQ tail snapshots of a  *)
(* squash, the retirement in LQ::tick.)                                    *)
QueuesMatchRob ==
    LET open == {i \in sqActive : ~SQqueue[i].isCommitted}
        unretired == {i \in lqActive : ~isOlder(LQqueue[i].robTag, head)}
        inOrder(S, tag(_), pos(_)) ==
          \A i, j \in S : pos(i) < pos(j) => isOlder(tag(i), tag(j))
    IN  /\ {SQqueue[i].robTag : i \in open} = liveTags("STORE")
        /\ inOrder(open, LAMBDA i : SQqueue[i].robTag, sqPos)
        /\ \A i \in open : sqBehind(i) \subseteq open
        /\ {LQqueue[i].robTag : i \in unretired} = liveTags("LOAD")
        /\ inOrder(unretired, LAMBDA i : LQqueue[i].robTag, lqPos)
        /\ \A i \in unretired, j \in lqActive \ unretired : lqPos(j) < lqPos(i)

(* The value an address has for the instructions that have committed: the  *)
(* youngest committed store of the SQ, then the store the cache is busy    *)
(* with, then the memory.                                                  *)
committedAt(a) ==
    LET drained == {i \in sqActive : SQqueue[i].isCommitted
                                       /\ SQqueue[i].address = a}
        parked == {r \in pending : r.op = "Store" /\ r.block = a}
    IN  IF drained # {} THEN SQqueue[sqYoungest(drained)].value
        ELSE IF parked # {} THEN (CHOOSE r \in parked : TRUE).val[0]
        ELSE memory[a][0]

(* No store is lost, doubled, reordered or written before it commits: the  *)
(* SQ, the cache's request and the memory give together the memory of the  *)
(* committed instructions.  (Store drain of MemArbiter and SQ::tick.)      *)
MemoryInOrder == \A a \in Addrs : refMem[a] = committedAt(a)

headIsLoad == ~isEmpty /\ instr(head).kind = "LOAD"

(* The value a load that commits now has broadcast is the one the program  *)
(* order gives it.                                                         *)
headLoadRight == result[robSlot(head)] = refMem[instr(head).addr]

(* Every load commits the value of the youngest older store to its         *)
(* address, whatever the order in which addresses, values, cache answers   *)
(* and squashes arrive.  A replayed load is wrong by design, since it is   *)
(* fetched again and commits a second time; the two races are the findings *)
(* that LoadsCorrected and the README describe.                            *)
LoadsRight ==
    willCommit(squashDetect) /\ headIsLoad =>
        \/ head \in replayed
        \/ \E r \in Races : <<head, r>> \in exposed
        \/ headLoadRight

(* The same with the first race: a load that is sent to the cache past an  *)
(* older store is corrected when that store turns out to write its         *)
(* address.                                                                *)
LoadsCorrected ==
    willCommit(squashDetect) /\ headIsLoad =>
        head \in replayed \/ <<head, "late">> \in exposed \/ headLoadRight

(* The program as the commits execute it: next comes the oldest            *)
(* instruction of the ROB, or the one that is issued next.  What the run   *)
(* leaves behind when it is finished is the memory alone.                  *)
InOrder == INSTANCE InOrder WITH
    at <- IF isEmpty THEN pc ELSE entry(head).pc,
    mem <- [a \in Addrs |-> IF finished THEN memory[a][0] ELSE committedAt(a)]

(* Whatever is predicted, squashed and replayed, the commits are those of  *)
(* the program executed in order: the path is the one the branches really  *)
(* take, every store on it is executed exactly once and no other is, and   *)
(* none is cut off by the finish condition of CPU::run.                    *)
ImplementsProgram == InOrder!Spec

(* The run ends: whatever is squashed, replayed and forwarded, every load  *)
(* gets a value, every instruction commits and the store queue drains.     *)
(* Unless a load that a squash keeps has lost its cache answer in the      *)
(* cycle of that squash (DCache::loadResp); such a load may wait for ever. *)
EndsUnlessDropped == <>(finished \/ dropped)

=============================================================================
