------------------------------- MODULE DCache -------------------------------
(***************************************************************************)
(* The data cache (src/src/DCache/DCache.cpp) composed with the data       *)
(* memory behind it: four ways per set, tree-PLRU replacement, write-back  *)
(* and write-allocate.  A hit is served in the cycle of the request; a     *)
(* miss parks the request, asks the DMEM for the line and, if the victim   *)
(* is dirty, sends its line to the write port in the same pulse, and waits.*)
(*                                                                         *)
(* Both modules tick on the snapshot of the cycle: the cache reads the     *)
(* DMEM's ports and reply, the DMEM the cache's request pulse.             *)
(***************************************************************************)
EXTENDS DMEM

CONSTANT NumSets    \* NUM_OF_SETS

ASSUME DcacheAssumption == NumSets \in Nat \ {0}

VARIABLES
    lines,              \* the lines of every set, one per way
    plru,               \* the tree-PLRU bits of every set
    busy,               \* what the memory arbiter sees
    phase,              \* READY or WAIT
    cacheRequestBuffer, \* the parked request of the miss
    request,            \* the pulse to the DMEM
    loadBuffer          \* the load response of the cycle

cacheVars ==
    <<lines, plru, busy, phase, cacheRequestBuffer, request, loadBuffer>>

vars == <<cacheVars, dmemVars>>

Sets == 0 .. NumSets - 1

Ways == 0 .. 3

setOf(b) == b % NumSets

tagOf(b) == b \div NumSets

(* The line number rebuilt from a line's tag and its set.                  *)
blockOf(tag, set) == tag * NumSets + set

EmptyLine == [valid |-> FALSE, dirty |-> FALSE, tag |-> 0, datas |-> ZeroLine]

NoPark == [valid |-> FALSE, request |-> DefaultRequest, targetWay |-> 0]

NoRequest ==
    [readValid |-> FALSE, readBlock |-> 0,
     writeValid |-> FALSE, writeBlock |-> 0, writeData |-> ZeroLine]

CacheInit ==
    /\ lines = [s \in Sets |-> [w \in Ways |-> EmptyLine]]
    /\ plru = [s \in Sets |-> [root |-> 0, left |-> 0, right |-> 0]]
    /\ busy = FALSE
    /\ phase = "READY"
    /\ cacheRequestBuffer = NoPark
    /\ request = NoRequest
    /\ loadBuffer = NoResponse

-----------------------------------------------------------------------------
(* Lookup and replacement.                                                 *)

(* Mutant: the search stops before the last way.                           *)
hitWays_skipsLast(b) ==
    {w \in 0 .. 2 : /\ lines[setOf(b)][w].valid
                    /\ lines[setOf(b)][w].tag = tagOf(b)}

(* The ways whose valid line has the tag of b.                             *)
hitWays(b) ==
    {w \in Ways : /\ lines[setOf(b)][w].valid
                  /\ lines[setOf(b)][w].tag = tagOf(b)}

(* The search loop keeps the last match.                                   *)
hitWay(b) == CHOOSE w \in hitWays(b) : \A v \in hitWays(b) : v <= w

(* The victim the tree bits point to: 0 is left, 1 is right.               *)
victim(bits) ==
    IF bits.root = 0 THEN (IF bits.left = 0 THEN 0 ELSE 1)
                     ELSE (IF bits.right = 0 THEN 2 ELSE 3)

(* The first invalid way, else the victim.                                 *)
AllocateLine(s) ==
    LET invalid == {w \in Ways : ~lines[s][w].valid}
    IN  IF invalid # {} THEN CHOOSE w \in invalid : \A v \in invalid : w <= v
        ELSE victim(plru[s])

(* Mutant: the bits on the path point to the way just used.                *)
touched_towards(bits, w) ==
    [root  |-> IF w < 2 THEN 0 ELSE 1,
     left  |-> IF w < 2 THEN w ELSE bits.left,
     right |-> IF w >= 2 THEN w - 2 ELSE bits.right]

(* Every use of a way turns the bits on its path away from it.             *)
touched(bits, w) ==
    [root  |-> IF w < 2 THEN 1 ELSE 0,
     left  |-> IF w < 2 THEN 1 - w ELSE bits.left,
     right |-> IF w >= 2 THEN 3 - w ELSE bits.right]

-----------------------------------------------------------------------------
(* The cache's tick.                                                       *)

Use(s, w, line) ==
    /\ lines' = [lines EXCEPT ![s][w] = line]
    /\ plru' = [plru EXCEPT ![s] = touched(@, w)]

(* Mutant: a store hit leaves the line clean.                              *)
Hit_keepsClean(r) ==
    LET s == setOf(r.block)
        w == hitWay(r.block)
        old == lines[s][w]
    IN  /\ hitWays(r.block) # {}
        /\ IF r.op = "Load"
             THEN /\ Use(s, w, old)
                  /\ loadBuffer' = LoadResponse(r, old.datas)
             ELSE /\ Use(s, w, [old EXCEPT !.datas = merge(@, r)])
                  /\ loadBuffer' = NoResponse
        /\ request' = NoRequest
        /\ UNCHANGED <<busy, phase, cacheRequestBuffer>>

(* A request that finds its line: a load is answered, a store writes the   *)
(* line and marks it dirty.                                                *)
Hit(r) ==
    LET s == setOf(r.block)
        w == hitWay(r.block)
        old == lines[s][w]
    IN  /\ hitWays(r.block) # {}
        /\ IF r.op = "Load"
             THEN /\ Use(s, w, old)
                  /\ loadBuffer' = LoadResponse(r, old.datas)
             ELSE /\ Use(s, w, [old EXCEPT !.dirty = TRUE,
                                           !.datas = merge(@, r)])
                  /\ loadBuffer' = NoResponse
        /\ request' = NoRequest
        /\ UNCHANGED <<busy, phase, cacheRequestBuffer>>

(* Mutant: the victim is written back to the requested tag's frame.        *)
missRequest_ownTag(b, w) ==
    LET old == lines[setOf(b)][w]
    IN  [readValid |-> TRUE, readBlock |-> b,
         writeValid |-> old.dirty,
         writeBlock |-> IF old.dirty THEN b ELSE 0,
         writeData |-> IF old.dirty THEN old.datas ELSE ZeroLine]

(* The pulse of a miss: read the line, write a dirty victim back to the    *)
(* block of its own tag.                                                   *)
missRequest(b, w) ==
    LET old == lines[setOf(b)][w]
    IN  [readValid |-> TRUE, readBlock |-> b,
         writeValid |-> old.dirty,
         writeBlock |-> IF old.dirty THEN blockOf(old.tag, setOf(b)) ELSE 0,
         writeData |-> IF old.dirty THEN old.datas ELSE ZeroLine]

(* A request that does not: park it with its identity and its way, and     *)
(* wait; the victim stays in its way until the fill.                       *)
Miss(r) ==
    LET way == AllocateLine(setOf(r.block))
    IN  /\ hitWays(r.block) = {}
        /\ cacheRequestBuffer' =
             [valid |-> TRUE, request |-> r, targetWay |-> way]
        /\ request' = missRequest(r.block, way)
        /\ busy' = TRUE
        /\ phase' = "WAIT"
        /\ loadBuffer' = NoResponse
        /\ UNCHANGED <<lines, plru>>

(* The wait is over when the line has arrived and the victim is written.   *)
refilled == readOutput.valid /\ ~writeExecute.busy

(* The fill and the parked request in one cycle.                           *)
Fill ==
    LET r == cacheRequestBuffer.request
        store == r.op = "Store"
        line == readOutput.lineData
    IN  /\ phase = "WAIT" /\ refilled
        /\ Use(setOf(r.block), cacheRequestBuffer.targetWay,
               [valid |-> TRUE, dirty |-> store, tag |-> tagOf(r.block),
                datas |-> IF store THEN merge(line, r) ELSE line])
        /\ loadBuffer' = IF store THEN NoResponse ELSE LoadResponse(r, line)
        /\ cacheRequestBuffer' = NoPark
        /\ request' = NoRequest
        /\ busy' = FALSE
        /\ phase' = "READY"

(* Nothing to do: pulse and response of the last cycle go.                 *)
Hold ==
    /\ request' = NoRequest
    /\ loadBuffer' = NoResponse
    /\ UNCHANGED <<lines, plru, busy, phase, cacheRequestBuffer>>

-----------------------------------------------------------------------------
(* Cycles.                                                                 *)

(* The memory arbiter presents a request only to a cache that is not busy. *)
Access(r) == ~busy /\ phase = "READY" /\ (Hit(r) \/ Miss(r))

Wait == phase = "WAIT" /\ ~refilled /\ Hold

Rest == phase = "READY" /\ Hold

Init == CacheInit /\ DMEMInit

Next ==
    /\ DMEMtick(request)
    /\ \/ \E r \in Program : Access(r)
       \/ Fill
       \/ Wait
       \/ Rest

Spec == Init /\ [][Next]_vars

(* The clock ticks.                                                        *)
FairSpec == Spec /\ WF_vars(Next)

-----------------------------------------------------------------------------
(* The memory the queues see: a cached line, else the main memory's.       *)

visible ==
    [b \in Blocks |->
       IF hitWays(b) # {} THEN lines[setOf(b)][hitWay(b)].datas ELSE mem[b]]

Memory == INSTANCE AtomicMemory WITH
    store   <- visible,
    pending <- IF busy THEN {cacheRequestBuffer.request} ELSE {},
    answer  <- loadBuffer

-----------------------------------------------------------------------------
(* Properties.                                                             *)

(* Types of the cache's and the memory's state.                            *)
TypeOK ==
    /\ mem \in [Blocks -> Line]
    /\ readExecute \in [busy : BOOLEAN, block : Blocks,
                        remainCycle : 0 .. Latency]
    /\ writeExecute \in [busy : BOOLEAN, block : Blocks, lineData : Line,
                         remainCycle : 0 .. Latency]
    /\ readOutput \in [valid : BOOLEAN, lineData : Line]
    /\ lines \in [Sets -> [Ways -> [valid : BOOLEAN, dirty : BOOLEAN,
                                    tag : {tagOf(b) : b \in Blocks},
                                    datas : Line]]]
    /\ plru \in [Sets -> [root : {0, 1}, left : {0, 1}, right : {0, 1}]]
    /\ busy \in BOOLEAN
    /\ phase \in {"READY", "WAIT"}
    /\ cacheRequestBuffer.request \in Request
    /\ cacheRequestBuffer.targetWay \in Ways
    /\ request \in [readValid : BOOLEAN, readBlock : Blocks,
                    writeValid : BOOLEAN, writeBlock : Blocks,
                    writeData : Line]

(* No line is cached twice: the search loops of PrRd and PrWr, which take  *)
(* the last match, never have a choice.                                    *)
NoDuplicateLine ==
    \A s \in Sets : \A v, w \in Ways :
        /\ lines[s][v].valid /\ lines[s][w].valid
        /\ lines[s][v].tag = lines[s][w].tag
        => v = w

(* The assertion of the debug build on every clean hit, in every state: a  *)
(* clean line equals the main memory, also while a write-back is under way *)
(* (DCache::tick).                                                         *)
CleanMatchesMemory ==
    \A s \in Sets, w \in Ways :
        lines[s][w].valid /\ ~lines[s][w].dirty =>
            lines[s][w].datas = mem[blockOf(lines[s][w].tag, s)]

(* When the cache accepts requests, nothing of the last miss is left: both *)
(* ports are idle (asserted by DCache::tick), no pulse is on the bus and   *)
(* no reply waits that the next miss could take for its own.               *)
DrainedWhenReady ==
    /\ busy <=> phase = "WAIT"
    /\ phase = "READY" =>
         /\ ~readExecute.busy /\ ~writeExecute.busy
         /\ ~readOutput.valid
         /\ ~request.readValid /\ ~request.writeValid

(* The cache and the main memory implement a memory without a cache: every *)
(* load returns the bytes last stored, no store is lost by an eviction or  *)
(* a refill, and an answer carries its own request's identity.             *)
ImplementsMemory == Memory!Spec

(* Every miss is served, although the DMEM's reply is valid for one cycle  *)
(* only and the write-back may still be running (DCache::tick, WAIT).      *)
MissServed == Memory!Served

(* The line a miss has brought in is not the next victim of its set        *)
(* (tree-PLRU update of the filled way).                                   *)
FilledLineStays ==
    [][\A s \in Sets :
         busy /\ ~busy' /\ s = setOf(cacheRequestBuffer.request.block) =>
             AllocateLine(s)' # cacheRequestBuffer.targetWay]_vars

=============================================================================
