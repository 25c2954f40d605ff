----------------------------- MODULE FrontEnd ------------------------------
(***************************************************************************)
(* The front end as src/src/CPU/CPU.cpp wires it: fetch unit, predictor    *)
(* state, instruction cache and memory, fetch queue and decode queue.  One *)
(* step is one clock cycle: all modules tick on the same snapshot.         *)
(*                                                                         *)
(* Of the back end, which Backend and LSQ model, only what the front end   *)
(* sees of it is here: it takes the head of the decode queue when it has   *)
(* room, commits in order, and squashes at an instruction it holds, a      *)
(* control transfer that did not go where it was predicted or a load that  *)
(* is fetched again.                                                       *)
(***************************************************************************)
EXTENDS BPU, ICache

CONSTANTS
    FqCap,          \* FQ_CAP
    IqCap,          \* IQ_CAP
    RobCap,         \* ROB_CAP
    CondSeenCap,    \* CONDSEEN_CAP
    MaxSquashes,    \* bound: squashes of a run
    MaxFetches,     \* bound: fetches of a run
    Codes           \* the codes that may be run

(* A code maps every address to its instruction.  JUMP and CALL are jal,   *)
(* CALL the one that links; INDIRECT, ICALL and RET are jalr.  Only        *)
(* BRANCH, JUMP and CALL have a use for the target.                        *)
Kinds ==
    {"PLAIN", "LOAD", "BRANCH", "JUMP", "CALL", "INDIRECT", "ICALL", "RET",
     "HALT"}

ASSUME FrontEndAssumption ==
    /\ {FqCap, IqCap, RobCap, MaxSquashes, MaxFetches} \subseteq Nat
    /\ FqCap > 1 /\ IqCap > 1 /\ RobCap > 0 /\ CondSeenCap \in Nat \ {0}
    /\ CkptCap >= RobCap + ReqCap + (FqCap - 1) + (IqCap - 1)
    /\ \A c \in Codes :
         /\ Cardinality(DOMAIN c) \in Nat \ {0}
         /\ Cardinality(DOMAIN c) % LineWords = 0
         /\ DOMAIN c = 0 .. Cardinality(DOMAIN c) - 1
         /\ \A a \in DOMAIN c : c[a].kind \in Kinds /\ c[a].target \in DOMAIN c

VARIABLES
    code,           \* the code that is run
    programCounter,
    haltFetched,    \* the halt marker has been seen: no more fetches
    fq,             \* fetch queue
    pushCache,      \* what the fetch queue took in the last cycle
    iq,             \* decode queue
    rob,            \* what the back end holds
    halted,         \* the halt marker has committed
    squashes,       \* the squashes so far
    fetches,        \* the fetches so far
    lost,           \* history: a line was dropped and a placeholder waits
    spoiled         \* history: checkpoints whose return stack is gone

fetchVars == <<code, programCounter, haltFetched, fq, pushCache, iq>>

vars ==
    <<bpuVars, icacheVars, fetchVars, rob, halted, squashes, fetches, lost, spoiled>>

NoPush == [valid |-> FALSE, raw_inst |-> NoWord, pc |-> 0]

Init ==
    /\ BPUInit /\ ICacheInit
    /\ code \in Codes
    /\ programCounter = 0 /\ haltFetched = FALSE
    /\ fq = <<>> /\ pushCache = NoPush /\ iq = <<>>
    /\ rob = <<>> /\ halted = FALSE /\ squashes = 0 /\ fetches = 0
    /\ lost = FALSE /\ spoiled = {}

-----------------------------------------------------------------------------
(* Instructions.                                                           *)

next(a) == (a + 1) % Cardinality(DOMAIN code)

kind(e) == code[e.raw_inst].kind

isHalt(e) == e.valid /\ kind(e) = "HALT"

isControl(e) ==
    kind(e) \in {"BRANCH", "JUMP", "CALL", "INDIRECT", "ICALL", "RET"}

(* The addresses behind the calls.                                         *)
returnPoints ==
    {next(a) : a \in {b \in DOMAIN code : code[b].kind \in {"CALL", "ICALL"}}}

(* Where execution may go on after e, as the BRU, the ALU or the check for *)
(* violated loads reports it.  A return goes back to some call, another    *)
(* jalr anywhere; a replayed load goes to itself.                          *)
resolved(e) ==
    CASE kind(e) = "BRANCH" -> {next(e.pc), code[e.raw_inst].target}
      [] kind(e) \in {"JUMP", "CALL"} -> {code[e.raw_inst].target}
      [] kind(e) \in {"INDIRECT", "ICALL"} -> DOMAIN code
      [] kind(e) = "RET" -> returnPoints
      [] kind(e) = "LOAD" -> {e.pc}
      [] OTHER -> {}

-----------------------------------------------------------------------------
(* The fetch of the cycle.                                                 *)

fqIsFull == Len(fq) = FqCap - 1

iqIsFull == Len(iq) = IqCap - 1

(* The return addresses in sight: top first, at most the ring.             *)
stackOf(ras, top) ==
    [d \in 1 .. (IF top < RasCap THEN top ELSE RasCap) |-> ras[rasSlot(top - d)]]

guess(a, shift, value) == [pc |-> a, shift |-> shift, shiftValue |-> value]

(* The targets a BTB hit at a may name.  Those of a branch or a jal are    *)
(* exact.  A jalr's is the last one it had, or what the slot held for      *)
(* another address when the pre-decoder claimed it.  A return takes the    *)
(* top of the stack, unless it was trained as a plain jump.                *)
hitTargets(a) ==
    CASE code[a].kind \in {"BRANCH", "JUMP", "CALL"} -> {code[a].target}
      [] code[a].kind \in {"INDIRECT", "ICALL"} -> DOMAIN code
      [] code[a].kind = "RET" ->
           returnPoints \cup (IF RAS_top > 0 THEN {rasHead.retPC} ELSE {})
      [] OTHER -> {}

(* The filter condSeen has no tags: an address shares its entry.           *)
mayBeSeen(a) ==
    \E b \in DOMAIN code :
      code[b].kind = "BRANCH" /\ b % CondSeenCap = a % CondSeenCap

(* BPU::predict, the tables left open: a taken hit goes to its target,     *)
(* without one fetching goes on behind.  A hit shifts the direction in, so *)
(* does whatever the filter takes for a branch seen before.                *)
predict(a) ==
    {guess(next(a), FALSE, 0)}
      \cup {guess(next(a), TRUE, b) : b \in {c \in Bits : mayBeSeen(a)}}
      \cup {guess(t, TRUE, 1) : t \in hitTargets(a)}

NoFetch == [valid |-> FALSE]

(* FetchDecision::build, for the prediction p.  The last two fields of the *)
(* entry are history: what a squash at it should bring back.               *)
fetchOf(p) ==
    [valid |-> TRUE, shift |-> p.shift, shiftValue |-> p.shiftValue,
     entry |-> [pc |-> programCounter, predictPC |-> p.pc, ckptId |-> nextCkptId,
                raw_inst |-> NoWord, valid |-> FALSE, open |-> TRUE,
                ghr |-> GHR, stack |-> stackOf(RAS, RAS_top)]]

fetchDecisions(squash) ==
    IF squash.needSquash \/ haltFetched \/ fqIsFull \/ isRequestFull
         \/ fetches = MaxFetches
      THEN {NoFetch}
      ELSE {fetchOf(p) : p \in predict(programCounter)}

(* The cache's head goes to the fetch queue.                               *)
popConsume == isReturnReady /\ ~haltFetched /\ ~fqIsFull

haltSignal == isReturnReady /\ isHalt(Head(requestBuffer))

-----------------------------------------------------------------------------
(* The modules' ticks.                                                     *)

(* FetchUnit::tick.                                                        *)
FetchUnitTick(fetch, squash) ==
    /\ programCounter' = CASE squash.needSquash -> squash.SquashPC
                           [] fetch.valid -> fetch.entry.predictPC
                           [] OTHER -> programCounter
    /\ haltFetched' = (~squash.needSquash /\ (haltFetched \/ haltSignal))

takenByIQ == fq # <<>> /\ ~iqIsFull

(* InstructBuffer::tick: the cache's head comes, the queue's head goes to  *)
(* the decode queue.                                                       *)
FQtick(squash) ==
    LET rest == IF takenByIQ THEN Tail(fq) ELSE fq
        e == Head(requestBuffer)
    IN  IF squash.needSquash THEN fq' = <<>> /\ pushCache' = NoPush
        ELSE IF popConsume
          THEN /\ fq' = Append(rest, e)
               /\ pushCache' = [valid |-> TRUE, raw_inst |-> e.raw_inst,
                                pc |-> e.pc]
        ELSE fq' = rest /\ pushCache' = NoPush

(* Mutant: the squash forgets the decode queue.                            *)
decoded_kept(issue, squash) ==
    LET rest == IF issue THEN Tail(iq) ELSE iq
    IN  IF takenByIQ THEN Append(rest, Head(fq)) ELSE rest

decoded(issue, squash) ==
    LET rest == IF issue THEN Tail(iq) ELSE iq
    IN  IF squash.needSquash THEN <<>>
        ELSE IF takenByIQ THEN Append(rest, Head(fq)) ELSE rest

(* DecodeUnit::tick.                                                       *)
DecodeTick(issue, squash) == iq' = decoded(issue, squash)

(* scanJump, of what the fetch queue took in the last cycle.               *)
scanJump ==
    LET k == code[pushCache.raw_inst].kind
    IN  IF pushCache.valid /\ k \in {"CALL", "ICALL", "RET"}
          THEN [kind |-> IF k = "RET" THEN "RET" ELSE "CALL",
                ra |-> next(pushCache.pc)]
          ELSE [kind |-> "NONE", ra |-> 0]

(* ROB::flush: a squash leaves its target and what is older.  A control    *)
(* transfer is resolved now, a load may be replayed again.                 *)
cutBack(squash) ==
    [SubSeq(rob, 1, squash.at) EXCEPT
       ![squash.at] = [@ EXCEPT !.predictPC = squash.SquashPC,
                                !.open = ~isControl(rob[squash.at])]]

(* ROB::tick: the back end takes an entry and commits its oldest.          *)
BackEndTick(issue, commit, squash) ==
    LET held == IF squash.needSquash THEN cutBack(squash) ELSE rob
        left == IF commit THEN Tail(held) ELSE held
    IN  /\ rob' = IF issue THEN Append(left, Head(iq)) ELSE left
        /\ halted' = (commit /\ isHalt(Head(rob)))
        /\ squashes' = squashes + (IF squash.needSquash THEN 1 ELSE 0)

-----------------------------------------------------------------------------
(* History.                                                                *)

(* The returned line finds no placeholder at the head though one is        *)
(* waiting for it: it is not asked for again.  A squash makes up for it,   *)
(* unless the back end has a wrong word by then.                           *)
Lost(squash) ==
    LET q == popped(popConsume)
    IN  lost' = IF squash.needSquash
                  THEN lost /\ \E i \in 1 .. squash.at : rob[i].raw_inst # rob[i].pc
                  ELSE lost \/ /\ lineReturn /\ ~haltFetched
                               /\ q # <<>> /\ Head(q).valid

liveEntries == rob \o iq \o fq \o requestBuffer

liveIds == {liveEntries[i].ckptId : i \in DOMAIN liveEntries}

(* The event of the cycle leaves checkpoint c without a way back: a record *)
(* it needs is overwritten, a push runs over an address in its sight, or   *)
(* a repetition count changes in the cycle of the squash.                  *)
spoils(c, event, squash) ==
    LET e == rasEvent(event)
        records == e.tail # alignTail
        pushes == e.top = wrap(RAS_top + 1)
        ahead == wrap(RAS_top - c.RAS_top)
        depth == IF c.RAS_top < RasCap THEN c.RAS_top ELSE RasCap
    IN  \/ records /\ wrap(alignTail - c.alignTail) >= AlignCap
        \/ pushes /\ ahead < CounterSpan \div 2 /\ ahead + depth >= RasCap
        \/ squash.needSquash /\ records /\ e.top = RAS_top

Spoiled(fetch, event, squash) ==
    spoiled' = {c \in liveIds' :
                  \/ c \in spoiled /\ ~(fetch.valid /\ c = nextCkptId)
                  \/ spoils(bpCkpt'[c], event, squash)}

-----------------------------------------------------------------------------
NoSquash == [needSquash |-> FALSE, at |-> 0, CkptId |-> 0, SquashPC |-> 0]

(* FlushArbiter::arbitResult: one of the squashes that are asked for.      *)
squashDetects ==
    {NoSquash} \cup
      {[needSquash |-> TRUE, at |-> i, CkptId |-> rob[i].ckptId, SquashPC |-> s] :
         i \in {j \in DOMAIN rob : rob[j].open /\ squashes < MaxSquashes},
         s \in DOMAIN code}

(* FlushArbiter::tick: a control transfer asks for one when it goes where  *)
(* it was not predicted, a load whenever an older store finds it violated. *)
wellPlaced(squash) ==
    squash.needSquash =>
      LET e == rob[squash.at]
      IN  /\ squash.SquashPC \in resolved(e)
          /\ isControl(e) => squash.SquashPC # e.predictPC

(* ROB::willCommit: the oldest entry is done, and older than the squash.   *)
(* A control transfer is done when it was predicted right or has been      *)
(* squashed.                                                               *)
mayCommit(squash) ==
    /\ rob # <<>>
    /\ squash.needSquash => squash.at > 1
    /\ isControl(Head(rob)) /\ Head(rob).open
         => Head(rob).predictPC \in resolved(Head(rob))

(* IssueArbiter::build; stations and registers may be out at any time.     *)
(* (What the halt marker and an invalid word do without room is modelled   *)
(* in Backend.)                                                            *)
mayIssue(squash) == iq # <<>> /\ Len(rob) < RobCap /\ ~squash.needSquash

Cycle(squash, issue, commit, fetch) ==
    /\ wellPlaced(squash)
    /\ issue => mayIssue(squash)
    /\ commit => mayCommit(squash)
    /\ BPUtick(fetch, scanJump, squash)
    /\ ICacheTick(fetch, popConsume, squash)
    /\ IMEMtick(fetch, squash)
    /\ FetchUnitTick(fetch, squash)
    /\ FQtick(squash)
    /\ DecodeTick(issue, squash)
    /\ BackEndTick(issue, commit, squash)
    /\ Lost(squash)
    /\ Spoiled(fetch, scanJump, squash)
    /\ fetches' = fetches + (IF fetch.valid THEN 1 ELSE 0)
    /\ UNCHANGED code

Next ==
    \/ /\ ~halted
       /\ \E squash \in squashDetects, issue, commit \in BOOLEAN :
            \E fetch \in fetchDecisions(squash) : Cycle(squash, issue, commit, fetch)
    \/ halted /\ UNCHANGED vars

Spec == Init /\ [][Next]_vars

(* Cycles go on, and the back end does not leave the decode queue full     *)
(* for ever: the oldest instruction always completes.                      *)
FairSpec == Spec /\ WF_vars(Next) /\ []<>(~iqIsFull \/ halted)

-----------------------------------------------------------------------------
(* Properties.                                                             *)

(* The queues hold one stream: from the back end to the program counter    *)
(* each instruction is the one its predecessor's prediction names, and     *)
(* each has the word of its own address.  The latch that ends fetching is  *)
(* closed only behind the halt marker: the back end or a queue holds it,   *)
(* or it heads the cache.  Squashes, hits among misses and full queues     *)
(* come in any order (FetchUnit.cpp, InstructBuffer.cpp, ICache.cpp,       *)
(* Decoder.cpp).                                                           *)
StreamFollowsPrediction ==
    LET s == liveEntries
    IN  /\ \A i \in DOMAIN s :
             s[i].predictPC = IF i < Len(s) THEN s[i + 1].pc ELSE programCounter
        /\ lost \/ \A i \in DOMAIN s : s[i].valid => s[i].raw_inst = s[i].pc
        /\ haltFetched =>
             halted \/ \E i \in DOMAIN s :
               isHalt(s[i]) /\ i <= Len(rob \o iq \o fq) + 1

waiting == {i \in DOMAIN requestBuffer : ~requestBuffer[i].valid}

(* How many wait up to position i.                                         *)
turn(i) == Cardinality({j \in waiting : j <= i})

(* Lines come back in the order of the placeholders, one for each, though  *)
(* nothing but the order ties a line to its fetch (ICache.cpp:58): the     *)
(* requests on the way are those of the waiting fetches, and a fetch that  *)
(* has its word waits for none.  Not when the line found no placeholder at *)
(* the head, and not behind the halt marker.                               *)
RefillsMatched ==
    \/ lost \/ haltFetched
    \/ /\ Len(IMEMreqs) = Cardinality(waiting)
       /\ \A i \in waiting :
            IMEMreqs[turn(i)].line = lineOf(requestBuffer[i].pc)

(* Checkpoint ids are reused in a ring that squashes turn back: those in   *)
(* use are distinct, and each still has the history of its own fetch, for  *)
(* the squash and for the training of the tables.                          *)
CheckpointsIntact ==
    LET s == liveEntries
    IN  /\ \A i, j \in DOMAIN s : s[i].ckptId = s[j].ckptId => i = j
        /\ \A i \in DOMAIN s : bpCkpt[s[i].ckptId].GHR = s[i].ghr

(* The folded views, stepped with each prediction and rebuilt by each      *)
(* squash, are those of the history (BPU.hpp: fh*[i] always equals         *)
(* refoldView(GHR, TAGE_HIST[i], W)).                                      *)
FoldsMatch == \A v \in Views : fh[v] = refoldView(GHR, v)

(* Whatever instruction a squash goes back to, undoing the journal gives   *)
(* the return stack its fetch saw, unless its records were overrun, pushes *)
(* went round the ring, or a repetition count changed in a squash cycle.   *)
RasRewound ==
    \A i \in DOMAIN liveEntries :
      LET c == bpCkpt[liveEntries[i].ckptId]
      IN  liveEntries[i].ckptId \in spoiled
            \/ stackOf(rewound(RAS, c.alignTail), c.RAS_top) = liveEntries[i].stack

(* A fetch in the cache is handed on, or squashed, unless fetching has     *)
(* ended or its line was dropped.                                          *)
HeadDelivered ==
    requestBuffer # <<>> ~>
      pushCache.valid \/ requestBuffer = <<>> \/ haltFetched \/ lost

(* ICache.cpp:55: "head now points to the placeholder awaiting this line". *)
(* Whoever waits has a line on the way.                                    *)
RefillsServed == haltFetched \/ Cardinality(waiting) <= Len(IMEMreqs)

=============================================================================
