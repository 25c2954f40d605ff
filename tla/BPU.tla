-------------------------------- MODULE BPU --------------------------------
(***************************************************************************)
(* The speculative state of the branch predictor (src/src/BPU/BPU.cpp):    *)
(* global history with its folded views, return-address stack with the     *)
(* journal that undoes it, and the checkpoints a squash goes back to.      *)
(*                                                                         *)
(* The prediction tables only choose where fetching goes on; a prediction  *)
(* is an input here.  Counters that wrap in the code (uint8_t, uint32_t)   *)
(* wrap here at CounterSpan.                                               *)
(***************************************************************************)
EXTENDS Integers, FiniteSets

CONSTANTS
    CkptCap,        \* CKPT_CAP
    RasCap,         \* RAS_CAP
    AlignCap,       \* ALIGNQ_CAP
    CounterSpan,    \* 2^8: where RAS_top and alignTail wrap
    HistLen,        \* bits of the GHR
    Views           \* the folded views, [h: history length, w: width]

ASSUME BpuAssumption ==
    /\ {CkptCap, RasCap, AlignCap, CounterSpan} \subseteq Nat \ {0}
    /\ CounterSpan % RasCap = 0 /\ CounterSpan % AlignCap = 0
    /\ RasCap < CounterSpan \div 2 /\ AlignCap <= CounterSpan \div 2
    /\ HistLen \in Nat
    /\ \A v \in Views : v.h \in 1 .. HistLen /\ v.w \in Nat \ {0}

VARIABLES
    GHR,            \* global history, bit 0 the newest
    fh,             \* the folded views of GHR
    nextCkptId,     \* the id of the next fetch
    bpCkpt,         \* the checkpoints
    RAS,            \* ring of return addresses with repetition counts
    RAS_top,        \* its write pointer
    alignQueue,     \* the journal: entries of RAS before they were changed
    alignTail       \* its write pointer

bpuVars ==
    <<GHR, fh, nextCkptId, bpCkpt, RAS, RAS_top, alignQueue, alignTail>>

Bits == {0, 1}

CkptIds == 0 .. CkptCap - 1

wrap(n) == (n + CounterSpan) % CounterSpan

NoEntry == [retPC |-> 0, times |-> 0]

BPUInit ==
    /\ GHR = [i \in 0 .. HistLen - 1 |-> 0]
    /\ fh = [v \in Views |-> [j \in 0 .. v.w - 1 |-> 0]]
    /\ nextCkptId = 0
    /\ RAS = [i \in 0 .. RasCap - 1 |-> NoEntry]
    /\ RAS_top = 0
    /\ alignQueue = [i \in 0 .. AlignCap - 1 |-> [index |-> 0, entry |-> NoEntry]]
    /\ alignTail = 0
    /\ bpCkpt = [c \in CkptIds |->
                   [GHR |-> GHR, alignTail |-> 0, RAS_top |-> 0]]

-----------------------------------------------------------------------------
(* History.                                                                *)

(* The view of width w of the newest h bits: the exclusive or of the       *)
(* successive chunks of w bits.                                            *)
refoldView(g, v) ==
    [j \in 0 .. v.w - 1 |->
       Cardinality({k \in 0 .. v.h - 1 : k % v.w = j /\ g[k] = 1}) % 2]

(* Mutant: the bit that leaves is forgotten when w divides h.              *)
stepFold_dropsWrap(f, g, b, v) ==
    [j \in 0 .. v.w - 1 |->
       (f[(j + v.w - 1) % v.w]
          + (IF j = 0 THEN b ELSE 0)
          + (IF j = v.h % v.w /\ j # 0 THEN g[v.h - 1] ELSE 0)) % 2]

(* One shift of a view f of history g: rotate, enter bit b, cancel the bit *)
(* that leaves the window.                                                 *)
stepFold(f, g, b, v) ==
    [j \in 0 .. v.w - 1 |->
       (f[(j + v.w - 1) % v.w]
          + (IF j = 0 THEN b ELSE 0)
          + (IF j = v.h % v.w THEN g[v.h - 1] ELSE 0)) % 2]

shiftGHR(g, b) == [i \in DOMAIN g |-> IF i = 0 THEN b ELSE g[i - 1]]

-----------------------------------------------------------------------------
(* Return-address stack.                                                   *)

rasSlot(n) == wrap(n) % RasCap

rasHead == RAS[rasSlot(RAS_top - 1)]

(* The journal after the top entry has been recorded.                      *)
journal ==
    [alignQueue EXCEPT ![alignTail % AlignCap] =
        [index |-> rasSlot(RAS_top - 1), entry |-> rasHead]]

counted(n) ==
    [RAS EXCEPT ![rasSlot(RAS_top - 1)].times = wrap(@ + n)]

(* What the pre-decoded call or return of the last push does: ras, top,    *)
(* queue, tail.  A repeated call counts up, a return counts down before it *)
(* pops; both are recorded first.                                          *)
rasEvent(event) ==
    LET same == [ras |-> RAS, top |-> RAS_top, queue |-> alignQueue,
                 tail |-> alignTail]
        recorded == [same EXCEPT !.queue = journal, !.tail = wrap(alignTail + 1)]
    IN  CASE event.kind = "CALL" /\ RAS_top > 0 /\ rasHead.retPC = event.ra ->
               [recorded EXCEPT !.ras = counted(1)]
          [] event.kind = "CALL" /\ ~(RAS_top > 0 /\ rasHead.retPC = event.ra) ->
               [same EXCEPT
                  !.ras = [RAS EXCEPT ![rasSlot(RAS_top)] =
                             [retPC |-> event.ra, times |-> 1]],
                  !.top = wrap(RAS_top + 1)]
          [] event.kind = "RET" /\ RAS_top > 0 /\ rasHead.times > 1 ->
               [recorded EXCEPT !.ras = counted(CounterSpan - 1)]
          [] event.kind = "RET" /\ RAS_top > 0 /\ rasHead.times <= 1 ->
               [recorded EXCEPT !.top = wrap(RAS_top - 1)]
          [] OTHER -> same

(* The journal's records since tail base, newest first.                    *)
undone(base) ==
    {k \in 0 .. AlignCap - 1 : k < wrap(alignTail - base)}

record(k) == alignQueue[wrap(alignTail - 1 - k) % AlignCap]

(* Mutant: of several records of a slot the newest is kept.                *)
rewound_newest(ras, base) ==
    [i \in DOMAIN ras |->
       LET ks == {k \in undone(base) : record(k).index = i}
       IN  IF ks = {} THEN ras[i]
           ELSE record(CHOOSE k \in ks : \A l \in ks : k <= l).entry]

(* The undo loop: of several records of a slot the oldest is written last. *)
rewound(ras, base) ==
    [i \in DOMAIN ras |->
       LET ks == {k \in undone(base) : record(k).index = i}
       IN  IF ks = {} THEN ras[i]
           ELSE record(CHOOSE k \in ks : \A l \in ks : l <= k).entry]

-----------------------------------------------------------------------------
snapshotCheckPoint ==
    [GHR |-> GHR, alignTail |-> alignTail, RAS_top |-> RAS_top]

(* Mutant: the id is not taken back.                                       *)
ckptAfter_keepsId(fetch, squash) ==
    IF fetch.valid THEN (nextCkptId + 1) % CkptCap ELSE nextCkptId

ckptAfter(fetch, squash) ==
    IF squash.needSquash THEN (squash.CkptId + 1) % CkptCap
    ELSE IF fetch.valid THEN (nextCkptId + 1) % CkptCap
    ELSE nextCkptId

(* BPU::tick without the tables: the fetch takes a checkpoint and shifts   *)
(* its prediction in, the event of the last push changes the stack, a      *)
(* squash goes back.  The event is applied in a squash cycle too.          *)
BPUtick(fetch, event, squash) ==
    LET e == rasEvent(event)
        back == bpCkpt[squash.CkptId]
        g == IF squash.needSquash THEN back.GHR
             ELSE IF fetch.valid /\ fetch.shift
               THEN shiftGHR(GHR, fetch.shiftValue) ELSE GHR
    IN  /\ bpCkpt' = IF fetch.valid
                       THEN [bpCkpt EXCEPT ![nextCkptId] = snapshotCheckPoint]
                       ELSE bpCkpt
        /\ nextCkptId' = ckptAfter(fetch, squash)
        /\ GHR' = g
        /\ fh' = [v \in Views |->
                    IF squash.needSquash THEN refoldView(g, v)
                    ELSE IF fetch.valid /\ fetch.shift
                      THEN stepFold(fh[v], GHR, fetch.shiftValue, v)
                    ELSE fh[v]]
        /\ alignQueue' = e.queue
        /\ IF squash.needSquash
             THEN /\ RAS' = rewound(e.ras, back.alignTail)
                  /\ RAS_top' = back.RAS_top
                  /\ alignTail' = back.alignTail
             ELSE RAS' = e.ras /\ RAS_top' = e.top /\ alignTail' = e.tail

=============================================================================
