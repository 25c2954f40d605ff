------------------------------ MODULE ICache -------------------------------
(***************************************************************************)
(* The instruction cache (src/src/ICache/ICache.cpp) and the instruction   *)
(* memory behind it (src/src/IMEM/IMEM.cpp): a queue of fetches, each with *)
(* its word or a placeholder, and a queue of line requests, one for each   *)
(* fetch that missed.                                                      *)
(*                                                                         *)
(* An address is the number of a word.  The content of memory is the       *)
(* identity: a word is named by the address it was read from.              *)
(***************************************************************************)
EXTENDS Integers, Sequences

CONSTANTS
    ReqCap,         \* REQUEST_CAP
    ImemCap,        \* IMEM_CAP
    Latency,        \* MEM_LATENCY
    LineWords,      \* words of a line, ICACHE_BLOCK_CAP / 4
    NumBlocks       \* ICACHE_CAP

ASSUME ICacheAssumption ==
    {ReqCap, ImemCap, Latency, LineWords, NumBlocks} \subseteq Nat \ {0}

VARIABLES
    blocks,         \* the line held by each block
    requestBuffer,  \* the fetches, oldest first
    IMEMreqs        \* the line requests, oldest first

icacheVars == <<blocks, requestBuffer, IMEMreqs>>

NoLine == -1

NoWord == -1

ICacheInit ==
    /\ blocks = [b \in 0 .. NumBlocks - 1 |-> NoLine]
    /\ requestBuffer = <<>>
    /\ IMEMreqs = <<>>

lineOf(a) == a \div LineWords

blockOf(line) == line % NumBlocks

(* The word of a line that a fetch of address a takes.                     *)
wordOf(line, a) == (line * LineWords) + (a % LineWords)

hit(a) == blocks[blockOf(lineOf(a))] = lineOf(a)

isReturnReady == requestBuffer # <<>> /\ Head(requestBuffer).valid

isRequestFull == Len(requestBuffer) = ReqCap \/ Len(IMEMreqs) = ImemCap

(* IMEM::getReturn: the oldest request has been read from memory.          *)
lineReturn == IMEMreqs # <<>> /\ Head(IMEMreqs).remain = 0

returnedLine == Head(IMEMreqs).line

-----------------------------------------------------------------------------
popped(pop) == IF pop THEN Tail(requestBuffer) ELSE requestBuffer

(* The returned line goes to the placeholder at the head of q, if there is *)
(* one.                                                                    *)
backfilled(q) ==
    IF lineReturn /\ q # <<>> /\ ~Head(q).valid
      THEN [q EXCEPT ![1].valid = TRUE,
                     ![1].raw_inst = wordOf(returnedLine, Head(q).pc)]
      ELSE q

(* Mutant: the line is matched with the head before it is popped.          *)
afterReturn_beforePop(pop) ==
    IF pop THEN Tail(backfilled(requestBuffer)) ELSE backfilled(requestBuffer)

(* Mutant: the line goes to its block only.                                *)
afterReturn_blockOnly(pop) == popped(pop)

(* The line meets the head that is left after the pop.                     *)
afterReturn(pop) == backfilled(popped(pop))

(* ICache::pushRequest: the word of a hit, or a placeholder.               *)
pushRequest(q, fetch) ==
    IF ~fetch.valid THEN q
    ELSE Append(q, [fetch.entry EXCEPT
                      !.valid = hit(fetch.entry.pc),
                      !.raw_inst = IF hit(fetch.entry.pc)
                        THEN wordOf(blocks[blockOf(lineOf(fetch.entry.pc))],
                                    fetch.entry.pc)
                        ELSE NoWord])

(* ICache::tick.  A squash clears the fetches and keeps the lines.         *)
ICacheTick(fetch, pop, squash) ==
    /\ requestBuffer' =
         IF squash.needSquash THEN <<>> ELSE pushRequest(afterReturn(pop), fetch)
    /\ blocks' =
         IF lineReturn /\ ~squash.needSquash
           THEN [blocks EXCEPT ![blockOf(returnedLine)] = returnedLine]
           ELSE blocks

(* IMEM::tick: the returned request leaves, a miss enters, and those that  *)
(* were there before come one cycle closer.                                *)
IMEMtick(fetch, squash) ==
    LET rest == IF lineReturn THEN Tail(IMEMreqs) ELSE IMEMreqs
        closer == [i \in DOMAIN rest |->
                     [rest[i] EXCEPT !.remain = IF @ > 0 THEN @ - 1 ELSE 0]]
    IN  IMEMreqs' =
          IF squash.needSquash THEN <<>>
          ELSE IF fetch.valid /\ ~hit(fetch.entry.pc)
            THEN Append(closer, [line |-> lineOf(fetch.entry.pc),
                                 remain |-> Latency])
          ELSE closer

=============================================================================
