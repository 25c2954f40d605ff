-------------------------------- MODULE DMEM --------------------------------
(***************************************************************************)
(* The data memory (src/src/DMEM/DMEM.cpp): a line array behind a read and *)
(* a write port, each busy for Latency cycles with one line request, and   *)
(* an output buffer whose reply is valid for one cycle.                    *)
(*                                                                         *)
(* The registers of an idle port and of an invalid reply are never read:   *)
(* the model returns them to their defaults.                               *)
(***************************************************************************)
EXTENDS MemLine

CONSTANTS
    Latency,    \* MEM_LATENCY
    Image       \* the memory image loaded before the first cycle

ASSUME DmemAssumption == Latency \in Nat \ {0} /\ Image \in [Blocks -> Line]

VARIABLES
    mem,            \* the line array
    readExecute,    \* the read port and its request
    writeExecute,   \* the write port and its request
    readOutput      \* readOutputBuffer with readBufferValid

dmemVars == <<mem, readExecute, writeExecute, readOutput>>

IdleRead == [busy |-> FALSE, block |-> 0, remainCycle |-> 0]

IdleWrite ==
    [busy |-> FALSE, block |-> 0, lineData |-> ZeroLine, remainCycle |-> 0]

NoReply == [valid |-> FALSE, lineData |-> ZeroLine]

(* A line beyond MEM_SIZE reads as zero.                                   *)
DMEMInit ==
    /\ mem = [b \in Blocks |-> IF b < MemBlocks THEN Image[b] ELSE ZeroLine]
    /\ readExecute = IdleRead
    /\ writeExecute = IdleWrite
    /\ readOutput = NoReply

(* writeLine: a line beyond MEM_SIZE is dropped.                           *)
written(b, line) == IF b < MemBlocks THEN [mem EXCEPT ![b] = line] ELSE mem

(* Mutant: the reply is not pulled after its cycle.                        *)
ReadTick_keepsReply(req) ==
    IF ~readExecute.busy
      THEN /\ readExecute' = IF req.readValid
                               THEN [busy |-> TRUE, block |-> req.readBlock,
                                     remainCycle |-> Latency]
                               ELSE IdleRead
           /\ readOutput' = readOutput
    ELSE IF readExecute.remainCycle = 1
      THEN /\ readExecute' = IdleRead
           /\ readOutput' = [valid |-> TRUE, lineData |-> mem[readExecute.block]]
    ELSE /\ readExecute' = [readExecute EXCEPT !.remainCycle = @ - 1]
         /\ readOutput' = NoReply

(* The read port: an idle one claims the request, a busy one counts down   *)
(* and puts the line in the output buffer, where it stays for one cycle.   *)
ReadTick(req) ==
    IF ~readExecute.busy
      THEN /\ readExecute' = IF req.readValid
                               THEN [busy |-> TRUE, block |-> req.readBlock,
                                     remainCycle |-> Latency]
                               ELSE IdleRead
           /\ readOutput' = NoReply
    ELSE IF readExecute.remainCycle = 1
      THEN /\ readExecute' = IdleRead
           /\ readOutput' = [valid |-> TRUE, lineData |-> mem[readExecute.block]]
    ELSE /\ readExecute' = [readExecute EXCEPT !.remainCycle = @ - 1]
         /\ readOutput' = NoReply

(* Mutant: a write-back takes one cycle longer than a refill.              *)
WriteTick_slower(req) ==
    IF ~writeExecute.busy
      THEN /\ writeExecute' = IF req.writeValid
                                THEN [busy |-> TRUE, block |-> req.writeBlock,
                                      lineData |-> req.writeData,
                                      remainCycle |-> Latency + 1]
                                ELSE IdleWrite
           /\ UNCHANGED mem
    ELSE IF writeExecute.remainCycle = 1
      THEN /\ writeExecute' = IdleWrite
           /\ mem' = written(writeExecute.block, writeExecute.lineData)
    ELSE /\ writeExecute' = [writeExecute EXCEPT !.remainCycle = @ - 1]
         /\ UNCHANGED mem

(* The write port.                                                         *)
WriteTick(req) ==
    IF ~writeExecute.busy
      THEN /\ writeExecute' = IF req.writeValid
                                THEN [busy |-> TRUE, block |-> req.writeBlock,
                                      lineData |-> req.writeData,
                                      remainCycle |-> Latency]
                                ELSE IdleWrite
           /\ UNCHANGED mem
    ELSE IF writeExecute.remainCycle = 1
      THEN /\ writeExecute' = IdleWrite
           /\ mem' = written(writeExecute.block, writeExecute.lineData)
    ELSE /\ writeExecute' = [writeExecute EXCEPT !.remainCycle = @ - 1]
         /\ UNCHANGED mem

(* DMEM::tick with the request pulse of the cache.                         *)
DMEMtick(req) == ReadTick(req) /\ WriteTick(req)

=============================================================================
