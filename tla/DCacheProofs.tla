---------------------------- MODULE DCacheProofs ----------------------------
(***************************************************************************)
(* Proofs about the data cache and the memory behind it, for every number  *)
(* of sets and lines, every latency and every set of requests: the safety  *)
(* of the fill and write-back protocol, and that the two together are a    *)
(* memory without a cache.                                                 *)
(***************************************************************************)
EXTENDS DCache, TLAPS

-----------------------------------------------------------------------------
(* The inductive invariant.                                                *)

(* The block a line was brought in for.                                    *)
homeOf(s, w) == blockOf(lines[s][w].tag, s)

(* A valid line stands for a block of the memory; only valid lines are     *)
(* dirty, and a line beyond MEM_SIZE never leaves zero (PrWr, writeLine).  *)
LinesPlaced ==
    /\ \A s \in Sets, w \in Ways :
         /\ lines[s][w].dirty => lines[s][w].valid
         /\ lines[s][w].valid =>
              /\ homeOf(s, w) \in Blocks
              /\ homeOf(s, w) >= MemBlocks => lines[s][w].datas = ZeroLine
    /\ \A b \in Blocks : b >= MemBlocks => mem[b] = ZeroLine

(* The cycle after a miss: the pulse is on the bus, both ports are idle.   *)
Asked(b, w) ==
    LET old == lines[setOf(b)][w]
    IN  /\ request.readValid /\ request.readBlock = b
        /\ request.writeValid = old.dirty
        /\ old.dirty => /\ request.writeBlock = homeOf(setOf(b), w)
                        /\ request.writeData = old.datas
        /\ ~readExecute.busy /\ ~writeExecute.busy
        /\ ~readOutput.valid

(* The cycles in which the ports work, in lockstep if both do.             *)
Working(b, w) ==
    LET old == lines[setOf(b)][w]
    IN  /\ ~request.readValid /\ ~request.writeValid
        /\ readExecute.busy /\ readExecute.block = b
        /\ readExecute.remainCycle > 0
        /\ writeExecute.busy = old.dirty
        /\ old.dirty =>
             /\ writeExecute.block = homeOf(setOf(b), w)
             /\ writeExecute.lineData = old.datas
             /\ writeExecute.remainCycle = readExecute.remainCycle
        /\ ~readOutput.valid

(* The one cycle of the reply: the line is there and the victim, still in  *)
(* its way, is written.                                                    *)
Answered(b, w) ==
    LET old == lines[setOf(b)][w]
    IN  /\ ~request.readValid /\ ~request.writeValid
        /\ ~readExecute.busy /\ ~writeExecute.busy
        /\ readOutput.valid /\ readOutput.lineData = mem[b]
        /\ old.dirty => mem[homeOf(setOf(b), w)] = old.datas

(* While the cache waits, its line is not cached and the miss is in one of *)
(* the three stages.                                                       *)
MissUnderWay ==
    phase = "WAIT" =>
        LET b == cacheRequestBuffer.request.block
            w == cacheRequestBuffer.targetWay
        IN  /\ cacheRequestBuffer.request \in Program
            /\ hitWays(b) = {}
            /\ Asked(b, w) \/ Working(b, w) \/ Answered(b, w)

IInv ==
    /\ TypeOK
    /\ NoDuplicateLine
    /\ CleanMatchesMemory
    /\ DrainedWhenReady
    /\ LinesPlaced
    /\ MissUnderWay

-----------------------------------------------------------------------------
(* Sets and tags of a block.                                               *)

(* Quotient and remainder are determined by their defining equation.       *)
LEMMA DivModUnique ==
    ASSUME NEW n \in Nat \ {0}, NEW q \in Nat, NEW p \in Nat,
           NEW s \in 0 .. n - 1, NEW t \in 0 .. n - 1,
           q * n + s = p * n + t
    PROVE  q = p /\ s = t
<1>1. CASE q < p
  <2>1. p - q >= 1 /\ (p - q) * n = s - t
    BY <1>1
  <2>2. (p - q) * n >= n
    BY <2>1
  <2> QED BY <2>1, <2>2
<1>2. CASE p < q
  <2>1. q - p >= 1 /\ (q - p) * n = t - s
    BY <1>2
  <2>2. (q - p) * n >= n
    BY <2>1
  <2> QED BY <2>1, <2>2
<1>3. CASE q = p
  BY <1>3
<1> QED BY <1>1, <1>2, <1>3

(* A block is rebuilt from its tag and its set (write-back of a victim).   *)
LEMMA SplitBlock ==
    ASSUME NEW b \in Blocks
    PROVE  /\ setOf(b) \in Sets
           /\ tagOf(b) \in Nat
           /\ blockOf(tagOf(b), setOf(b)) = b
BY DcacheAssumption, MemLineAssumption
   DEF Blocks, Sets, setOf, tagOf, blockOf

(* A tag and a set name one block.                                         *)
LEMMA JoinBlock ==
    ASSUME NEW s \in Sets, NEW tag \in Nat, blockOf(tag, s) \in Blocks
    PROVE  setOf(blockOf(tag, s)) = s /\ tagOf(blockOf(tag, s)) = tag
<1> DEFINE b == blockOf(tag, s)
<1>1. /\ setOf(b) \in Sets /\ tagOf(b) \in Nat
      /\ blockOf(tagOf(b), setOf(b)) = b
  BY SplitBlock
<1>2. tagOf(b) * NumSets + setOf(b) = tag * NumSets + s
  BY <1>1 DEF blockOf
<1> HIDE DEF b
<1> QED
  BY <1>1, <1>2, DivModUnique, DcacheAssumption DEF Sets

-----------------------------------------------------------------------------
(* Values.                                                                 *)

CacheLine ==
    [valid : BOOLEAN, dirty : BOOLEAN, tag : {tagOf(b) : b \in Blocks},
     datas : Line]

(* The line after a store is a line, and one beyond MEM_SIZE is unchanged  *)
(* (PrWr).                                                                 *)
LEMMA MergeFacts ==
    ASSUME NEW line \in Line, NEW r \in Request
    PROVE  /\ merge(line, r) \in Line
           /\ r.block >= MemBlocks => merge(line, r) = line
<1>1. /\ r.block \in Blocks /\ r.off \in Offsets /\ r.n_bytes \in 1 .. BlockCap
      /\ DOMAIN r.val = 0 .. r.n_bytes - 1
  BY DEF Request
<1>2. PICK n \in 1 .. BlockCap : r.val \in [0 .. n - 1 -> Bytes]
  BY DEF Request
<1>3. \A o \in Offsets : o \in r.off .. r.off + r.n_bytes - 1 =>
        r.val[o - r.off] \in Bytes
  <2> TAKE o \in Offsets
  <2> HAVE o \in r.off .. r.off + r.n_bytes - 1
  <2>1. o - r.off \in 0 .. r.n_bytes - 1
    BY <1>1, MemLineAssumption DEF Offsets
  <2> QED BY <2>1, <1>1, <1>2
<1>4. \A o \in Offsets : line[o] \in Bytes
  BY DEF Line
<1>5. [o \in Offsets |-> IF o \in r.off .. r.off + r.n_bytes - 1
                           THEN r.val[o - r.off] ELSE line[o]] \in Line
  BY <1>3, <1>4 DEF Line
<1>6. r.block \in Int /\ MemBlocks \in Int
  BY <1>1, MemLineAssumption DEF Blocks
<1> QED BY <1>5, <1>6 DEF merge

(* The line of an invalid way is a line of memory bytes.                   *)
LEMMA ZeroLineType == ZeroLine \in Line
BY MemLineAssumption DEF ZeroLine, Line

(* The registers at rest are typed.                                        *)
LEMMA DefaultTypes ==
    /\ IdleRead \in [busy : BOOLEAN, block : Blocks, remainCycle : 0 .. Latency]
    /\ IdleWrite \in [busy : BOOLEAN, block : Blocks, lineData : Line,
                      remainCycle : 0 .. Latency]
    /\ NoReply \in [valid : BOOLEAN, lineData : Line]
    /\ EmptyLine \in CacheLine
    /\ NoRequest \in [readValid : BOOLEAN, readBlock : Blocks,
                      writeValid : BOOLEAN, writeBlock : Blocks,
                      writeData : Line]
    /\ DefaultRequest \in Request
<1>1. 0 \in Blocks /\ 0 \in 0 .. Latency
  BY MemLineAssumption, DmemAssumption DEF Blocks
<1>2. tagOf(0) = 0
  BY DcacheAssumption DEF tagOf
<1>3. EmptyLine \in CacheLine
  BY <1>1, <1>2, ZeroLineType DEF EmptyLine, CacheLine
<1>4. DefaultRequest \in Request
  <2>1. [i \in {0} |-> 0] \in [0 .. 1 - 1 -> Bytes]
    BY MemLineAssumption
  <2>2. 1 \in 1 .. BlockCap /\ 0 \in Offsets
    BY MemLineAssumption DEF Offsets
  <2>3. [i \in {0} |-> 0]
          \in UNION {[0 .. n - 1 -> Bytes] : n \in 1 .. BlockCap}
    BY <2>1, <2>2
  <2>4. /\ 0 + 1 <= BlockCap
        /\ DOMAIN [i \in {0} |-> 0] = 0 .. 1 - 1
    BY MemLineAssumption
  <2> QED BY <1>1, <2>2, <2>3, <2>4 DEF DefaultRequest, Request
<1> QED
  BY <1>1, <1>3, <1>4, ZeroLineType
     DEF IdleRead, IdleWrite, NoReply, NoRequest

(* The search returns the only way that holds the line.                    *)
LEMMA HitWayUnique ==
    ASSUME TypeOK, NoDuplicateLine, NEW b \in Blocks, NEW w \in hitWays(b)
    PROVE  hitWays(b) = {w} /\ hitWay(b) = w
<1>1. hitWays(b) = {w}
  BY SplitBlock DEF hitWays, NoDuplicateLine
<1>2. w <= w
  BY DEF hitWays, Ways
<1> QED BY <1>1, <1>2 DEF hitWay

(* The way a miss allocates is a way, and an invalid one if there is one.  *)
LEMMA AllocateFacts ==
    ASSUME TypeOK, NEW s \in Sets
    PROVE  /\ AllocateLine(s) \in Ways
           /\ (\E w \in Ways : ~lines[s][w].valid)
                => ~lines[s][AllocateLine(s)].valid
<1> DEFINE invalid == {w \in Ways : ~lines[s][w].valid}
<1>1. CASE invalid # {}
  <2>1. \E w \in invalid : \A v \in invalid : w <= v
    <3>1. invalid \subseteq 0 .. 3
      BY DEF Ways
    <3> HIDE DEF invalid
    <3>2. CASE 0 \in invalid BY <3>1, <3>2
    <3>3. CASE 0 \notin invalid /\ 1 \in invalid BY <3>1, <3>3
    <3>4. CASE 0 \notin invalid /\ 1 \notin invalid /\ 2 \in invalid
      BY <3>1, <3>4
    <3>5. CASE 0 \notin invalid /\ 1 \notin invalid /\ 2 \notin invalid
      <4>1. \A v \in invalid : v = 3
        BY <3>1, <3>5
      <4> QED BY <1>1, <4>1
    <3> QED BY <3>2, <3>3, <3>4, <3>5
  <2>2. AllocateLine(s) = CHOOSE w \in invalid : \A v \in invalid : w <= v
    BY <1>1 DEF AllocateLine
  <2> QED BY <2>1, <2>2
<1>2. CASE invalid = {}
  BY <1>2 DEF AllocateLine, victim, Ways
<1> QED BY <1>1, <1>2

(* What the use of a way changes (PrRd, PrWr and the fill).                *)
LEMMA UseFacts ==
    ASSUME TypeOK, NEW s \in Sets, NEW w \in Ways, NEW line \in CacheLine,
           Use(s, w, line)
    PROVE  /\ lines' \in [Sets -> [Ways -> CacheLine]]
           /\ \A t \in Sets, v \in Ways :
                lines'[t][v] = IF t = s /\ v = w THEN line ELSE lines[t][v]
           /\ plru' \in [Sets -> [root : {0, 1}, left : {0, 1}, right : {0, 1}]]
<1>1. lines \in [Sets -> [Ways -> CacheLine]]
  BY DEF TypeOK, CacheLine
<1>2. lines' = [lines EXCEPT ![s][w] = line]
  BY DEF Use
<1>3. touched(plru[s], w) \in [root : {0, 1}, left : {0, 1}, right : {0, 1}]
  <2>1. w \in 0 .. 3
    BY DEF Ways
  <2> QED BY <2>1 DEF touched, TypeOK
<1>4. plru' \in [Sets -> [root : {0, 1}, left : {0, 1}, right : {0, 1}]]
  BY <1>3 DEF Use, TypeOK
<1> QED BY <1>1, <1>2, <1>4

(* An idle memory without a pulse rests (DMEM::tick).                      *)
LEMMA DmemRests ==
    ASSUME DMEMtick(request), ~readExecute.busy, ~writeExecute.busy,
           ~request.readValid, ~request.writeValid
    PROVE  /\ mem' = mem /\ readExecute' = IdleRead
           /\ writeExecute' = IdleWrite /\ readOutput' = NoReply
BY DEF DMEMtick, ReadTick, WriteTick

(* A request that waits for its refill is a request of the program.        *)
LEMMA MissRequestType ==
    ASSUME TypeOK, LinesPlaced, NEW b \in Blocks, NEW w \in Ways
    PROVE  missRequest(b, w) \in [readValid : BOOLEAN, readBlock : Blocks,
                                 writeValid : BOOLEAN, writeBlock : Blocks,
                                 writeData : Line]
<1> DEFINE old == lines[setOf(b)][w]
<1>1. setOf(b) \in Sets /\ 0 \in Blocks
  BY SplitBlock, MemLineAssumption DEF Blocks
<1>2. old.dirty \in BOOLEAN /\ old.datas \in Line
  BY <1>1 DEF TypeOK
<1>3. old.dirty => blockOf(old.tag, setOf(b)) \in Blocks
  BY <1>1 DEF LinesPlaced, homeOf
<1> QED BY <1>1, <1>2, <1>3, ZeroLineType DEF missRequest

-----------------------------------------------------------------------------
(* Each kind of cycle keeps the invariant.                                 *)

(* The empty cache in front of the initial memory has the invariant.       *)
LEMMA InitInv == Init => IInv
<1> SUFFICES ASSUME Init PROVE IInv
  OBVIOUS
<1> USE DEF Init, CacheInit, DMEMInit
<1>1. \A s \in Sets, w \in Ways : lines[s][w] = EmptyLine
  OBVIOUS
<1>2. TypeOK
  <2>1. mem \in [Blocks -> Line]
    BY DmemAssumption, ZeroLineType
  <2>2. 0 \in Ways
    BY DEF Ways
  <2> QED BY <2>1, <2>2, DefaultTypes DEF TypeOK, NoPark, CacheLine
<1>3. NoDuplicateLine /\ CleanMatchesMemory
  BY <1>1 DEF NoDuplicateLine, CleanMatchesMemory, EmptyLine
<1>4. DrainedWhenReady
  BY DEF DrainedWhenReady, IdleRead, IdleWrite, NoReply, NoRequest
<1>5. LinesPlaced
  <2>1. \A b \in Blocks : b >= MemBlocks => ~(b < MemBlocks)
    BY MemLineAssumption DEF Blocks
  <2> QED BY <1>1, <2>1 DEF LinesPlaced, EmptyLine
<1>6. MissUnderWay
  BY DEF MissUnderWay
<1> QED BY <1>2, <1>3, <1>4, <1>5, <1>6 DEF IInv

(* The line a hit leaves in its way.                                       *)
hitLine(r) ==
    LET old == lines[setOf(r.block)][hitWay(r.block)]
    IN  IF r.op = "Load" THEN old
        ELSE [old EXCEPT !.dirty = TRUE, !.datas = merge(@, r)]

(* What a hit does: the only way that holds the block is used, and the     *)
(* memory rests.                                                           *)
LEMMA HitFacts ==
    ASSUME IInv, NEW r \in Program, phase = "READY", Hit(r),
           DMEMtick(request)
    PROVE  /\ r \in Request /\ r.block \in Blocks /\ setOf(r.block) \in Sets
           /\ hitWays(r.block) = {hitWay(r.block)}
           /\ hitWay(r.block) \in Ways
           /\ lines[setOf(r.block)][hitWay(r.block)] \in CacheLine
           /\ lines[setOf(r.block)][hitWay(r.block)].valid
           /\ lines[setOf(r.block)][hitWay(r.block)].tag = tagOf(r.block)
           /\ hitLine(r) \in CacheLine
           /\ lines' \in [Sets -> [Ways -> CacheLine]]
           /\ \A t \in Sets, v \in Ways :
                lines'[t][v] = IF t = setOf(r.block) /\ v = hitWay(r.block)
                                 THEN hitLine(r) ELSE lines[t][v]
           /\ plru' \in [Sets -> [root : {0, 1}, left : {0, 1}, right : {0, 1}]]
           /\ request' = NoRequest
           /\ UNCHANGED <<busy, phase, cacheRequestBuffer>>
           /\ mem' = mem /\ readExecute' = IdleRead
           /\ writeExecute' = IdleWrite /\ readOutput' = NoReply
<1> DEFINE s == setOf(r.block)
           w == hitWay(r.block)
           old == lines[s][w]
<1>1. TypeOK /\ NoDuplicateLine
  BY DEF IInv
<1>2. r \in Request /\ r.block \in Blocks /\ s \in Sets
  BY MemLineAssumption, SplitBlock DEF Request
<1>3. /\ hitWays(r.block) = {w}
      /\ w \in Ways /\ old.valid /\ old.tag = tagOf(r.block)
  <2>1. PICK v \in hitWays(r.block) : TRUE
    BY DEF Hit
  <2>2. w = v /\ hitWays(r.block) = {v}
    BY <1>1, <1>2, <2>1, HitWayUnique
  <2> QED BY <2>1, <2>2 DEF hitWays
<1>4. old \in CacheLine
  BY <1>1, <1>2, <1>3 DEF TypeOK, CacheLine
<1>5. hitLine(r) \in CacheLine
  BY <1>2, <1>4, MergeFacts DEF CacheLine, hitLine
<1>6. /\ Use(s, w, hitLine(r))
      /\ request' = NoRequest
      /\ UNCHANGED <<busy, phase, cacheRequestBuffer>>
  BY DEF Hit, hitLine
<1>7. /\ mem' = mem /\ readExecute' = IdleRead
      /\ writeExecute' = IdleWrite /\ readOutput' = NoReply
  BY DmemRests DEF IInv, DrainedWhenReady
<1>8. /\ lines' \in [Sets -> [Ways -> CacheLine]]
      /\ \A t \in Sets, v \in Ways :
           lines'[t][v] = IF t = s /\ v = w THEN hitLine(r) ELSE lines[t][v]
      /\ plru' \in [Sets -> [root : {0, 1}, left : {0, 1}, right : {0, 1}]]
  BY <1>1, <1>2, <1>3, <1>5, <1>6, UseFacts
<1> QED BY <1>2, <1>3, <1>4, <1>5, <1>6, <1>7, <1>8

(* A hit: the line keeps its block, and a store makes it dirty.            *)
LEMMA HitStep ==
    ASSUME IInv, NEW r \in Program, phase = "READY", Hit(r),
           DMEMtick(request)
    PROVE  IInv'
<1> DEFINE s == setOf(r.block)
           w == hitWay(r.block)
           old == lines[s][w]
           new == hitLine(r)
<1>1. TypeOK /\ NoDuplicateLine /\ LinesPlaced
  BY DEF IInv
<1>2. /\ r \in Request /\ r.block \in Blocks /\ s \in Sets
      /\ blockOf(tagOf(r.block), s) = r.block
  BY HitFacts, SplitBlock
<1>3. w \in Ways /\ old.valid /\ old.tag = tagOf(r.block)
  BY HitFacts
<1>4. old \in CacheLine
  BY HitFacts
<1>5. /\ new \in CacheLine /\ new.valid /\ new.tag = old.tag
      /\ new.dirty \/ new = old
      /\ r.block >= MemBlocks => new.datas = old.datas
  BY <1>2, <1>3, <1>4, HitFacts, MergeFacts DEF CacheLine, hitLine
<1>6. /\ request' = NoRequest
      /\ UNCHANGED <<busy, phase, cacheRequestBuffer>>
  BY HitFacts
<1>7. /\ mem' = mem /\ readExecute' = IdleRead
      /\ writeExecute' = IdleWrite /\ readOutput' = NoReply
  BY HitFacts
<1>8. /\ lines' \in [Sets -> [Ways -> CacheLine]]
      /\ \A t \in Sets, v \in Ways :
           lines'[t][v] = IF t = s /\ v = w THEN new ELSE lines[t][v]
      /\ plru' \in [Sets -> [root : {0, 1}, left : {0, 1}, right : {0, 1}]]
  BY HitFacts
<1> HIDE DEF s, w, new
<1>9. \A t \in Sets, v \in Ways :
        /\ lines'[t][v].valid = lines[t][v].valid
        /\ lines'[t][v].tag = lines[t][v].tag
        /\ lines'[t][v].dirty \/ lines'[t][v] = lines[t][v]
  BY <1>3, <1>4, <1>5, <1>8 DEF CacheLine
<1>10. TypeOK'
  BY <1>1, <1>6, <1>7, <1>8, DefaultTypes DEF TypeOK, CacheLine
<1>11. NoDuplicateLine'
  BY <1>1, <1>9 DEF NoDuplicateLine
<1>12. CleanMatchesMemory'
  BY <1>7, <1>9 DEF IInv, CleanMatchesMemory
<1>13. DrainedWhenReady'
  BY <1>6, <1>7
     DEF IInv, DrainedWhenReady, IdleRead, IdleWrite, NoReply, NoRequest
<1>14. LinesPlaced'
  <2>1. ASSUME NEW t \in Sets, NEW v \in Ways
        PROVE  /\ lines'[t][v].dirty => lines'[t][v].valid
               /\ lines'[t][v].valid =>
                    /\ homeOf(t, v)' \in Blocks
                    /\ homeOf(t, v)' >= MemBlocks
                         => lines'[t][v].datas = ZeroLine
    <3>1. homeOf(t, v)' = homeOf(t, v)
      BY <1>9 DEF homeOf
    <3>2. CASE t = s /\ v = w
      <4>1. homeOf(t, v) = r.block
        BY <1>2, <1>3, <3>2 DEF homeOf
      <4> QED
        BY <1>1, <1>2, <1>3, <1>5, <1>8, <3>1, <3>2, <4>1 DEF LinesPlaced
    <3>3. CASE ~(t = s /\ v = w)
      BY <1>1, <1>8, <3>1, <3>3 DEF LinesPlaced
    <3> QED BY <3>2, <3>3
  <2> QED BY <1>1, <1>7, <2>1 DEF LinesPlaced
<1>15. MissUnderWay'
  BY <1>6 DEF MissUnderWay
<1> QED BY <1>10, <1>11, <1>12, <1>13, <1>14, <1>15 DEF IInv

(* The tag of a block address is a natural number.                         *)
LEMMA TagIsNat ==
    ASSUME TypeOK, NEW s \in Sets, NEW w \in Ways
    PROVE  lines[s][w].tag \in Nat
<1>1. lines[s][w].tag \in {tagOf(b) : b \in Blocks}
  BY DEF TypeOK
<1> QED BY <1>1, SplitBlock

(* Two valid lines never stand for the same block.                         *)
LEMMA HomeUnique ==
    ASSUME TypeOK, NoDuplicateLine, LinesPlaced,
           NEW s \in Sets, NEW t \in Sets, NEW w \in Ways, NEW v \in Ways,
           lines[s][w].valid, lines[t][v].valid, homeOf(s, w) = homeOf(t, v)
    PROVE  s = t /\ w = v
<1>1. lines[s][w].tag \in Nat /\ lines[t][v].tag \in Nat
  BY TagIsNat
<1>2. homeOf(s, w) \in Blocks
  BY DEF LinesPlaced
<1>3. s = t /\ lines[s][w].tag = lines[t][v].tag
  <2>1. /\ setOf(homeOf(s, w)) = s /\ tagOf(homeOf(s, w)) = lines[s][w].tag
    BY <1>1, <1>2, JoinBlock DEF homeOf
  <2>2. /\ setOf(homeOf(t, v)) = t /\ tagOf(homeOf(t, v)) = lines[t][v].tag
    BY <1>1, <1>2, JoinBlock DEF homeOf
  <2> QED BY <2>1, <2>2
<1> QED BY <1>3 DEF NoDuplicateLine

(* A valid line is found under its block, so a block that misses is not    *)
(* the block of any line.                                                  *)
LEMMA HomeHits ==
    ASSUME TypeOK, LinesPlaced, NEW s \in Sets, NEW w \in Ways,
           lines[s][w].valid
    PROVE  w \in hitWays(homeOf(s, w)) /\ setOf(homeOf(s, w)) = s
<1>1. lines[s][w].tag \in Nat
  BY TagIsNat
<1>2. homeOf(s, w) \in Blocks
  BY DEF LinesPlaced
<1>3. /\ setOf(homeOf(s, w)) = s /\ tagOf(homeOf(s, w)) = lines[s][w].tag
  BY <1>1, <1>2, JoinBlock DEF homeOf
<1> QED BY <1>3 DEF hitWays

(* A miss: the request is parked and the pulse asks for the line.          *)
LEMMA MissStep ==
    ASSUME IInv, NEW r \in Program, phase = "READY", Miss(r),
           DMEMtick(request)
    PROVE  IInv'
<1> DEFINE s == setOf(r.block)
<1>1. TypeOK /\ NoDuplicateLine /\ LinesPlaced
  BY DEF IInv
<1>2. r \in Request /\ r.block \in Blocks /\ s \in Sets
  BY MemLineAssumption, SplitBlock DEF Request
<1>3. PICK w \in Ways : w = AllocateLine(s)
  BY <1>1, <1>2, AllocateFacts
<1>4. /\ cacheRequestBuffer' = [valid |-> TRUE, request |-> r, targetWay |-> w]
      /\ request' = missRequest(r.block, w)
      /\ busy' = TRUE /\ phase' = "WAIT"
      /\ lines' = lines /\ plru' = plru
      /\ hitWays(r.block) = {}
  BY <1>3 DEF Miss
<1>5. /\ mem' = mem /\ readExecute' = IdleRead
      /\ writeExecute' = IdleWrite /\ readOutput' = NoReply
  BY DmemRests DEF IInv, DrainedWhenReady
<1>6. TypeOK'
  BY <1>1, <1>2, <1>3, <1>4, <1>5, MissRequestType, DefaultTypes DEF TypeOK
<1>7. NoDuplicateLine' /\ CleanMatchesMemory' /\ LinesPlaced'
  BY <1>4, <1>5
     DEF IInv, NoDuplicateLine, CleanMatchesMemory, LinesPlaced, homeOf
<1>8. DrainedWhenReady'
  BY <1>4 DEF DrainedWhenReady
<1>9. MissUnderWay'
  <2>1. hitWays(r.block)' = {}
    BY <1>4 DEF hitWays
  <2>2. Asked(r.block, w)'
    BY <1>4, <1>5
       DEF Asked, missRequest, homeOf, IdleRead, IdleWrite, NoReply
  <2> QED BY <1>4, <2>1, <2>2 DEF MissUnderWay
<1> QED BY <1>6, <1>7, <1>8, <1>9 DEF IInv

(* The memory takes the pulse and starts both ports together.              *)
LEMMA PortsStart ==
    ASSUME TypeOK, LinesPlaced, NEW b \in Blocks, NEW w \in Ways,
           Asked(b, w), DMEMtick(request), lines' = lines,
           request' = NoRequest
    PROVE  /\ Working(b, w)'
           /\ mem' = mem
           /\ readExecute' \in [busy : BOOLEAN, block : Blocks,
                                remainCycle : 0 .. Latency]
           /\ writeExecute' \in [busy : BOOLEAN, block : Blocks,
                                 lineData : Line, remainCycle : 0 .. Latency]
           /\ readOutput' = NoReply
<1> DEFINE old == lines[setOf(b)][w]
<1>1. Latency \in 0 .. Latency /\ Latency > 0
  BY DmemAssumption
<1>2. setOf(b) \in Sets
  BY SplitBlock
<1>3. old.dirty \in BOOLEAN
  BY <1>2 DEF TypeOK
<1>4. /\ readExecute' = [busy |-> TRUE, block |-> b, remainCycle |-> Latency]
      /\ readOutput' = NoReply /\ mem' = mem
  BY DEF Asked, DMEMtick, ReadTick, WriteTick
<1>5. writeExecute' = IF old.dirty
                        THEN [busy |-> TRUE, block |-> homeOf(setOf(b), w),
                              lineData |-> old.datas, remainCycle |-> Latency]
                        ELSE IdleWrite
  BY DEF Asked, DMEMtick, WriteTick
<1>6. Working(b, w)'
  BY <1>1, <1>3, <1>4, <1>5 DEF Working, NoRequest, NoReply, IdleWrite, homeOf
<1>7. writeExecute' \in [busy : BOOLEAN, block : Blocks, lineData : Line,
                        remainCycle : 0 .. Latency]
  <2>1. old.dirty => homeOf(setOf(b), w) \in Blocks /\ old.datas \in Line
    BY <1>2 DEF TypeOK, LinesPlaced
  <2> QED BY <1>1, <1>5, <2>1, DefaultTypes
<1> QED BY <1>1, <1>4, <1>6, <1>7

(* A cycle of the working ports: both count, or both finish.  The write    *)
(* touches the victim's block only, and not at all beyond MEM_SIZE, where  *)
(* the memory already equals the line.                                     *)
LEMMA PortsWork ==
    ASSUME TypeOK, LinesPlaced, NEW b \in Blocks, NEW w \in Ways,
           hitWays(b) = {},
           Working(b, w), DMEMtick(request), lines' = lines,
           request' = NoRequest
    PROVE  /\ Working(b, w)' \/ Answered(b, w)'
           /\ mem' \in [Blocks -> Line]
           /\ \A c \in Blocks :
                mem'[c] # mem[c] => /\ lines[setOf(b)][w].dirty
                                    /\ c = homeOf(setOf(b), w)
                                    /\ c < MemBlocks
           /\ readExecute' \in [busy : BOOLEAN, block : Blocks,
                                remainCycle : 0 .. Latency]
           /\ writeExecute' \in [busy : BOOLEAN, block : Blocks,
                                 lineData : Line, remainCycle : 0 .. Latency]
           /\ readOutput' \in [valid : BOOLEAN, lineData : Line]
<1> DEFINE s == setOf(b)
           old == lines[s][w]
           home == homeOf(s, w)
<1>1. s \in Sets
  BY SplitBlock
<1>2. old.dirty \in BOOLEAN /\ old.datas \in Line /\ mem[b] \in Line
  BY <1>1 DEF TypeOK
<1>3. old.dirty => /\ old.valid /\ home \in Blocks /\ home # b
                   /\ home >= MemBlocks => mem[home] = old.datas
  <2>1. SUFFICES ASSUME old.dirty
                 PROVE  /\ old.valid /\ home \in Blocks /\ home # b
                        /\ home >= MemBlocks => mem[home] = old.datas
    OBVIOUS
  <2>2. old.valid
    BY <1>1, <2>1 DEF LinesPlaced
  <2>3. home \in Blocks /\ (home >= MemBlocks => mem[home] = old.datas)
    BY <1>1, <2>2 DEF LinesPlaced
  <2>4. w \in hitWays(home)
    BY <1>1, <2>2, HomeHits
  <2> QED BY <2>2, <2>3, <2>4
<1>4. readExecute.remainCycle \in 1 .. Latency
  BY DmemAssumption DEF Working, TypeOK
<1>5. CASE readExecute.remainCycle = 1
  <2>1. /\ readExecute' = IdleRead
        /\ readOutput' = [valid |-> TRUE, lineData |-> mem[b]]
    BY <1>5 DEF Working, DMEMtick, ReadTick
  <2>2. CASE old.dirty
    <3>1. /\ writeExecute' = IdleWrite
          /\ mem' = IF home < MemBlocks
                      THEN [mem EXCEPT ![home] = old.datas] ELSE mem
      BY <1>2, <1>5, <2>2 DEF Working, DMEMtick, WriteTick, written
    <3>2. home \in Int /\ MemBlocks \in Int
      BY <1>3, <2>2, MemLineAssumption DEF Blocks
    <3>3. mem \in [Blocks -> Line]
      BY DEF TypeOK
    <3>4. mem' \in [Blocks -> Line] /\ mem'[b] = mem[b]
          /\ mem'[home] = old.datas
      BY <1>2, <1>3, <2>2, <3>1, <3>2, <3>3
    <3>5. Answered(b, w)'
      BY <2>1, <3>1, <3>4
         DEF Answered, NoRequest, IdleRead, IdleWrite, homeOf
    <3>6. \A c \in Blocks : mem'[c] # mem[c] => c = home /\ home < MemBlocks
      BY <3>1, <3>3
    <3> QED BY <1>2, <2>1, <2>2, <3>1, <3>4, <3>5, <3>6, DefaultTypes
  <2>3. CASE ~old.dirty
    <3>1. writeExecute' = IdleWrite /\ mem' = mem
      BY <2>3 DEF Working, DMEMtick, WriteTick
    <3>2. Answered(b, w)'
      BY <2>1, <2>3, <3>1
         DEF Answered, NoRequest, IdleRead, IdleWrite, homeOf
    <3> QED BY <1>2, <2>1, <3>1, <3>2, DefaultTypes DEF TypeOK
  <2> QED BY <1>2, <2>2, <2>3
<1>6. CASE readExecute.remainCycle # 1
  <2>1. /\ readExecute' = [readExecute EXCEPT !.remainCycle = @ - 1]
        /\ readOutput' = NoReply
    BY <1>6 DEF Working, DMEMtick, ReadTick
  <2>2. /\ readExecute.remainCycle - 1 \in 0 .. Latency
        /\ readExecute.remainCycle - 1 > 0
    BY <1>4, <1>6, DmemAssumption
  <2>3. CASE old.dirty
    <3>1. /\ writeExecute' = [writeExecute EXCEPT !.remainCycle = @ - 1]
          /\ mem' = mem
          /\ writeExecute.remainCycle = readExecute.remainCycle
      BY <1>2, <1>6, <2>3 DEF Working, DMEMtick, WriteTick
    <3>2. Working(b, w)'
      BY <2>1, <2>2, <3>1 DEF Working, NoRequest, NoReply, homeOf, TypeOK
    <3> QED BY <2>1, <2>2, <3>1, <3>2, DefaultTypes DEF TypeOK
  <2>4. CASE ~old.dirty
    <3>1. writeExecute' = IdleWrite /\ mem' = mem
      BY <2>4 DEF Working, DMEMtick, WriteTick
    <3>2. Working(b, w)'
      BY <1>2, <2>1, <2>2, <2>4, <3>1
         DEF Working, NoRequest, NoReply, IdleWrite, homeOf, TypeOK
    <3> QED BY <2>1, <2>2, <3>1, <3>2, DefaultTypes DEF TypeOK
  <2> QED BY <1>2, <2>3, <2>4
<1> QED BY <1>5, <1>6

(* What a cycle of waiting does: the miss advances by one stage or one     *)
(* count, and only the dirty victim's block may change in the memory.      *)
LEMMA WaitFacts ==
    ASSUME IInv, Wait, DMEMtick(request),
           NEW b, b = cacheRequestBuffer.request.block,
           NEW w, w = cacheRequestBuffer.targetWay
    PROVE  /\ b \in Blocks /\ w \in Ways /\ setOf(b) \in Sets
           /\ hitWays(b) = {}
           /\ request' = NoRequest
           /\ UNCHANGED <<lines, plru, busy, phase, cacheRequestBuffer>>
           /\ Working(b, w)' \/ Answered(b, w)'
           /\ mem' \in [Blocks -> Line]
           /\ \A d \in Blocks :
                mem'[d] # mem[d] => /\ lines[setOf(b)][w].dirty
                                    /\ d = homeOf(setOf(b), w)
                                    /\ d < MemBlocks
           /\ readExecute' \in [busy : BOOLEAN, block : Blocks,
                                remainCycle : 0 .. Latency]
           /\ writeExecute' \in [busy : BOOLEAN, block : Blocks,
                                 lineData : Line, remainCycle : 0 .. Latency]
           /\ readOutput' \in [valid : BOOLEAN, lineData : Line]
<1>1. /\ TypeOK /\ LinesPlaced
      /\ hitWays(b) = {}
      /\ Asked(b, w) \/ Working(b, w) \/ Answered(b, w)
  BY DEF IInv, MissUnderWay, Wait
<1>2. b \in Blocks /\ w \in Ways /\ setOf(b) \in Sets
  BY <1>1, SplitBlock DEF TypeOK, Request
<1>3. /\ request' = NoRequest
      /\ UNCHANGED <<lines, plru, busy, phase, cacheRequestBuffer>>
  BY DEF Wait, Hold
<1>4. ~Answered(b, w)
  BY DEF Wait, refilled, Answered
<1>5. CASE Asked(b, w)
  <2>1. mem' = mem
    BY <1>1, <1>2, <1>3, <1>5, PortsStart
  <2> QED
    BY <1>1, <1>2, <1>3, <1>5, <2>1, PortsStart, DefaultTypes DEF TypeOK
<1>6. CASE Working(b, w)
  BY <1>1, <1>2, <1>3, <1>6, PortsWork
<1> QED BY <1>1, <1>4, <1>5, <1>6

(* A cycle of waiting.  The write-back changes the memory under the dirty  *)
(* victim only, so no clean line loses its equality with the memory.       *)
LEMMA WaitStep ==
    ASSUME IInv, Wait, DMEMtick(request)
    PROVE  IInv'
<1>1. PICK b, w : b = cacheRequestBuffer.request.block
                  /\ w = cacheRequestBuffer.targetWay
  OBVIOUS
<1>2. b \in Blocks /\ w \in Ways /\ setOf(b) \in Sets /\ hitWays(b) = {}
  BY <1>1, WaitFacts
<1>3. /\ request' = NoRequest
      /\ UNCHANGED <<lines, plru, busy, phase, cacheRequestBuffer>>
  BY <1>1, WaitFacts
<1>4. /\ TypeOK /\ NoDuplicateLine /\ LinesPlaced
      /\ cacheRequestBuffer.request \in Program
  BY DEF IInv, MissUnderWay, Wait
<1>5. /\ Working(b, w)' \/ Answered(b, w)'
      /\ mem' \in [Blocks -> Line]
      /\ \A d \in Blocks :
           mem'[d] # mem[d] => /\ lines[setOf(b)][w].dirty
                               /\ d = homeOf(setOf(b), w)
                               /\ d < MemBlocks
      /\ readExecute' \in [busy : BOOLEAN, block : Blocks,
                           remainCycle : 0 .. Latency]
      /\ writeExecute' \in [busy : BOOLEAN, block : Blocks,
                            lineData : Line, remainCycle : 0 .. Latency]
      /\ readOutput' \in [valid : BOOLEAN, lineData : Line]
  BY <1>1, WaitFacts
<1>6. TypeOK'
  BY <1>3, <1>4, <1>5, DefaultTypes DEF TypeOK
<1>7. NoDuplicateLine'
  BY <1>3, <1>4 DEF NoDuplicateLine
<1>8. CleanMatchesMemory'
  <2> SUFFICES ASSUME NEW t \in Sets, NEW u \in Ways,
                      lines[t][u].valid, ~lines[t][u].dirty
               PROVE  lines[t][u].datas = mem'[homeOf(t, u)]
    BY <1>3 DEF CleanMatchesMemory, homeOf
  <2>1. homeOf(t, u) \in Blocks /\ lines[t][u].datas = mem[homeOf(t, u)]
    BY DEF IInv, CleanMatchesMemory, LinesPlaced, homeOf
  <2>2. mem'[homeOf(t, u)] = mem[homeOf(t, u)]
    <3> SUFFICES ASSUME mem'[homeOf(t, u)] # mem[homeOf(t, u)] PROVE FALSE
      OBVIOUS
    <3>1. /\ lines[setOf(b)][w].dirty
          /\ homeOf(t, u) = homeOf(setOf(b), w)
      BY <1>5, <2>1
    <3>2. lines[setOf(b)][w].valid
      BY <1>2, <1>4, <3>1 DEF LinesPlaced
    <3>3. t = setOf(b) /\ u = w
      BY <1>2, <1>4, <3>1, <3>2, HomeUnique
    <3> QED BY <3>1, <3>3
  <2> QED BY <2>1, <2>2
<1>9. DrainedWhenReady'
  BY <1>3 DEF IInv, DrainedWhenReady, Wait
<1>10. LinesPlaced'
  <2>1. \A d \in Blocks : d >= MemBlocks => mem'[d] = ZeroLine
    <3> TAKE d \in Blocks
    <3> HAVE d >= MemBlocks
    <3>1. ~(d < MemBlocks)
      BY MemLineAssumption DEF Blocks
    <3>2. mem'[d] = mem[d]
      BY <1>5, <3>1
    <3> QED BY <1>4, <3>2 DEF LinesPlaced
  <2> QED BY <1>3, <1>4, <2>1 DEF LinesPlaced, homeOf
<1>11. MissUnderWay'
  <2>1. hitWays(b)' = {}
    BY <1>2, <1>3 DEF hitWays
  <2> QED BY <1>1, <1>3, <1>4, <1>5, <2>1 DEF MissUnderWay
<1> QED BY <1>6, <1>7, <1>8, <1>9, <1>10, <1>11 DEF IInv

(* What the fill does: the reply, which is the memory's line, goes to the  *)
(* allocated way with the parked request applied, and the memory rests.    *)
fillLine(r) ==
    [valid |-> TRUE, dirty |-> r.op = "Store", tag |-> tagOf(r.block),
     datas |-> IF r.op = "Store" THEN merge(mem[r.block], r)
                                 ELSE mem[r.block]]

(* A refill replaces the line of one way, the victim of the LRU scan, and  *)
(* nothing else.                                                           *)
LEMMA FillFacts ==
    ASSUME IInv, Fill, DMEMtick(request),
           NEW r, r = cacheRequestBuffer.request,
           NEW w, w = cacheRequestBuffer.targetWay
    PROVE  /\ r \in Program /\ r \in Request /\ r.block \in Blocks
           /\ setOf(r.block) \in Sets /\ w \in Ways
           /\ hitWays(r.block) = {}
           /\ readOutput.lineData = mem[r.block]
           /\ LET old == lines[setOf(r.block)][w]
              IN  old.dirty => mem[homeOf(setOf(r.block), w)] = old.datas
           /\ fillLine(r) \in CacheLine
           /\ lines' \in [Sets -> [Ways -> CacheLine]]
           /\ \A t \in Sets, v \in Ways :
                lines'[t][v] = IF t = setOf(r.block) /\ v = w
                                 THEN fillLine(r) ELSE lines[t][v]
           /\ plru' \in [Sets -> [root : {0, 1}, left : {0, 1}, right : {0, 1}]]
           /\ mem' = mem /\ readExecute' = IdleRead
           /\ writeExecute' = IdleWrite /\ readOutput' = NoReply
<1>1. /\ TypeOK /\ r \in Program /\ hitWays(r.block) = {}
      /\ Asked(r.block, w) \/ Working(r.block, w) \/ Answered(r.block, w)
  BY DEF IInv, MissUnderWay, Fill
<1>2. /\ r \in Request /\ r.block \in Blocks /\ setOf(r.block) \in Sets
      /\ w \in Ways
  BY <1>1, MemLineAssumption, SplitBlock DEF TypeOK, Request
<1>3. Answered(r.block, w)
  BY <1>1 DEF Fill, refilled, Asked, Working
<1>4. fillLine(r) \in CacheLine
  <2>1. mem[r.block] \in Line
    BY <1>1, <1>2 DEF TypeOK
  <2>2. merge(mem[r.block], r) \in Line
    BY <1>2, <2>1, MergeFacts
  <2> QED BY <1>2, <2>1, <2>2 DEF fillLine, CacheLine
<1>5. Use(setOf(r.block), w, fillLine(r))
  BY <1>3 DEF Fill, fillLine, Answered
<1>6. /\ mem' = mem /\ readExecute' = IdleRead
      /\ writeExecute' = IdleWrite /\ readOutput' = NoReply
  BY <1>3, DmemRests DEF Answered
<1>7. /\ lines' \in [Sets -> [Ways -> CacheLine]]
      /\ \A t \in Sets, v \in Ways :
           lines'[t][v] = IF t = setOf(r.block) /\ v = w
                            THEN fillLine(r) ELSE lines[t][v]
      /\ plru' \in [Sets -> [root : {0, 1}, left : {0, 1}, right : {0, 1}]]
  BY <1>1, <1>2, <1>4, <1>5, UseFacts
<1> QED BY <1>1, <1>2, <1>3, <1>4, <1>6, <1>7 DEF Answered

(* The fill: its block was in no way before.                               *)
LEMMA FillStep ==
    ASSUME IInv, Fill, DMEMtick(request)
    PROVE  IInv'
<1>1. PICK r, w : r = cacheRequestBuffer.request
                  /\ w = cacheRequestBuffer.targetWay
  OBVIOUS
<1> DEFINE s == setOf(r.block)
           new == fillLine(r)
<1>2. TypeOK /\ NoDuplicateLine /\ LinesPlaced
  BY DEF IInv
<1>3. /\ r \in Request /\ r.block \in Blocks /\ s \in Sets /\ w \in Ways
      /\ hitWays(r.block) = {}
      /\ mem[r.block] \in Line
      /\ blockOf(tagOf(r.block), s) = r.block
  BY <1>1, <1>2, FillFacts, SplitBlock DEF TypeOK
<1>4. /\ request' = NoRequest /\ cacheRequestBuffer' = NoPark
      /\ busy' = FALSE /\ phase' = "READY"
  BY DEF Fill
<1>5. /\ mem' = mem /\ readExecute' = IdleRead
      /\ writeExecute' = IdleWrite /\ readOutput' = NoReply
  BY <1>1, FillFacts
<1>6. /\ lines' \in [Sets -> [Ways -> CacheLine]]
      /\ \A t \in Sets, v \in Ways :
           lines'[t][v] = IF t = s /\ v = w THEN new ELSE lines[t][v]
      /\ plru' \in [Sets -> [root : {0, 1}, left : {0, 1}, right : {0, 1}]]
  BY <1>1, FillFacts
<1>7. /\ new.valid /\ new.tag = tagOf(r.block)
      /\ ~new.dirty => new.datas = mem[r.block]
      /\ r.block >= MemBlocks => new.datas = mem[r.block]
  BY <1>3, MergeFacts DEF fillLine
<1> HIDE DEF s, new
<1>8. TypeOK'
  <2>1. 0 \in Ways
    BY DEF Ways
  <2> QED
    BY <1>4, <1>5, <1>6, <1>2, <2>1, DefaultTypes DEF TypeOK, CacheLine, NoPark
<1>9. NoDuplicateLine'
  <2>1. \A v \in Ways : ~(lines[s][v].valid /\ lines[s][v].tag = new.tag)
    BY <1>3, <1>7 DEF hitWays, s
  <2> QED BY <1>2, <1>3, <1>6, <2>1 DEF NoDuplicateLine
<1>10. CleanMatchesMemory'
  BY <1>3, <1>5, <1>6, <1>7 DEF IInv, CleanMatchesMemory
<1>11. DrainedWhenReady'
  BY <1>4, <1>5 DEF DrainedWhenReady, IdleRead, IdleWrite, NoReply, NoRequest
<1>12. LinesPlaced'
  <2>1. ASSUME NEW t \in Sets, NEW v \in Ways
        PROVE  /\ lines'[t][v].dirty => lines'[t][v].valid
               /\ lines'[t][v].valid =>
                    /\ homeOf(t, v)' \in Blocks
                    /\ homeOf(t, v)' >= MemBlocks
                         => lines'[t][v].datas = ZeroLine
    <3>1. CASE t = s /\ v = w
      <4>1. homeOf(t, v)' = r.block /\ lines'[t][v] = new
        BY <1>3, <1>6, <1>7, <3>1 DEF homeOf
      <4> QED BY <1>2, <1>3, <1>7, <4>1 DEF LinesPlaced
    <3>2. CASE ~(t = s /\ v = w)
      <4>1. homeOf(t, v)' = homeOf(t, v) /\ lines'[t][v] = lines[t][v]
        BY <1>6, <3>2 DEF homeOf
      <4> QED BY <1>2, <4>1 DEF LinesPlaced
    <3> QED BY <3>1, <3>2
  <2> QED BY <1>2, <1>5, <2>1 DEF LinesPlaced
<1>13. MissUnderWay'
  BY <1>4 DEF MissUnderWay
<1> QED BY <1>8, <1>9, <1>10, <1>11, <1>12, <1>13 DEF IInv

(* A cycle without a request.                                              *)
LEMMA RestStep ==
    ASSUME IInv, Rest, DMEMtick(request)
    PROVE  IInv'
<1>1. /\ mem' = mem /\ readExecute' = IdleRead
      /\ writeExecute' = IdleWrite /\ readOutput' = NoReply
  BY DmemRests DEF IInv, DrainedWhenReady, Rest
<1>2. /\ request' = NoRequest /\ phase = "READY"
      /\ UNCHANGED <<lines, plru, busy, phase, cacheRequestBuffer>>
  BY DEF Rest, Hold
<1>3. TypeOK'
  BY <1>1, <1>2, DefaultTypes DEF IInv, TypeOK
<1>4. NoDuplicateLine' /\ CleanMatchesMemory' /\ LinesPlaced'
  BY <1>1, <1>2
     DEF IInv, NoDuplicateLine, CleanMatchesMemory, LinesPlaced, homeOf
<1>5. DrainedWhenReady' /\ MissUnderWay'
  BY <1>1, <1>2
     DEF IInv, DrainedWhenReady, MissUnderWay, IdleRead, IdleWrite, NoReply,
         NoRequest
<1> QED BY <1>3, <1>4, <1>5 DEF IInv

(* A step that changes nothing keeps the invariant.                        *)
LEMMA StutterStep ==
    ASSUME IInv, UNCHANGED vars
    PROVE  IInv'
<1>1. UNCHANGED <<cacheVars, dmemVars>>
  BY DEF vars
<1>2. TypeOK'
  BY <1>1 DEF IInv, cacheVars, dmemVars, TypeOK
<1>3. NoDuplicateLine' /\ CleanMatchesMemory' /\ LinesPlaced'
  BY <1>1
     DEF IInv, cacheVars, dmemVars, NoDuplicateLine, CleanMatchesMemory,
         LinesPlaced, homeOf
<1>4. DrainedWhenReady'
  BY <1>1 DEF IInv, cacheVars, dmemVars, DrainedWhenReady
<1>5. MissUnderWay'
  BY <1>1
     DEF IInv, cacheVars, dmemVars, MissUnderWay, hitWays, Asked, Working,
         Answered, homeOf
<1> QED BY <1>2, <1>3, <1>4, <1>5 DEF IInv

(* No cycle breaks the invariant.                                          *)
LEMMA NextInv == IInv /\ [Next]_vars => IInv'
<1> SUFFICES ASSUME IInv, [Next]_vars PROVE IInv'
  OBVIOUS
<1>1. CASE DMEMtick(request) /\ \E r \in Program : Access(r)
  BY <1>1, HitStep, MissStep DEF Access
<1>2. CASE DMEMtick(request) /\ Fill
  BY <1>2, FillStep
<1>3. CASE DMEMtick(request) /\ Wait
  BY <1>3, WaitStep
<1>4. CASE DMEMtick(request) /\ Rest
  BY <1>4, RestStep
<1>5. CASE UNCHANGED vars
  BY <1>5, StutterStep
<1> QED BY <1>1, <1>2, <1>3, <1>4, <1>5 DEF Next

(* The invariant holds in every state, for every size of the cache and the *)
(* memory, every latency and every set of requests.                        *)
THEOREM CacheInvariant == Spec => []IInv
BY InitInv, NextInv, PTL DEF Spec

(* The cache's and the memory's state stays typed.                         *)
THEOREM CacheTyped == Spec => []TypeOK
BY CacheInvariant, PTL DEF IInv

(* No line is ever cached twice (the search loops of PrRd and PrWr).       *)
THEOREM NoLineTwice == Spec => []NoDuplicateLine
BY CacheInvariant, PTL DEF IInv

(* The debug assertion on a clean hit holds in every state, also while a   *)
(* write-back is under way (DCache::tick).                                 *)
THEOREM CleanIsMemory == Spec => []CleanMatchesMemory
BY CacheInvariant, PTL DEF IInv

(* When the cache accepts requests nothing of the last miss is left        *)
(* (DCache::tick asserts idle ports).                                      *)
THEOREM ReadyIsDrained == Spec => []DrainedWhenReady
BY CacheInvariant, PTL DEF IInv

-----------------------------------------------------------------------------
(* The memory the queues see, as a function of the lines and the array, so *)
(* that its facts apply before and after a cycle.                          *)

hits(ls, b) ==
    {w \in Ways : ls[setOf(b)][w].valid /\ ls[setOf(b)][w].tag = tagOf(b)}

seen(ls, m) ==
    [b \in Blocks |->
       IF hits(ls, b) # {}
         THEN ls[setOf(b)][CHOOSE w \in hits(ls, b) :
                             \A v \in hits(ls, b) : v <= w].datas
         ELSE m[b]]

(* The memory behind the cache, as DCache states it and as a function of   *)
(* its parts.                                                              *)
LEMMA VisibleIsSeen ==
    /\ visible = seen(lines, mem)
    /\ visible' = seen(lines', mem')
    /\ \A b : hitWays(b) = hits(lines, b)
BY DEF visible, seen, hits, hitWays, hitWay

(* What is seen of a block: the line of the way that holds it, else the    *)
(* memory.                                                                 *)
LEMMA SeenFacts ==
    ASSUME NEW ls, NEW m, NEW b \in Blocks
    PROVE  /\ hits(ls, b) = {} => seen(ls, m)[b] = m[b]
           /\ \A w \in Ways : hits(ls, b) = {w} =>
                seen(ls, m)[b] = ls[setOf(b)][w].datas
<1>1. hits(ls, b) = {} => seen(ls, m)[b] = m[b]
  BY DEF seen
<1>2. ASSUME NEW w \in Ways, hits(ls, b) = {w}
      PROVE  seen(ls, m)[b] = ls[setOf(b)][w].datas
  <2>1. w <= w
    BY DEF Ways
  <2>2. (CHOOSE v \in {w} : \A u \in {w} : u <= v) = w
    BY <2>1
  <2> QED BY <1>2, <2>2 DEF seen
<1> QED BY <1>1, <1>2

(* A block is in no way, or in one.                                        *)
LEMMA OneHit ==
    ASSUME TypeOK, NoDuplicateLine, NEW b \in Blocks
    PROVE  \/ hits(lines, b) = {}
           \/ \E w \in Ways : hits(lines, b) = {w}
<1>1. hits(lines, b) = hitWays(b)
  BY VisibleIsSeen
<1>2. ASSUME NEW w \in hitWays(b) PROVE w \in Ways /\ hitWays(b) = {w}
  BY HitWayUnique DEF hitWays
<1> QED BY <1>1, <1>2

(* A hit changes the line of its own block only, the way the abstract      *)
(* memory does.                                                            *)
LEMMA HitServes ==
    ASSUME IInv, NEW r \in Program, phase = "READY", Hit(r),
           DMEMtick(request)
    PROVE  /\ visible[r.block] = lines[setOf(r.block)][hitWay(r.block)].datas
           /\ visible' = IF r.op = "Load" THEN visible
                         ELSE [visible EXCEPT ![r.block] = merge(@, r)]
<1> DEFINE b == r.block
           w == hitWay(b)
           old == lines[setOf(b)][w]
<1>1. /\ b \in Blocks /\ setOf(b) \in Sets /\ w \in Ways
      /\ hits(lines, b) = {w} /\ old \in CacheLine
      /\ old.valid /\ old.tag = tagOf(b)
      /\ mem' = mem
  BY HitFacts, VisibleIsSeen
<1>2. /\ hitLine(r) \in CacheLine
      /\ hitLine(r).valid = old.valid /\ hitLine(r).tag = old.tag
      /\ hitLine(r).datas = IF r.op = "Load" THEN old.datas
                                             ELSE merge(old.datas, r)
  BY <1>1, HitFacts DEF hitLine, CacheLine
<1>3. \A t \in Sets, v \in Ways :
        lines'[t][v] = IF t = setOf(b) /\ v = w THEN hitLine(r)
                                                ELSE lines[t][v]
  BY HitFacts
<1>4. TypeOK /\ NoDuplicateLine
  BY DEF IInv
<1> HIDE DEF w
<1>5. \A c \in Blocks : hits(lines', c) = hits(lines, c)
  BY <1>2, <1>3, SplitBlock DEF hits
<1>6. /\ visible[b] = old.datas
      /\ visible'[b] = hitLine(r).datas
  BY <1>1, <1>3, <1>5, SeenFacts, VisibleIsSeen
<1>7. ASSUME NEW c \in Blocks, c # b
      PROVE  visible'[c] = visible[c]
  <2>1. CASE hits(lines, c) = {}
    BY <1>1, <1>5, <2>1, SeenFacts, VisibleIsSeen
  <2>2. ASSUME NEW v \in Ways, hits(lines, c) = {v}
        PROVE  visible'[c] = visible[c]
    <3>1. ~(setOf(c) = setOf(b) /\ v = w)
      <4> SUFFICES ASSUME setOf(c) = setOf(b), v = w PROVE FALSE
        OBVIOUS
      <4>1. tagOf(c) = tagOf(b)
        BY <1>1, <2>2 DEF hits
      <4> QED BY <1>1, <1>7, <4>1, SplitBlock
    <3>2. lines'[setOf(c)][v] = lines[setOf(c)][v]
      BY <1>3, <3>1, SplitBlock
    <3> QED BY <1>5, <2>2, <3>2, SeenFacts, VisibleIsSeen
  <2> QED BY <1>4, <2>1, <2>2, OneHit
<1>8. visible = [c \in Blocks |-> visible[c]]
      /\ visible' = [c \in Blocks |-> visible'[c]]
  BY DEF visible
<1>9. CASE r.op = "Load"
  <2>1. \A c \in Blocks : visible'[c] = visible[c]
    BY <1>2, <1>6, <1>7, <1>9
  <2>2. visible' = visible
    BY <1>8, <2>1
  <2> QED BY <1>6, <1>9, <2>2 DEF w
<1>10. CASE r.op # "Load"
  <2> DEFINE f == [visible EXCEPT ![b] = merge(@, r)]
  <2>1. \A c \in Blocks : visible'[c] = f[c]
    BY <1>2, <1>6, <1>7, <1>8, <1>10
  <2>2. f = [c \in Blocks |-> f[c]]
    BY <1>8
  <2>3. visible' = f
    <3> HIDE DEF f
    <3> QED BY <1>8, <2>1, <2>2
  <2> QED BY <1>6, <1>10, <2>3 DEF w
<1> QED BY <1>9, <1>10

(* The fill makes the memory's line visible with the request applied; the  *)
(* victim it removes leaves its bytes in the memory.                       *)
LEMMA FillServes ==
    ASSUME IInv, Fill, DMEMtick(request),
           NEW r, r = cacheRequestBuffer.request
    PROVE  /\ visible[r.block] = mem[r.block]
           /\ visible' = IF r.op = "Load" THEN visible
                         ELSE [visible EXCEPT ![r.block] = merge(@, r)]
<1>1. PICK w : w = cacheRequestBuffer.targetWay
  OBVIOUS
<1> DEFINE b == r.block
           s == setOf(b)
           old == lines[s][w]
           new == fillLine(r)
<1>2. /\ b \in Blocks /\ s \in Sets /\ w \in Ways
      /\ hits(lines, b) = {}
      /\ mem' = mem
      /\ r.op \in {"Load", "Store"}
      /\ old.dirty => mem[homeOf(s, w)] = old.datas
  BY <1>1, FillFacts, VisibleIsSeen DEF Request
<1>3. \A t \in Sets, v \in Ways :
        lines'[t][v] = IF t = s /\ v = w THEN new ELSE lines[t][v]
  BY <1>1, FillFacts
<1>4. TypeOK /\ NoDuplicateLine /\ CleanMatchesMemory
  BY DEF IInv
<1>5. /\ new.valid /\ new.tag = tagOf(b)
      /\ new.datas = IF r.op = "Load" THEN mem[b] ELSE merge(mem[b], r)
  BY <1>2 DEF fillLine
<1> HIDE DEF new
<1>6. /\ visible[b] = mem[b]
      /\ visible'[b] = new.datas
  <2>1. hits(lines', b) = {w}
    BY <1>2, <1>3, <1>5 DEF hits
  <2> QED BY <1>2, <1>3, <2>1, SeenFacts, VisibleIsSeen
<1>7. ASSUME NEW c \in Blocks, c # b
      PROVE  visible'[c] = visible[c]
  <2>1. setOf(c) \in Sets /\ (setOf(c) = s => tagOf(c) # tagOf(b))
    BY <1>2, <1>7, SplitBlock
  <2>2. hits(lines', c) = IF setOf(c) = s THEN hits(lines, c) \ {w}
                                          ELSE hits(lines, c)
    BY <1>2, <1>3, <1>5, <2>1 DEF hits
  <2>3. CASE hits(lines, c) = {}
    <3>1. hits(lines', c) = {}
      BY <2>2, <2>3
    <3> QED BY <1>2, <2>3, <3>1, SeenFacts, VisibleIsSeen
  <2>4. ASSUME NEW v \in Ways, hits(lines, c) = {v}
        PROVE  visible'[c] = visible[c]
    <3>1. CASE setOf(c) = s /\ v = w
      <4>1. hits(lines', c) = {}
        BY <2>2, <2>4, <3>1
      <4>2. visible'[c] = mem[c] /\ visible[c] = old.datas
        BY <1>2, <2>4, <3>1, <4>1, SeenFacts, VisibleIsSeen
      <4>3. old.valid /\ homeOf(s, w) = c
        BY <2>4, <3>1, SplitBlock DEF hits, homeOf
      <4>4. mem[c] = old.datas
        BY <1>2, <1>4, <4>3 DEF CleanMatchesMemory, homeOf
      <4> QED BY <4>2, <4>4
    <3>2. CASE ~(setOf(c) = s /\ v = w)
      <4>1. hits(lines', c) = {v} /\ lines'[setOf(c)][v] = lines[setOf(c)][v]
        BY <1>3, <2>1, <2>2, <2>4, <3>2
      <4> QED BY <2>4, <4>1, SeenFacts, VisibleIsSeen
    <3> QED BY <3>1, <3>2
  <2> QED BY <1>4, <2>3, <2>4, OneHit
<1>8. visible = [c \in Blocks |-> visible[c]]
      /\ visible' = [c \in Blocks |-> visible'[c]]
  BY DEF visible
<1>9. CASE r.op = "Load"
  <2>1. \A c \in Blocks : visible'[c] = visible[c]
    BY <1>5, <1>6, <1>7, <1>9
  <2>2. visible' = visible
    BY <1>8, <2>1
  <2> QED BY <1>6, <1>9, <2>2
<1>10. CASE r.op # "Load"
  <2> DEFINE f == [visible EXCEPT ![b] = merge(@, r)]
  <2>1. \A c \in Blocks : visible'[c] = f[c]
    BY <1>5, <1>6, <1>7, <1>8, <1>10
  <2>2. f = [c \in Blocks |-> f[c]]
    BY <1>8
  <2>3. visible' = f
    <3> HIDE DEF f
    <3> QED BY <1>8, <2>1, <2>2
  <2> QED BY <1>6, <1>10, <2>3
<1> QED BY <1>9, <1>10

(* While the cache waits, the write-back is invisible: the block it        *)
(* changes in the memory is still cached.                                  *)
LEMMA WaitIsSilent ==
    ASSUME IInv, Wait, DMEMtick(request)
    PROVE  visible' = visible
<1>1. PICK b, w : b = cacheRequestBuffer.request.block
                  /\ w = cacheRequestBuffer.targetWay
  OBVIOUS
<1>2. b \in Blocks /\ w \in Ways /\ setOf(b) \in Sets /\ lines' = lines
  BY <1>1, WaitFacts
<1>3. \A d \in Blocks :
        mem'[d] # mem[d] => /\ lines[setOf(b)][w].dirty
                            /\ d = homeOf(setOf(b), w)
  BY <1>1, WaitFacts
<1>4. TypeOK /\ NoDuplicateLine /\ LinesPlaced
  BY DEF IInv
<1>5. ASSUME NEW c \in Blocks PROVE visible'[c] = visible[c]
  <2>1. CASE hits(lines, c) = {}
    <3>1. mem'[c] = mem[c]
      <4> SUFFICES ASSUME mem'[c] # mem[c] PROVE FALSE
        OBVIOUS
      <4>1. lines[setOf(b)][w].dirty /\ c = homeOf(setOf(b), w)
        BY <1>3
      <4>2. lines[setOf(b)][w].valid
        BY <1>2, <1>4, <4>1 DEF LinesPlaced
      <4>3. w \in hitWays(c)
        BY <1>2, <1>4, <4>1, <4>2, HomeHits
      <4> QED BY <2>1, <4>3, VisibleIsSeen
    <3> QED BY <1>2, <2>1, <3>1, SeenFacts, VisibleIsSeen
  <2>2. ASSUME NEW v \in Ways, hits(lines, c) = {v}
        PROVE  visible'[c] = visible[c]
    BY <1>2, <2>2, SeenFacts, VisibleIsSeen
  <2> QED BY <1>4, <2>1, <2>2, OneHit
<1> QED BY <1>5 DEF visible

-----------------------------------------------------------------------------
(* The refinement.                                                         *)

(* Every cycle of the cache is a cycle of the memory without a cache: a    *)
(* hit and a fill serve, a miss accepts, and the others are quiet.         *)
LEMMA StepRefines ==
    IInv /\ [Next]_vars => [Memory!Next]_(Memory!memoryVars)
<1> SUFFICES ASSUME IInv, [Next]_vars
             PROVE  [Memory!Next]_(Memory!memoryVars)
  OBVIOUS
<1> USE DEF Memory!Next, Memory!memoryVars
<1>1. ASSUME NEW r \in Program, DMEMtick(request), Access(r), Hit(r)
      PROVE  Memory!Serve(r)
  <2>1. phase = "READY" /\ ~busy /\ busy' = busy
    BY <1>1 DEF Access, Hit
  <2>2. /\ visible[r.block] = lines[setOf(r.block)][hitWay(r.block)].datas
        /\ visible' = IF r.op = "Load" THEN visible
                      ELSE [visible EXCEPT ![r.block] = merge(@, r)]
    BY <1>1, <2>1, HitServes
  <2>3. loadBuffer' = IF r.op = "Load"
                        THEN LoadResponse(r, visible[r.block]) ELSE NoResponse
    BY <1>1, <2>2 DEF Hit
  <2> QED
    BY <2>1, <2>2, <2>3
       DEF Memory!Serve, Memory!merge, Memory!LoadResponse, Memory!extract,
           Memory!NoResponse, Memory!Offsets, merge, LoadResponse, extract,
           NoResponse, Offsets
<1>2. ASSUME NEW r \in Program, DMEMtick(request), Access(r), Miss(r)
      PROVE  Memory!Accept(r)
  <2>1. /\ ~busy /\ busy' /\ cacheRequestBuffer'.request = r
        /\ loadBuffer' = NoResponse /\ lines' = lines
    BY <1>2 DEF Access, Miss
  <2>2. mem' = mem
    BY <1>2, DmemRests DEF IInv, DrainedWhenReady, Access
  <2>3. visible' = visible
    BY <2>1, <2>2, VisibleIsSeen
  <2> QED
    BY <2>1, <2>3 DEF Memory!Accept, Memory!NoResponse, NoResponse
<1>3. ASSUME DMEMtick(request), Fill
      PROVE  \E r \in Program : Memory!Serve(r)
  <2>1. PICK r : r = cacheRequestBuffer.request
    OBVIOUS
  <2>2. /\ r \in Program /\ r.op \in {"Load", "Store"}
        /\ readOutput.lineData = mem[r.block]
    BY <1>3, <2>1, FillFacts DEF Request
  <2>3. /\ visible[r.block] = mem[r.block]
        /\ visible' = IF r.op = "Load" THEN visible
                      ELSE [visible EXCEPT ![r.block] = merge(@, r)]
    BY <1>3, <2>1, FillServes
  <2>4. /\ loadBuffer' = IF r.op = "Load"
                           THEN LoadResponse(r, visible[r.block])
                           ELSE NoResponse
        /\ busy' = FALSE
    BY <1>3, <2>1, <2>2, <2>3 DEF Fill
  <2>5. (IF busy THEN {cacheRequestBuffer.request} ELSE {}) = {r}
    BY <1>3, <2>1 DEF Fill, IInv, DrainedWhenReady
  <2>6. Memory!Serve(r)
    BY <2>3, <2>4, <2>5
       DEF Memory!Serve, Memory!merge, Memory!LoadResponse, Memory!extract,
           Memory!NoResponse, Memory!Offsets, merge, LoadResponse, extract,
           NoResponse, Offsets
  <2> QED BY <2>2, <2>6
<1>4. ASSUME DMEMtick(request), Wait \/ Rest
      PROVE  Memory!Quiet
  <2>1. /\ loadBuffer' = NoResponse /\ lines' = lines
        /\ busy' = busy /\ cacheRequestBuffer' = cacheRequestBuffer
    BY <1>4 DEF Wait, Rest, Hold
  <2>2. visible' = visible
    <3>1. CASE Wait
      BY <1>4, <3>1, WaitIsSilent
    <3>2. CASE Rest
      <4>1. mem' = mem
        BY <1>4, <3>2, DmemRests DEF IInv, DrainedWhenReady, Rest
      <4> QED BY <2>1, <4>1, VisibleIsSeen
    <3> QED BY <1>4, <3>1, <3>2
  <2> QED BY <2>1, <2>2 DEF Memory!Quiet, Memory!NoResponse, NoResponse
<1>5. CASE UNCHANGED vars
  <2>1. UNCHANGED <<lines, mem, busy, cacheRequestBuffer, loadBuffer>>
    BY <1>5 DEF vars, cacheVars, dmemVars
  <2>2. visible' = visible
    BY <2>1, VisibleIsSeen
  <2> QED BY <2>1, <2>2
<1> QED BY <1>1, <1>2, <1>3, <1>4, <1>5 DEF Next, Access

(* The initial cache maps to the initial atomic memory.                    *)
LEMMA InitRefines == Init => Memory!Init
<1> SUFFICES ASSUME Init PROVE Memory!Init
  OBVIOUS
<1>1. IInv
  BY InitInv
<1>2. \A b \in Blocks : hits(lines, b) = {}
  BY SplitBlock DEF hits, Init, CacheInit, EmptyLine
<1>3. \A b \in Blocks : visible[b] = mem[b]
  BY <1>2, SeenFacts, VisibleIsSeen
<1>4. visible = mem
  <2>1. visible = [b \in Blocks |-> visible[b]]
    BY DEF visible
  <2>2. mem = [b \in Blocks |-> mem[b]]
    BY <1>1 DEF IInv, TypeOK
  <2> QED BY <1>3, <2>1, <2>2
<1>5. /\ mem \in [Blocks -> Line]
      /\ \A b \in Blocks : b >= MemBlocks => mem[b] = ZeroLine
      /\ ~busy /\ loadBuffer = NoResponse
  BY <1>1 DEF IInv, TypeOK, LinesPlaced, Init, CacheInit
<1> QED
  BY <1>4, <1>5
     DEF Memory!Init, Memory!Blocks, Memory!Line, Memory!Offsets,
         Memory!ZeroLine, Memory!NoResponse, Blocks, Line, Offsets, ZeroLine,
         NoResponse

(* The cache and the memory behind it implement the memory without a       *)
(* cache: every load returns the bytes last stored, whatever was evicted,  *)
(* written back and refilled in between (DCache::tick with DMEM::tick).    *)
THEOREM CacheRefinesMemory == Spec => ImplementsMemory
<1>1. Init => Memory!Init
  BY InitRefines
<1>2. IInv /\ [Next]_vars => [Memory!Next]_(Memory!memoryVars)
  BY StepRefines
<1> QED
  BY <1>1, <1>2, CacheInvariant, PTL DEF Spec, ImplementsMemory, Memory!Spec

-----------------------------------------------------------------------------
(* Replacement.                                                            *)

(* The tree bits never point to the way just used (tree-PLRU update).      *)
LEMMA TouchedIsNotVictim ==
    ASSUME NEW bits, NEW w \in Ways
    PROVE  victim(touched(bits, w)) # w
BY DEF victim, touched, Ways

(* The line a miss has brought in is not the next victim of its set        *)
(* (AllocateLine after the fill).                                          *)
THEOREM FillIsNotNextVictim == Spec => FilledLineStays
<1> DEFINE Stays ==
      \A s \in Sets :
        busy /\ ~busy' /\ s = setOf(cacheRequestBuffer.request.block) =>
            AllocateLine(s)' # cacheRequestBuffer.targetWay
<1> DEFINE Free ==
      \A s \in Sets : (\E w \in Ways : ~lines[s][w].valid)
                        => ~lines[s][AllocateLine(s)].valid
<1>1. TypeOK' => Free'
  <2>1. TypeOK => Free
    BY AllocateFacts
  <2> HIDE DEF Free
  <2> QED BY <2>1, PTL
<1>2. IInv /\ IInv' /\ [Next]_vars => [Stays]_vars
  <2> SUFFICES ASSUME IInv, IInv', Next, busy, ~busy',
                      NEW s \in Sets,
                      s = setOf(cacheRequestBuffer.request.block)
               PROVE  AllocateLine(s)' # cacheRequestBuffer.targetWay
    OBVIOUS
  <2>1. Fill /\ DMEMtick(request)
    BY DEF Next, Access, Wait, Rest, Hold
  <2>2. PICK r, w : r = cacheRequestBuffer.request
                    /\ w = cacheRequestBuffer.targetWay
    OBVIOUS
  <2>3. /\ w \in Ways /\ s = setOf(r.block)
        /\ lines'[s][w] = fillLine(r)
    BY <2>1, <2>2, FillFacts
  <2>4. lines'[s][w].valid
    BY <2>3 DEF fillLine
  <2>5. plru'[s] = touched(plru[s], w)
    BY <2>1, <2>2, <2>3 DEF Fill, Use, IInv, TypeOK
  <2>6. CASE \E v \in Ways : ~lines'[s][v].valid
    <3>1. ~lines'[s][AllocateLine(s)'].valid
      BY <1>1, <2>6 DEF IInv
    <3> QED BY <2>2, <2>4, <3>1
  <2>7. CASE \A v \in Ways : lines'[s][v].valid
    <3>1. AllocateLine(s)' = victim(plru'[s])
      BY <2>7 DEF AllocateLine
    <3> QED BY <2>2, <2>3, <2>5, <3>1, TouchedIsNotVictim
  <2> QED BY <2>6, <2>7
<1> QED
  BY <1>2, CacheInvariant, PTL DEF Spec, FilledLineStays

=============================================================================
