# Formal models of the RV32IM out-of-order simulator

TLA+ models, TLC runs and TLAPS proofs for the simulator in `src/`, a
cycle-accurate model of a speculative RV32IM core in C++.  `PROJECT.json` lists
the components, the runs, the source lines behind every definition, the
hazards, the findings and the theorems.

## 1. The system

`CPU::run` (`src/src/CPU/CPU.cpp`) repeats one clock cycle: `CPU::comb` copies
all modules into a snapshot and evaluates the combinational buses on it, then
twenty modules `tick`.  A tick reads snapshots only and writes only its own live
state, so the order of the ticks does not matter and **one cycle is the
conjunction of all ticks**.  That is the step of every composed model here.
There are no threads; the hard part is that in one cycle an instruction may be
issued, others complete, one commit and a squash be accepted, and each module
must draw the same conclusion from the same snapshot.

| Component | State | Operations | What makes it correct |
|---|---|---|---|
| ROB | ring of 16 entries, `head`, `next_tag` (packed tags), halt latch | push, set ready, flush, commit | slots between head and tail hold the live instructions; only the ready head commits; a squash drops exactly the younger ones |
| RAT | map of 32 registers, 32 checkpoints | rename, checkpoint, restore | equals the replay of the ROB, also after a restore |
| PRF | 48 values and ready bits, free-list ring, head checkpoints | allocate, write, recycle, restore | no register lost or owned twice; ready means produced |
| IssueArbiter | none | builds the issue packet | issues only with room everywhere |
| RS, DispatchArbiter, ALU, BRU, AGU, MUL, DIV, result buses | 23 stations, unit buffers | dispatch, execute, broadcast, squash | sources still valid when read; no result reaches a reused tag |
| FlushArbiter | up to 4 squash requests | receive, clear, choose the oldest | names a live instruction when served; never overflows |
| LQ, SQ, MemArbiter | 8 + 8 ring slots | address, value, forward, violate, drain | a load sees the youngest older store |
| DCache, DMEM | 1024 sets of 4 lines; line array with two ports | hit, miss, refill, write back | behaves as memory; every miss ends |
| FetchUnit, ICache, IMEM, FQ, Decoder, IQ | PC, halt latch, request and instruction queues | fetch, refill, decode, squash | the instruction stream follows the predicted path, nothing lost or doubled |
| BPU | predictor tables, history, return stack with journal, checkpoint ids | predict, train, checkpoint, rewind | ids are not reused while live; speculative state is rewound |
| CPU | statistics, finish condition | comb, run | ends only when everything has drained |

Components talk by value: results on four common data buses (ALU, MUL, DIV, LQ),
the issue packet, the accepted squash (`squashDetect`, seen by everyone in the
same cycle), the memory request and response, and the line buses of the caches.
A squash keeps its target instruction and drops the younger ones.

## 2. Modules

| Module | Models | Built on |
|---|---|---|
| `EpochRing` | packed positions {epoch, index}: successor, distance, age (`common.hpp`, `ROB::isOlder`) | |
| `TagWalk` | a walk of successor steps, to check the algebra against counting | `EpochRing` |
| `ROB`, `RAT`, `PRF`, `IssueArbiter`, `FlushArbiter` | the module of that name | each extends the one before, from `EpochRing` on |
| `Backend` | their composition, with stations, units and front end as far as the back end depends on them | `FlushArbiter` |
| `MCBackend` | the instructions of the back-end runs | `Backend` |
| `MemLine` | memory lines, requests, responses | |
| `AtomicMemory` | what cache and memory promise together: a memory without a cache | `MemLine` |
| `DMEM` | the two-port line memory | `MemLine` |
| `DCache` | the cache composed with `DMEM`; instantiates `AtomicMemory` | `DMEM` |
| `MCDCache` | the requests and the image of the cache run | `DCache` |
| `SQ`, `LQ` | store queue and load queue | `ROB`; `LQ` extends `SQ` |
| `LSQ` | the two queues with AGU, memory arbiter, replay of loads, stations and ROB, on an `AtomicMemory`; instantiates `InOrder` | `LQ` |
| `InOrder` | what the commits promise to the program: its execution in order | |
| `MCLSQ` | the programs of the load/store runs | `LSQ` |
| `BPU` | the predictor's speculative state | |
| `ICache` | instruction cache and instruction memory | |
| `FrontEnd` | fetch unit, predictor, cache, fetch queue and decode queue, with an abstract back end | `BPU`, `ICache` |
| `MCFrontEnd` | the codes of the front-end runs | `FrontEnd` |
| `CarrySave` | the 3:2 compression of numbers, bit by bit | |
| `DIV`, `MUL` | the divider and the multiplier, alone with the buses they use | `EpochRing`, `CarrySave` |
| `MCDIV`, `MCMUL` | the operands of their runs | `DIV`, `MUL` |
| `EpochRingLemmas` | lemmas on packed positions | `EpochRing` |
| `TagWalkProofs`, `DCacheProofs`, `MULProofs`, `DIVProofs` | proofs about the module of that name | that module, `EpochRingLemmas` |
| `BackendProofs` | proofs about the window, then about renaming, free list and checkpoints | `Backend`, `EpochRingLemmas` |
| `LSQProofs` | proofs about the queues and memory, then about the values of the loads, then that the commits execute the program | `LSQ`, `EpochRingLemmas` |
| `FrontEndProofs` | proofs about the instruction stream, refills, checkpoints and history, then about the return stack and its journal | `FrontEnd` |

### Back end

The variables are the modules' fields under their own names (`ROBqueue`, `head`,
`next_tag`, `RAT_PRF`, `ratCkpt`, `freeList`, `headSeq`, `tailSeq`,
`PRFHeadCkpt`, `requests`).  `Cycle` is one clock cycle: every module's tick as
one conjunct, all reading the unprimed state.  `Issue` and `Idle` are the cycles
with and without a valid issue packet, `Done` is the end of `CPU::run`.
`Reports` chooses which instructions finish: from its issue an instruction is in
`window` (station, unit and, for a load, the queue) until some cycle reports it
on its bus.  How long that takes is open, which covers every latency and every
order the units can produce, and more.  Mispredictions and memory-order
violations are chosen by `\E`.

Abstracted: register values (only the ready bit), program counters, the order of
requests in the flush arbiter (not observable), station and queue capacities
(issuing may always be delayed), the front end's queues (checkpoint ids are
given out at issue; they are given out at fetch in the same order, and a squash
empties everything in between).  `commitRAT` is a history variable: the map at
the last commit.  `HaltFindsRoom` is an assumption on the program that two runs
need because of the first finding below.

### Data cache

`lines`, `plru`, `busy`, `phase`, `cacheRequestBuffer`, `request`, `loadBuffer`
are the cache's fields, `mem`, `readExecute`, `writeExecute`, `readOutput` the
memory's.  A step is `DMEMtick` and one of: `Access` (hit or miss), `Fill`,
`Wait`, `Rest`.  An address is a line number and an offset, a value is a function
from byte positions to bytes, so widths, partial stores and the merge into a
refilled line are kept.  Sign extension, a function of the loaded bytes, is left
out.  `id` stands for the identity (`memIndex`, `robTag`) a response must carry.

### Load and store queues

`SQqueue`, `LQqueue` and their heads and tails are the queues' fields; `agu` is
the AGU's buffer, `addrRS`, `valRS`, `brRS` the stations of the memory
instructions and branches, `requests` the flush arbiter's queue.  `Step` is one
clock cycle, with or without an issued instruction: it chooses which address is
dispatched (at most one), which store values and which branch become ready, and
whether the cache hits; everything else follows from the snapshot as in the
code.  The stages of `LQ::tick` and `SQ::tick` are operators on the queue,
composed in the order of the code, because that order decides which of two
writes to an entry wins.  `lqSlotOf` and `sqSlotOf` are the `memIndex` of an
instruction: the slot it was given at issue, which is the one just before the
tail it recorded.  The data cache is `AtomicMemory`, the specification
that `DCache` is proved to implement, with `loadResp`'s squash gate in front.

A program is a sequence of loads, stores, branches and a halt marker; a branch
names where it is predicted to go and where it goes.  A store's value is its own
position, so a value tells which store wrote it.  Behind a halt marker the front
end delivers nothing (`following`; in `FrontEnd` that is the halt latch).  `refMem` (memory of the
committed instructions), `replayed`, `exposed`, `dropped` are history
variables.  Abstracted: access widths and sign extension (an address is
the whole datum, which is what the code's comparisons take for granted), register
operands (readiness is chosen), station capacities, other instructions.

`InOrder` is the specification of all this: a machine with a program counter and
a memory that executes one instruction per step.  Its counter is the program
counter of the oldest instruction in the ROB, or of the next one to issue when
the ROB is empty.  Its memory is what the committed stores have written, looked
for in the store queue, then in the cache's request, then in the memory; of a
*finished* run it is the memory alone, so that a store left behind by the finish
condition of `CPU::run` would be a wrong step.  A load that is replayed commits
twice; the first time is a stuttering step.

### Front end

`BPU` keeps the predictor's speculative state under the code's names (`GHR`, `fh`
for the folded views, `RAS`, `RAS_top`, `alignQueue`, `alignTail`, `bpCkpt`,
`nextCkptId`); `ICache` the fetches and line requests.  `FrontEnd`'s `Cycle` is
the conjunction of the ticks of BPU, ICache, IMEM, FetchUnit, fetch queue and
decode queue.  `predict` is what `BPU::predict` and `FetchDecision::build` can
answer for an instruction, with the contents of the tables left open: a hit of a
branch or a jal names its target (the BTB compares whole addresses), a hit of any
other jalr any address (its last target, or what the slot held for another address when
the pre-decoder claimed it, `BPU.cpp:640-652`), a return the top of the stack or, when it
was trained as a plain jump, some return address; the filter `condSeen` has no tags, so
that an instruction that shares the entry of a branch shifts a bit too (`mayBeSeen`).
One case is left out: the word of another address, which a dropped line can
bring (finding 4), does not train the tables.

The back end, whose detail is in `Backend` and `LSQ`, is reduced to what the front
end sees: `rob` takes the head of the decode queue when it has room
(`mayIssue`; the halt marker that is issued without room is finding 1 and not
repeated here), commits in order, and squashes at a
control transfer it holds, once, or at a load, as often as stores find it violated.
An address is a word number and a word is
named by the address it was read from, so a wrong word is visible.  Ring counters
of 8 bits (`RAS_top`, `alignTail`) wrap at `CounterSpan`.  `alignHead` is never
moved by the code and left out.  The fields `ghr`, `stack` of an entry and the
variables `lost`, `spoiled` are history.

### Divider and multiplier

`div` is the divider's register set, `partialRes`, `scRes`, `outputBuffer` are
the multiplier's pipeline; a step is `DIV::tick` or `MUL::tick` with the dispatch,
the result bus and the squash of the same cycle.  The word width is a constant:
`2^LogW` for the divider, whose shifts and slice positions are all relative to it
(`docs/backend.md` 4.4.2), an even `W` for the multiplier.  The carry-save
arithmetic is modelled bit by bit (`CarrySave`), because the digit choice depends
on how a remainder is split between `regS` and `regC`.  Data registers that no stage owns
are 0; the sign flags, tag and operation are kept, as a later division meets them.
The environment is what `Backend` establishes: waiting tags are live and distinct
(`WindowConsistent`), and a squash target is never a multiplication or division.
`MulCap >= 2` is all that `MUL` asks of the output buffer.
`job` and `jobs` are history variables: what is owed a result.  Bus gating lets a
result pass only if it is strictly older than the target.

## 3. Runs

| Run | Bounds | Shows |
|---|---|---|
| `tag_ring` | the real free-list ring, 48 slots in a 6-bit field | distance and age comparison agree with counting on every pair of codes |
| `backend_window` | ROB of 3 entries in a field of 4 (with holes), 2 registers, 3 checkpoints; arithmetic, jumps, branches | window, rename map, checkpoints, free list, squash requests and sources stay consistent |
| `backend_kinds` | ROB of 2; every kind of instruction; fairness | ready bits, departures, and progress of the head |
| `dcache` | 2 sets, 5 lines for the 4 ways of one set, one of them beyond the end of memory; 2-byte lines; latency 2 | refinement of `AtomicMemory`, clean lines, drained ports, progress |
| `divider` | 8-bit words: every `DIVU` and `REM`, boundary values of `DIV` and `REMU`; after the first division twelve more under every tag; ROB of 2 | exact results, bounded remainder, latency, occupancy under squashes |
| `multiplier` | 4-bit words: every product under one tag with fixed ones under three neighbours; ROB of 3 in a field of 4; 2 output slots | exact products, exact pipeline contents under squashes, at most one slot in use |
| `lsq` | 40 programs of 2 to 4 accesses to 2 addresses, with mispredicted branches and halt markers in the middle; ROB, LQ and SQ rings of 3 slots (two entries in the queues) | refinement of `InOrder`, queues agree with the ROB, memory in program order, loads right up to two races, the run ends |
| `frontend` | 7 codes; 2 cache blocks of 2 words, 3 fetches and 3 line requests, latency 2; fetch queue of 3, decode queue of 1, ROB of 2; return stack and journal of 2, counters modulo 8, 9 checkpoints; a `condSeen` of 4 entries; at most 2 squashes and 10 fetches | stream, refills, checkpoints, folded history, return stack, delivery |
| `lsq_resolving` | one store, one load | violation, finding 3 |
| `frontend_refill` | straight-line code, no squash | violation, finding 4 |
| `halt_overrun` | ROB of 2 | violation, finding 1 |
| `invalid_checkpoint` | ROB of 4 | violation, finding 2 |

*Why the bounds are enough.*  A ROB of three entries allows a squash target with
an older and a younger neighbour, commit and squash in one cycle, and two pending
squashes; tags, sequence numbers and checkpoint ids wrap many times, and
`CkptCap = RobCap` is the tightest allocation `common.hpp` permits.  A field of 4
for 3 slots has the holes that the real free list has.  For the invariants that
are proved, the bound does not matter.  In the cache, five lines for four ways
force an eviction on every miss once the set is full, a dirty victim and a clean
one both occur, and the odd line numbers make the set index part of the victim's
address.  The latency only stretches the wait.

The programs of `lsq` contain every sequence of three accesses up to the names of
the addresses, so a load with one or two older and younger stores of either
address, two loads behind one store and replays of a load with a younger one
behind it all occur; four programs put accesses behind a mispredicted branch, on
the wrong path and after the join, one has a halt marker on the wrong path and one
has code behind a halt marker.  Queue rings of three slots are full with two
entries, and every tag, slot and queue position is reused within a run, which is
what the races of a late answer need.

In `frontend`, two blocks for up to four lines force conflicts; a hit behind a
miss, two misses to one line, three waiting placeholders and a full fetch queue
all occur.  Nine checkpoints are exactly what `CKPT_LIVE_MAX` gives for
these capacities, the tightest the code permits.  A return stack and a journal of
two entries overflow, counters wrap, and a repeated call is counted.  The folded
views have a length that the width divides (the trap the comment in `BPU.cpp`
names) and one that it does not.  The bound on fetches is above the length of
every code, so the halt markers are reached.  The codes have every kind of
instruction; one jalr call and one jalr jump may go anywhere, and be
predicted anywhere, in codes of two and four words.  In the
code `Repeated` a call shares the `condSeen` entry of the branch.

Eight bits are the smallest power of two at which the 9-bit slices drop bits of
the remainder (`sliceShift` is 2 or 3), both parities of `shiftD` and all five
digits occur, and the appended digits overflow `regA`.  A 4-bit product has a
first and a general Booth row with every digit; that the compressor tree adds
each of the 19 rows once is checked by `TreeAddsEveryRow` in `MCMUL`.  Nothing
larger than these widths is claimed.

*Fairness.*  `WF_vars(Next)`: the loop in `CPU::run` does not stop before its
finish condition.  `WF_vars(HeadReports)`: `DispatchArbiter::arbitrate` takes the
oldest ready station of each unit and the unit buffers are queues of bounded
latency (`DeliveredInTime`, `NeverTwoResults`), so the oldest instruction is
reported.  Nothing is assumed of the load
queue, because there the code does not guarantee it (see the hazard at
`DCache.hpp:68`); `HeadCommits` therefore excludes loads.
`LSQ` assumes in addition that stations drain (the oldest ready one is
dispatched), that the cache serves every miss (`MissServed`) and that what can be
issued for ever is issued; `EndsUnlessDropped` then excludes only the lost
answer.  `FrontEnd` assumes that the back end does not leave the decode queue
full for ever.  Deadlock is checked
everywhere except in `TagWalk`, whose walk ends.

Every property has a mutant in `PROJECT.json`: a plausible bug in one mapped
definition under which TLC finds the property violated.

## 4. Findings

1. *The halt marker needs no room* (`halt_overrun`).  `IssueArbiter::build`
   issues the halt marker (and an invalid word) without asking `ROB::isFull`, and
   `ROB::push` overwrites the head's slot.  `docs/backend.md:87` states the
   capacity gate for issue without exception.
2. *An invalid word overwrites checkpoint 0* (`invalid_checkpoint`).  Its packet
   keeps the default `ckptId`, so a wrong path that runs into data can destroy
   the checkpoint of a live branch; the branch's own squash then restores the
   wrong map.  `BPU.hpp:18` and `docs/backend.md:840` rely on checkpoints being
   intact while their instruction lives.
3. *A load passes a store that resolves in the same cycle* (`lsq_resolving`).
   The gate before the cache and the scan for violations both read the snapshot
   and miss each other; the load commits the old value.  `docs/memory.md:79-81`
   says the violation recovery corrects it.
4. *A returned line is dropped* (`frontend_refill`).  A line that comes back while
   the head of the instruction cache has its word and cannot leave (full fetch
   queue) is released without a receiver; the placeholder behind the head waits
   for ever or takes the word of a later line.  The comment at `ICache.cpp:55`
   says the head is the placeholder.
5. *A late answer reaches a new load* (`LQ.cpp:183`).  If the answer to a squashed
   load arrives in the cycle in which a new load with the same slot and tag is
   sent, the new load takes it.  `LoadsRight` excepts this race.
6. *A replayed load can lose its answer* (`DCache.hpp:72`).  The squash gate
   drops the answer of the load that the squash keeps; the load then waits for
   ever.  `EndsUnlessDropped` excepts it.
7. *The halt marker can get stuck* (`CPU.cpp:87`).  If the fetch queue is full
   when the marker reaches the head of the instruction cache, the latch closes
   and the marker is never handed on.  `StreamFollowsPrediction` only claims that
   it is there, and `HeadDelivered` excepts the closed latch.
8. *A return-stack count that changes in the squash tick is not undone*
   (`BPU.cpp:664`), against the comment at line 601.  Predictions only.
   `RasRewound` excepts it, and also records that were overrun.
9. `docs/frontend.md:135` says resolved outcomes go back into the history; the
   code shifts on prediction only.
10. `docs/frontend.md:128` describes a target cache for jalr; the candidate that
   `BPU::tick` builds for a resolved jump (`BPU.cpp:567-574`) never has
   `isIndirect` set, so the target cache is never trained and never used.
11. `docs/backend.md:54` gives 64 physical registers, the code 48.

## 5. Proofs

`EpochRingLemmas` proves the ring algebra for every capacity `cap >= 2` and field
`span >= cap`: successor and distance stay on allocated codes, distance is
injective and grows by one per step, age agrees with distance inside a window of
one capacity, slots inside a window are distinct.

`TagWalkProofs` proves `DistanceTheorem` and `AgeWindowTheorem`: the properties of
`tag_ring` for every ring.

### Back end: the window (`BackendProofs`)

For every size of the constants,

- `BackendTyped`, `RobKeepsWindow`, `BackendSafe`: `TypeOK`, `RobWindow`,
  `RequestsServable`;
- `PreciseDeparture`: `Spec => LeavesByCommitOrSquash`, an action property.

The theorems of this and the next part assume `RoomAssumption`: the program presents no invalid word, and the halt
marker only to a ROB with room; the findings show that the statements fail
without it.  Other assumptions are the ones named `...Assumption` in the modules,
which follow the `static_assert`s of `common.hpp`.

The invariant alone is not inductive.  `RobWindow` needs that a squash target is
live when it is served (otherwise `flush` moves the tail anywhere), which is
`RequestsLive`; that a request is live needs that whoever can raise one is, hence
`WindowLive`, `StationsUnique` and `QueuesLive`; and the arbiter's bound needs
`RequestsFew`: after each cycle there are at most the three just raised, because
the accepted squash is the oldest and clears the rest.  `IInv` is the conjunction.
The step proof goes through distances from the head: a cycle pops at most one
tag, pushes at most one, and a squash only shortens the window (`LiveStep`).

### Back end: renaming (second part of `BackendProofs`)

`RenameInvariant` proves `[]RInv` on top of `IInv`; `RatFollowsRob`,
`CheckpointsRestore`, `NoRegisterLost`, `SourcesStay` and `ReadyIsTrue` are read
off: the run's properties `RatReplaysRob`, `CheckpointsReplay`,
`RegistersPartitioned`, `WindowConsistent`, `ReadyMeansProduced`.

A squash moves the free list's head back and so makes registers free that were
handed out; that the ring still holds them is not visible from the free part of
the ring.  `RingRight` therefore speaks of the positions *behind* the head too: free
registers and live destinations together fill the last `RobCap` positions before
the tail, a saved head lies as far behind the head as younger instructions took
registers, and the slots behind the head still hold what was handed out, youngest
first.  `NamedOnce` says that those `RobCap` positions and the committed map name
every register but P0 exactly once.  `MapsRight` gives the map after each live instruction as the map after the
previous one with one destination replaced; `IdsConsecutive` says that live
instructions have consecutive checkpoint ids, so that `CkptCap >= RobCap` keeps
them apart although a squash turns the counter back.  `EntriesSound` ties an
entry's registers to those maps.

### Data cache (`DCacheProofs`)

`CacheRefinesMemory`: `Spec => Memory!Spec`, the refinement of `AtomicMemory`, for
every number of sets, lines and bytes, every latency and every program of
requests; `NoLineTwice`, `CleanIsMemory`, `ReadyIsDrained`, `CacheTyped` are the
run's invariants and `FillIsNotNextVictim` its action property `FilledLineStays`.
The inductive invariant adds that a valid line stands for a block of the address
space, only valid lines are dirty and what lies beyond the memory's end is zero
(`LinesPlaced`); and that a miss under way is a request of the program whose
block is in no way, with the memory's two ports just asked, working in lockstep
at one count of the latency, or answered (`MissUnderWay`): this is what makes write-back and refill of one miss, which run
side by side, write and read the right lines.

### Load and store queues (`LSQProofs`)

`LsqTyped`, `QueuesFollowRob` and `StoresDrainInOrder` prove `TypeOK`,
`QueuesMatchRob` and `MemoryInOrder`, for every ROB and queue size, every set of
addresses and every program; there is no assumption beyond the sizes and the
well-formedness of a program (`LsqAssumption`).

The first half of the module knows only rings.  `Follows` says of a queue that
every live instruction has recorded a tail, the slots in front of that tail are
exactly those of instructions that are gone or not younger, and an
instruction that belongs in the queue is in the slot before its own tail.  This
is the statement about *all* snapshots that a flush needs, since it may jump to
any of them; lemmas show that a push, a flush, a commit and a pop keep it.

A load stays in the queue after it has left the ROB, one is retired per cycle,
and the ROB goes on handing out tags, so why is `isOlder` of a retired load's tag
and the head still right?  `Spread`: the distance of a load's tag to `next_tag`
plus its position in the queue never exceeds one turn of the ROB.  A cycle that
issues without a squash also retires, if there is a load to retire; if there is
none, the sums are bounded by the ROB's occupancy.

`QInv` adds that whoever waits in a station, the AGU or the flush arbiter is live
and has not got what it waits for, and that what is ready to commit has got
everything.  `MemoryInOrder` needs in addition `StoresSound`: a store's address
and value are its own.  A commit then adds the youngest store, a drain removes
the oldest, and the flush of the same cycle keeps both.

### The values of the loads (second part of `LSQProofs`)

`LoadsCommitRight` proves `LoadsRight`, for every ROB and queue size and every
program, under the same assumption.  The value that program order gives a live
load is `Right`: the youngest of the uncommitted older stores to its address
(`olderStores`), or `refMem` if there is none.  A load may hold something else
for a while, so the invariant `LoadsSound` speaks of loads that are not `Excused`.
Two excuses are those of `LoadsRight`, a replay and the two races; two are
temporary: some older store to the address has not got its own address
(`unresolved`), or a pending squash will take the load away (`recalled`).  For every other load
the value is right wherever it is: in the queue, at the cache (`AskedRight`,
`AnswerRight`), in the register file.

- A load gets its value from the store's broadcast (`ForwardRight`), from the
  queue when its address arrives (`ReplyRight`), or from the cache (`SentRight`, `CacheAnswers`).
  The three look at addresses that are *known*; when no older store is
  `unresolved` they see all that matter.
- `ExcusedStays`: an excuse does not vanish silently.  When the last unresolved
  store gets its address, the scan for violations asks for a squash
  (`ViolationAsks`), which recalls the load, unless the load was sent in that very cycle: the first race.
- `RightStays`: a right value stays right when stores commit, drain or are
  squashed, and when the cache writes.
- `CommittedLoad`: a load that commits has no older store left and is recalled
  by nobody, so that only the excuses of `LoadsRight` remain and `Right` is `headLoadRight`.

An answer of the cache is matched by slot and tag together; the second race is
where that is not enough.

### The commits execute the program (third part of `LSQProofs`)

`CommitsExecuteProgram` proves `ImplementsProgram`, that is `Spec => InOrder!Spec`,
under the same assumption and for every program, loops included.  `MemoryInOrder`
already says that the mapped memory is `refMem`; what is left is the path.

The ROB and the next instruction to issue are a `Stream`: each instruction leads
to the one behind it (`Leads`), with two exceptions.  A load may be followed by
itself, when it is replayed.  A mispredicted branch is followed by the predicted
path, but only while it is unresolved or its squash is pending (`Mispredicted`).
`RequestsSound` says where a pending squash goes on.  A cycle keeps both: what
follows an instruction that passes the gate of the cycle does not change
(`FollowerStep`), the squash PC follows the squash target, and a branch that
resolves as mispredicted asks for a squash in the same cycle (`StreamKept`).

`CommitStep` is then the point: when the head commits, the next instruction is the
one it leads to.  A mispredicted branch is ready to commit one cycle after it has
asked for its squash; no request is then older than the head's, so it is accepted
(`NoRequestStays`) and its gate holds the commit back until the wrong path is gone.

### Front end (`FrontEndProofs`)

`FoldedViewsFollow`, `CheckpointsStayIntact`, `OneStream` and
`LinesFindTheirFetches` prove `FoldsMatch`, `CheckpointsIntact`,
`StreamFollowsPrediction` and `RefillsMatched`, for every size of queues and
rings, every latency, every code, every set of folded views and every bound on
squashes and fetches.  The assumptions are `BpuAssumption`, `ICacheAssumption`
and `FrontEndAssumption`, after the `static_assert`s of `common.hpp`; the one that
matters is that `CkptCap` is at least what back end and queues hold together.

The four queues are seen as one, `liveEntries`, oldest first.  Whatever the ticks do to them
singly, a cycle drops at most one instruction at the old end of the whole and
then either appends the fetch or cuts behind the squash target (`Flow`, `Cut`,
summed up in `Moved`).  The inductive invariant is `FlowInv`:

- `IdsConsecutive`: the checkpoint ids of live instructions are consecutive and
  end before `nextCkptId`.  Distinctness alone would not survive a squash, which
  turns the counter back; with it, `HistoryKept` is undisturbed by the checkpoint
  a fetch overwrites.
- `FoldsRight`: the lemma `FoldStep` shows that rotating, entering a bit and
  cancelling the one that leaves is what refolding the shifted history gives,
  whether the width divides the history length or not.
- `Chained` and `WordsRight` are the stream.  A word read by a refill is right only
  if the returned line is the head's, which is `LinesMatched`: placeholders and requests
  correspond in number and order.  It stops being so in two cases: the line was dropped (`lost`),
  or the halt marker heads the cache behind the closed latch.
- `HaltSeen`: behind a closed latch there is a halt marker not beyond the cache's
  head, so it has its word and no refill can change it.

### Return stack (second part of `FrontEndProofs`)

`StackRewinds` proves `RasRewound` under the same assumptions.  Two of
`BpuAssumption` matter here: the ring and the journal divide the span of the
counters, so that a counter that wraps goes on naming the right slot, and the
span is at least twice either of them, so that `BPU::build` and the undo loop
can tell a counter that is ahead from one that is behind.

`RewindInv` is `FlowInv` and `StackInv`.  `RasRewound` speaks of undoing the
journal now; the invariant says slot by slot why it works, and for whom:

- `Held`: what a slot held at a checkpoint is the *first* record made of it
  since, or what it holds now if there is none.  The undo loop runs backwards,
  so that the first record is written last.
- `WayBack`: the journal has not run round since the checkpoint, and the top is
  either above the checkpoint's by no more than the ring, or what lies between
  is recorded.  A push records nothing, so it needs the second half: it writes
  only over a slot out of the checkpoint's sight or one that a pop has recorded.
- `PointsOrdered` asks this of *all* points between the checkpoint and now,
  because a squash may go back to any of them and the stack must still be
  good for the older ones: undoing the records since the target leaves those
  before it, in their order.

`StackInv` asks all this only of checkpoints not in `spoiled`.  `spoiled` records
the two ways in which the code gives a stack up: the journal or the ring is
overrun, or a count changes in the tick of the squash (section 4, number 8).

### Multiplier (`MULProofs`) and divider (`DIVProofs`)

`PipelineHoldsJobs` and `OutputBufferDrains` prove `HoldsExactlyTheJobs` and
`NeverTwoResults`, `DividerHoldsItsJob` proves `OccupiedByJob`: what the units hold
is exactly what is owed a result, whatever is dispatched, broadcast and squashed
in one cycle, for every word width and every ROB.  What the stages compute is
never looked into.

`MulInv` puts each owed multiplication in exactly one stage, and all of them in one
window of the ROB.  `Gate` is the reason why nothing is lost: in a window two
tags are comparable, so what the bus does not take in a squash cycle is younger
than the target and flushed in the same cycle (`ResultsLeave`).  Hence a buffer of
two slots has a free one for the adder (`FreeSlot`), which is less than the
assertion in `MUL::calculateMulRes` asks for; one slot would not do, because the flushed result
still occupies it when the adder stores.  `DivInv` says that one stage is valid,
under the tag of the owed division; each stage hands on to one other
(`ReceiveStage` to `ResultStage`), and a squash treats the unit and what is owed alike.

### Only model-checked

- Liveness (`HeadCommits`, `MissServed`, `HeadDelivered`, `EndsUnlessDropped`):
  fairness is out of the prover's reach.
- The arithmetic of `DIV` and `MUL` (`ProductsCorrect`, `ResultCorrect`,
  `ResidualBounded`), the widths of their registers (`TypeOK`) and the latency
  `DeliveredInTime`: they rest on powers of two, on recursive functions over bits
  and on a fold over the leading zeros, which need induction over data.

## 6. Plan

Done: ring algebra; back end; data cache and memory; multiplier and divider; load
and store queues; front end with the predictor's speculative state; the proofs of
section 5.  Left:

1. `Backend` with register values, composed with `LSQ`, refining `InOrder` with
   registers.  Needed for the hazard of a replayed load whose destination is its
   own base register.

## 7. Not modelled

- The contents and the training of the prediction tables (TAGE, BTB, target
  cache, local history): `predict` allows every address and bit they can answer
  with (section 2, with the one case it leaves out), and no property depends on
  which it is.
- Accesses of different widths in the queues: the code compares start addresses
  only and has no byte masks, so overlapping accesses have no defined forward to
  check; the data cache is modelled with widths.
- The extraction of instruction fields, the ALU and branch operations, sign
  extension: functions of their inputs without state.
- The program loader, statistics and debug output, which no other part reads.
