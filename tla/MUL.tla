-------------------------------- MODULE MUL --------------------------------
(***************************************************************************)
(* The pipelined multiplier (src/src/MUL/MUL.cpp, include/MUL.hpp): rows   *)
(* of radix-4 Booth digits, a tree of 3:2 compressors and a final          *)
(* addition, one cycle each, in front of an output buffer that the result  *)
(* bus empties oldest first.                                               *)
(*                                                                         *)
(* The word width is W (32 in the code), products have 2*W bits.  The 19   *)
(* rows of the code are kept; the digits beyond a narrower operand give    *)
(* rows of 0.  A stage register is a set with at most one operation: what  *)
(* an invalid register holds is never read except by flush, which would    *)
(* only invalidate it again.                                               *)
(***************************************************************************)
EXTENDS EpochRing, CarrySave, FiniteSetsExt

CONSTANTS
    W,          \* word width
    RobCap,     \* ROB_CAP
    RobSpan,    \* ROB_INDEX_MASK + 1
    MulCap,     \* MUL_CAP, slots of the output buffer
    Work        \* multiplications that the stations may present

Ops == {"MUL", "MULH", "MULHSU", "MULHU"}

RobTags == Codes(RobCap, RobSpan)

Products == [tag : RobTags, op : Ops, x : 0 .. 2^W - 1, y : 0 .. 2^W - 1]

ASSUME MulAssumption ==
    /\ W \in 2 .. 32 /\ W % 2 = 0
    /\ RobCap \in Nat /\ RobCap >= 2 /\ RobSpan \in Nat /\ RobCap <= RobSpan
    /\ MulCap \in Nat /\ MulCap >= 2
    /\ Work \subseteq Products

VARIABLES
    partialRes,     \* register between the Booth rows and the compressors
    scRes,          \* register between the compressors and the adder
    outputBuffer,   \* slots, each empty or with one result
    jobs            \* history: multiplications still owed a result

vars == <<partialRes, scRes, outputBuffer, jobs>>

Slots == 0 .. MulCap - 1

Init ==
    /\ partialRes = {}
    /\ scRes = {}
    /\ outputBuffer = [i \in Slots |-> {}]
    /\ jobs = {}

isOlder(a, b) == RingOlder(a, b, RobSpan)

-----------------------------------------------------------------------------
(* Words of 2*W bits.                                                      *)

DoubleWord == 2 ^ (2 * W)

shl(v, n) == (v * 2^n) % DoubleWord

inverted(v) == DoubleWord - 1 - v

asSigned(v) == IF v >= 2^(W - 1) THEN v - 2^W ELSE v

signExtended(v) == asSigned(v) % DoubleWord

-----------------------------------------------------------------------------
(* The three stages of a product.                                          *)

Rows == 0 .. 18

(* The digit of row i, from the bits 2i+1, 2i and 2i-1 of the multiplier.  *)
boothDigit(y, i) ==
    LET triple == IF i = 0 THEN (y % 4) * 2 ELSE (y \div 2^(2 * i - 1)) % 8
    IN  CASE triple \in {1, 2} -> 1
          [] triple = 3 -> 2
          [] triple = 4 -> -2
          [] triple \in {5, 6} -> -1
          [] OTHER -> 0

(* Mutant: the multiplier of MULHSU is taken as signed.                    *)
fixup_noMulhsu(w) ==
    [x |-> IF w.op = "MULHU" /\ asSigned(w.x) < 0 THEN shl(w.y, W) ELSE 0,
     y |-> IF w.op = "MULHU" /\ asSigned(w.y) < 0
             THEN shl(signExtended(w.x), W) ELSE 0]

(* Corrections for an unsigned operand with its top bit set.               *)
fixup(w) ==
    [x |-> IF w.op = "MULHU" /\ asSigned(w.x) < 0 THEN shl(w.y, W) ELSE 0,
     y |-> IF w.op \in {"MULHU", "MULHSU"} /\ asSigned(w.y) < 0
             THEN shl(signExtended(w.x), W) ELSE 0]

(* Rows 0..15: the multiples of the multiplicand, inverted where the digit *)
(* is negative; 16 and 17: the corrections; 18: the ones that complete the *)
(* inversions.                                                             *)
calculateBooth(w) ==
    LET digits == 0 .. (W \div 2) - 1
        multiple(d) == shl(signExtended(w.x), IF d \in {2, -2} THEN 1 ELSE 0)
        row(d) == CASE d = 0 -> 0
                    [] d < 0 -> inverted(multiple(d))
                    [] d > 0 -> multiple(d)
        negative == {i \in digits : boothDigit(w.y, i) < 0}
    IN  [i \in Rows |->
           CASE i \in digits -> shl(row(boothDigit(w.y, i)), 2 * i)
             [] i = 16 -> fixup(w).x
             [] i = 17 -> fixup(w).y
             [] i = 18 -> SumSet({2 ^ (2 * j) : j \in negative})
             [] OTHER -> 0]

(* A 3:2 compressor: <<sum, carry>>.                                       *)
csa3(a, b, c) ==
    <<parity[a, b, c], shl(majority[a, b, c], 1)>>

(* The compressor tree 19 -> 13 -> 9 -> 6 -> 4 -> 3 -> 2.                  *)
calculateSC(P) ==
    LET a0 == csa3(P[0], P[1], P[2])
        a1 == csa3(P[3], P[4], P[5])
        a2 == csa3(P[6], P[7], P[8])
        a3 == csa3(P[9], P[10], P[11])
        a4 == csa3(P[12], P[13], P[14])
        a5 == csa3(P[15], P[16], P[17])
        b0 == csa3(a0[1], a0[2], a1[1])
        b1 == csa3(a1[2], a2[1], a2[2])
        b2 == csa3(a3[1], a3[2], a4[1])
        b3 == csa3(a4[2], a5[1], a5[2])
        c0 == csa3(b0[1], b0[2], b1[1])
        c1 == csa3(b1[2], b2[1], b2[2])
        c2 == csa3(b3[1], b3[2], P[18])
        d0 == csa3(c0[1], c0[2], c1[1])
        d1 == csa3(c1[2], c2[1], c2[2])
        e0 == csa3(d0[1], d0[2], d1[1])
    IN  csa3(e0[1], e0[2], d1[2])

(* Mutant: the low half keeps the bits above it.                           *)
productHalf_wide(op, SC) ==
    LET res == (SC[1] + SC[2]) % DoubleWord
    IN  IF op = "MUL" THEN res ELSE res \div 2^W

(* The final addition, and the half of the product that is asked for.      *)
productHalf(op, SC) ==
    LET res == (SC[1] + SC[2]) % DoubleWord
    IN  IF op = "MUL" THEN res % 2^W ELSE res \div 2^W

-----------------------------------------------------------------------------
(* The output buffer.                                                      *)

results == UNION {outputBuffer[i] : i \in Slots}

isFull == \A i \in Slots : outputBuffer[i] # {}

(* The squash gate of the dispatch arbiter and of the result bus.          *)
passes(tag, squash) == \A s \in squash : isOlder(tag, s)

(* Mutant: the bus rests in every squash cycle.                            *)
broadcast_rests(squash) ==
    IF squash # {} THEN {}
    ELSE {r \in results : \A q \in results : ~isOlder(q.tag, r.tag)}

(* mulCDB::build: the oldest result, if the squash lets it pass.           *)
broadcast(squash) ==
    {r \in results : /\ \A q \in results : ~isOlder(q.tag, r.tag)
                     /\ passes(r.tag, squash)}

(* remove: the slot of the broadcast tag is freed.                         *)
removed(buffer, cdb) ==
    [i \in Slots |-> {r \in buffer[i] : \A b \in cdb : b.tag # r.tag}]

(* calculateMulRes: the first free slot takes the result; without one the  *)
(* code's assertion fails, and here the result is lost.                    *)
stored(buffer, sc) ==
    LET free == {i \in Slots : buffer[i] = {}}
        value(p) == [tag |-> p.tag, value |-> productHalf(p.op, p.SC)]
    IN  IF sc = {} \/ free = {} THEN buffer
        ELSE [buffer EXCEPT ![Min(free)] = {value(p) : p \in sc}]

(* Mutant: only the output buffer is flushed.                              *)
keptStage_all(stage, squash) == stage

(* flush, stage registers: what is younger than the target is dropped.     *)
keptStage(stage, squash) ==
    {p \in stage : \A s \in squash : ~isOlder(s, p.tag)}

(* flush, output buffer: only what is older than the target stays.         *)
keptBuffer(buffer, squash) ==
    [i \in Slots |-> {r \in buffer[i] : passes(r.tag, squash)}]

(* MUL::tick; w is the set of the dispatched multiplications, squash that  *)
(* of the squash targets, each with at most one element.                   *)
MULtick(w, squash) ==
    /\ outputBuffer' =
         keptBuffer(stored(removed(outputBuffer, broadcast(squash)), scRes),
                    squash)
    /\ scRes' =
         keptStage({[tag |-> p.tag, op |-> p.op, SC |-> calculateSC(p.rows)] :
                      p \in partialRes}, squash)
    /\ partialRes' =
         keptStage({[tag |-> e.tag, op |-> e.op, rows |-> calculateBooth(e)] :
                      e \in w}, squash)

(* History: a multiplication is owed a result until it is broadcast or a   *)
(* squash of an older instruction discards it.                             *)
JobTick(w, squash) ==
    jobs' = {j \in jobs \cup w :
               /\ \A b \in broadcast(squash) : b.tag # j.tag
               /\ \A s \in squash : ~isOlder(s, j.tag)}

(* Tags that can be live in the ROB together.                              *)
inOneWindow(T) ==
    \E h \in RobTags : \A t \in T : RingDistance(h, t, RobCap, RobSpan) < RobCap

inFlight == {j.tag : j \in jobs}

(* A squash target is a live control or load instruction.                  *)
Squashes ==
    {{}} \cup {{s} : s \in {t \in RobTags \ inFlight : inOneWindow(inFlight \cup {t})}}

(* The MUL channel of the dispatch arbiter: a ready station of a live      *)
(* instruction, if the buffer is not full and the squash lets it pass.     *)
Dispatches(squash) ==
    {{}} \cup
    {{w} : w \in {v \in Work :
        /\ ~isFull
        /\ passes(v.tag, squash)
        /\ v.tag \notin inFlight
        /\ inOneWindow(inFlight \cup {v.tag} \cup squash)}}

Next ==
    \E squash \in Squashes : \E w \in Dispatches(squash) :
        MULtick(w, squash) /\ JobTick(w, squash)

Spec == Init /\ [][Next]_vars

-----------------------------------------------------------------------------
(* Properties.                                                             *)

(* The half of the product that RISC-V defines.                            *)
Expected(j) ==
    LET sx == IF j.op = "MULHU" THEN j.x ELSE asSigned(j.x)
        sy == IF j.op \in {"MULHU", "MULHSU"} THEN j.y ELSE asSigned(j.y)
    IN  IF j.op = "MUL" THEN (sx * sy) % 2^W ELSE ((sx * sy) \div 2^W) % 2^W

(* Every result in the output buffer is the product half that its own      *)
(* multiplication asked for, with any number of others in the pipeline     *)
(* (MUL::calculateBooth, calculateSC, calculateMulRes).                    *)
ProductsCorrect ==
    \A r \in results : \A j \in jobs : j.tag = r.tag => r.value = Expected(j)

(* The pipeline holds exactly the multiplications that are owed a result,  *)
(* each once: none is lost in a squash cycle, broadcast twice, or kept for *)
(* a tag that the ROB may hand out again (MUL::flush, MUL::remove).        *)
HoldsExactlyTheJobs ==
    /\ {p.tag : p \in partialRes \cup scRes} \cup {r.tag : r \in results}
         = inFlight
    /\ Cardinality(partialRes) + Cardinality(scRes)
         + Cardinality({i \in Slots : outputBuffer[i] # {}})
       = Cardinality(jobs)

(* The output buffer never holds two results, so that the adder always     *)
(* finds a free slot (the assertion in MUL::calculateMulRes) and a result  *)
(* is on the bus in the fourth cycle, squashes of younger instructions     *)
(* included.                                                               *)
NeverTwoResults == Cardinality({i \in Slots : outputBuffer[i] # {}}) <= 1

(* Registers keep their widths and slots hold single results.              *)
TypeOK ==
    /\ \A p \in partialRes :
         /\ p.tag \in RobTags /\ p.op \in Ops
         /\ p.rows \in [Rows -> 0 .. DoubleWord - 1]
    /\ \A p \in scRes : p.SC[1] < DoubleWord /\ p.SC[2] < DoubleWord
    /\ \A i \in Slots : \A r \in outputBuffer[i] : r.value \in 0 .. 2^W - 1
    /\ jobs \subseteq Products

=============================================================================
