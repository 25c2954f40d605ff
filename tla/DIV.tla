-------------------------------- MODULE DIV --------------------------------
(***************************************************************************)
(* The radix-4 SRT divider (src/src/DIV/DIV.cpp, include/DIV.hpp): one     *)
(* instruction at a time passes through receive, prepare, a number of      *)
(* loop cycles and calculateResult, and then waits for the result bus.     *)
(* The partial remainder is kept in carry-save form, and every quotient    *)
(* digit is chosen from 9-bit slices of it.                                *)
(*                                                                         *)
(* The word width is W = 2^LogW (32 in the code); every position of the    *)
(* code is given relative to it.  Data registers that no stage owns are 0: *)
(* the next stage writes each of them before it is read.  The sign flags,  *)
(* the tag and the operation keep their last values, as in the code.       *)
(***************************************************************************)
EXTENDS EpochRing, CarrySave, SequencesExt

CONSTANTS
    LogW,       \* binary logarithm of the word width
    RobCap,     \* ROB_CAP
    RobSpan,    \* ROB_INDEX_MASK + 1
    Work,       \* divisions that the unused divider may be given
    Later       \* bound: divisions that it may be given after the first

W == 2 ^ LogW

Ops == {"DIV", "DIVU", "REM", "REMU"}

RobTags == Codes(RobCap, RobSpan)

Divisions == [tag : RobTags, op : Ops, x : 0 .. 2^W - 1, d : 0 .. 2^W - 1]

ASSUME DivAssumption ==
    /\ LogW \in Nat /\ W >= 8
    /\ RobCap \in Nat /\ RobCap >= 2 /\ RobSpan \in Nat /\ RobCap <= RobSpan
    /\ Work \subseteq Divisions /\ Later \subseteq Divisions

VARIABLES
    div,        \* the registers of the unit
    job         \* history: the accepted division and its age in cycles

vars == <<div, job>>

NoJob == [age |-> 0]

isOlder(a, b) == RingOlder(a, b, RobSpan)

-----------------------------------------------------------------------------
(* Words: W bits for operands, 2*W for the uint64_t registers.             *)

DoubleWord == 2 ^ (2 * W)

shl(v, n) == (v * 2^n) % DoubleWord

shr(v, n) == v \div 2^n

inverted(v) == DoubleWord - 1 - v

asSigned(v) == IF v >= 2^(W - 1) THEN v - 2^W ELSE v

negated(v) == (2^W - v) % 2^W

magnitude(v) == IF asSigned(v) < 0 THEN negated(v) ELSE v

(* Leading zeros by halving the field, as the code does.                   *)
clz(num) ==
    LET halve(acc, h) ==
          IF shr(acc.num, h) # 0 THEN [acc EXCEPT !.num = shr(@, h)]
                                 ELSE [acc EXCEPT !.zeros = @ + h]
        halves == [i \in 1 .. LogW |-> 2 ^ (LogW - i)]
    IN  IF num = 0 THEN W
        ELSE FoldLeft(halve, [num |-> num, zeros |-> 0], halves).zeros

-----------------------------------------------------------------------------
(* Registers.                                                              *)

NoData ==
    [unsignedDivisor |-> 0, unsignedDividend |-> 0, clzD |-> 0,
     loopTimes |-> 0, shiftD |-> 0, dSlice |-> 0,
     regS |-> 0, regC |-> 0, regA |-> 0, regB |-> 0]

Idle ==
    [prepareValid |-> FALSE, loopValid |-> FALSE, fullAdderValid |-> FALSE,
     resultValid |-> FALSE, data |-> NoData, quotient |-> 0, remain |-> 0,
     isDividendNegative |-> FALSE, isResultNegative |-> FALSE,
     robTag |-> 0, operationType |-> "OP_INVALID"]

Init == div = Idle /\ job = NoJob

canAccept(r) ==
    ~r.prepareValid /\ ~r.loopValid /\ ~r.fullAdderValid /\ ~r.resultValid

(* The value on the bus; the negation wraps.                               *)
getValue(r) ==
    CASE r.operationType = "DIV" ->
           IF r.isResultNegative THEN negated(r.quotient) ELSE r.quotient
      [] r.operationType = "DIVU" -> r.quotient
      [] r.operationType = "REM" ->
           IF r.isDividendNegative THEN negated(r.remain) ELSE r.remain
      [] r.operationType = "REMU" -> r.remain

-----------------------------------------------------------------------------
(* receive: the cases without iteration, and the magnitudes of the others. *)

(* Mutant: the sign flags of the previous division stay.                   *)
finish_keepsSigns(r, q, rem, w) ==
    [r EXCEPT !.quotient = q, !.remain = rem, !.resultValid = TRUE,
              !.robTag = w.tag, !.operationType = w.op]

finish(r, q, rem, w) ==
    [r EXCEPT !.quotient = q, !.remain = rem, !.resultValid = TRUE,
              !.isResultNegative = FALSE, !.isDividendNegative = FALSE,
              !.robTag = w.tag, !.operationType = w.op]

receive(r, w) ==
    LET signedOp == w.op \in {"DIV", "REM"}
        quotientOp == w.op \in {"DIV", "DIVU"}
        xs == signedOp /\ asSigned(w.x) < 0
        ds == signedOp /\ asSigned(w.d) < 0
        absX == IF signedOp THEN magnitude(w.x) ELSE w.x
        absD == IF signedOp THEN magnitude(w.d) ELSE w.d
        allOnes == 2^W - 1
        intMin == 2^(W - 1)
        result(q, rem) == IF quotientOp THEN finish(r, q, 0, w)
                                        ELSE finish(r, 0, rem, w)
    IN  CASE w.d = 0 -> result(allOnes, w.x)
          [] w.d # 0 /\ signedOp /\ w.x = intMin /\ w.d = allOnes ->
               result(intMin, 0)
          [] w.d # 0 /\ absX < absD -> result(0, w.x)
          [] w.d # 0 /\ absX = absD ->
               result(IF xs = ds THEN 1 ELSE allOnes, 0)
          [] OTHER ->
               [r EXCEPT !.resultValid = FALSE, !.prepareValid = TRUE,
                         !.robTag = w.tag, !.operationType = w.op,
                         !.isDividendNegative = xs,
                         !.isResultNegative = (xs # ds),
                         !.data = [@ EXCEPT !.unsignedDividend = absX,
                                            !.unsignedDivisor = absD]]

-----------------------------------------------------------------------------
(* prepare: align the operands and take the first quotient digit.          *)

(* Positions of the slices, one higher when the divisor was shifted.       *)
ulpExp(shiftD) == W - 5 + shiftD

sliceShift(shiftD) == W - 6 + shiftD

(* Mutant: one cycle too many for an even alignment.                       *)
loopTimesFor_extra(align) == (align + 2) \div 2

(* ceil(align/2) digits are left after the first one.                      *)
loopTimesFor(align) == (align + 1) \div 2

(* Mutant: the slice is taken at one position, whatever shiftD is.         *)
dSliceOf_fixed(divisor, shiftD) == shr(divisor, ulpExp(0)) % 32

dSliceOf(divisor, shiftD) == shr(divisor, ulpExp(shiftD)) % 32

prepare(r) ==
    LET clzX == clz(r.data.unsignedDividend)
        clzD == clz(r.data.unsignedDivisor)
        align == clzD - clzX
        shiftD == align % 2
        divisor == shl(shl(r.data.unsignedDivisor, clzD), shiftD)
        dividend == shl(r.data.unsignedDividend, clzX)
        dSlice == dSliceOf(divisor, shiftD)
        slice == shr(dividend, ulpExp(shiftD) - 1)
        q1 == IF slice >= 3 * dSlice THEN 2 ELSE IF slice >= dSlice THEN 1 ELSE 0
        complement == inverted(shl(divisor, q1 - 1))
        times == loopTimesFor(align)
    IN  [r EXCEPT
           !.prepareValid = FALSE,
           !.loopValid = (times # 0),
           !.fullAdderValid = (times = 0),
           !.data = [unsignedDivisor |-> divisor, unsignedDividend |-> dividend,
                     clzD |-> clzD, loopTimes |-> times, shiftD |-> shiftD,
                     dSlice |-> dSlice,
                     regS |-> IF q1 = 0 THEN shl(dividend, 2)
                              ELSE shl(parity[dividend, complement, 1], 2),
                     regC |-> IF q1 = 0 THEN 0
                              ELSE shl(majority[dividend, complement, 1], 3),
                     regA |-> q1,
                     regB |-> IF q1 = 0 THEN 3 ELSE q1 - 1]]

-----------------------------------------------------------------------------
(* loop: choose a digit from the slices, then shift and compress 3:2.      *)

(* Mutant: the slice is read as an unsigned number.                        *)
sliceOf_unsigned(sum9) == ((sum9 % 512) \div 2) * 2

(* The 9-bit sum as a signed number without its lowest bit.                *)
sliceOf(sum9) ==
    LET v == sum9 % 512
    IN  2 * (IF v >= 256 THEN (v - 512) \div 2 ELSE v \div 2)

(* The registers after one more digit.                                     *)
nextDigit(dt) ==
    LET sum9 == (shr(dt.regS, sliceShift(dt.shiftD)) % 512)
                  + (shr(dt.regC, sliceShift(dt.shiftD)) % 512)
        slice == sliceOf(sum9)
        q == CASE slice >= 3 * dt.dSlice -> 2
               [] slice >= dt.dSlice /\ slice < 3 * dt.dSlice -> 1
               [] slice >= -dt.dSlice /\ slice < dt.dSlice -> 0
               [] slice >= -3 * dt.dSlice /\ slice < -dt.dSlice -> -1
               [] OTHER -> -2
        size == 2 ^ (W + 3 + dt.shiftD)             \* mask + 1
        S4 == shl(dt.regS, 2) % size
        C4 == shl(dt.regC, 2) % size
        multiple == CASE q \in {1, -1} -> shl(dt.unsignedDivisor, 2)
                      [] q \in {2, -2} -> shl(dt.unsignedDivisor, 3)
                      [] OTHER -> 0
        term == IF q > 0 THEN parity[size - 1, multiple, 0] ELSE multiple
        carryIn == IF q > 0 THEN 1 ELSE 0
        append(digits, low) == (4 * digits + low) % 2^W
    IN  [dt EXCEPT
           !.loopTimes = dt.loopTimes - 1,
           !.regS = parity[S4, C4, term] % size,
           !.regC = (2 * majority[S4, C4, term] + carryIn) % size,
           !.regA = IF q >= 0 THEN append(dt.regA, q)
                              ELSE append(dt.regB, q + 4),
           !.regB = IF q > 0 THEN append(dt.regA, q - 1)
                             ELSE append(dt.regB, q + 3)]

loop(r) ==
    [r EXCEPT !.loopValid = (r.data.loopTimes # 1),
              !.fullAdderValid = (r.data.loopTimes = 1),
              !.data = nextDigit(@)]

(* The value of the carry-save pair, as a signed number.                   *)
residual(dt) ==
    LET size == 2 ^ (W + 3 + dt.shiftD)
        Pk == (dt.regS + dt.regC) % size
    IN  IF Pk >= size \div 2 THEN Pk - size ELSE Pk

(* calculateResult: a negative remainder takes the decremented quotient.   *)
calculateResult(r) ==
    LET dt == r.data
        Pk == residual(dt)
        R == IF Pk >= 0 THEN Pk
             ELSE (Pk + shl(dt.unsignedDivisor, 2)) % DoubleWord
    IN  [r EXCEPT
           !.fullAdderValid = FALSE, !.resultValid = TRUE,
           !.quotient = IF Pk >= 0 THEN dt.regA ELSE dt.regB,
           !.remain = shr(shr(shr(R, 2), dt.shiftD), dt.clzD) % 2^W,
           !.data = NoData]

-----------------------------------------------------------------------------
(* A squash, and one clock cycle.                                          *)

(* Mutant: the age comparison is swapped.                                  *)
flush_swapped(r, tag) ==
    IF isOlder(r.robTag, tag)
      THEN [Idle EXCEPT !.operationType = r.operationType] ELSE r

(* A division younger than the squash target is dropped with everything    *)
(* but its operation.                                                      *)
flush(r, tag) ==
    IF isOlder(tag, r.robTag)
      THEN [Idle EXCEPT !.operationType = r.operationType] ELSE r

(* The squash gate of the dispatch arbiter and of the result bus.          *)
passes(tag, squash) == squash = {} \/ \A s \in squash : isOlder(tag, s)

(* divCDB::build.                                                          *)
broadcasts(squash) == div.resultValid /\ passes(div.robTag, squash)

(* DIV::tick; w is the set of the dispatched divisions, squash the set of  *)
(* the squash targets, each with at most one element.                      *)
DIVtick(w, squash) ==
    LET consumed == IF broadcasts(squash)
                      THEN [div EXCEPT !.resultValid = FALSE,
                                       !.quotient = 0, !.remain = 0]
                      ELSE div
        added == IF div.fullAdderValid THEN calculateResult(consumed)
                                       ELSE consumed
        looped == IF div.loopValid THEN loop(added) ELSE added
        prepared == IF div.prepareValid THEN prepare(looped) ELSE looped
        received == IF w = {} THEN prepared
                    ELSE receive(prepared, CHOOSE e \in w : TRUE)
    IN  div' = IF squash = {} THEN received
               ELSE flush(received, CHOOSE s \in squash : TRUE)

(* History: an accepted division is owed a result until it is broadcast or *)
(* a squash of an older instruction discards it.                           *)
JobTick(w, squash) ==
    LET owed == IF w # {} THEN CHOOSE e \in w : TRUE ELSE job
        discarded == \E s \in squash : isOlder(s, owed.tag)
    IN  job' =
          IF w = {} /\ (job = NoJob \/ broadcasts(squash)) THEN NoJob
          ELSE IF discarded THEN NoJob
          ELSE [tag |-> owed.tag, op |-> owed.op, x |-> owed.x, d |-> owed.d,
                age |-> IF w # {} THEN 1 ELSE job.age + 1]

(* The DIV channel of the dispatch arbiter: the ready station's division,  *)
(* if the unit accepts one and the squash of the cycle lets it pass.       *)
Dispatches(squash) ==
    LET ready == IF div.operationType = "OP_INVALID" THEN Work ELSE Later
    IN  {{}} \cup IF canAccept(div)
                    THEN {{w} : w \in {v \in ready : passes(v.tag, squash)}}
                    ELSE {}

(* A squash target is a live control or load instruction, never a division *)
(* itself, and lives in one ROB window with the division in the unit.      *)
coexist(s, t) ==
    /\ s # t
    /\ \/ RingDistance(s, t, RobCap, RobSpan) < RobCap
       \/ RingDistance(t, s, RobCap, RobSpan) < RobCap

Squashes ==
    {{}} \cup {{s} : s \in {t \in RobTags : job = NoJob \/ coexist(t, job.tag)}}

Next ==
    \E squash \in Squashes : \E w \in Dispatches(squash) :
        /\ \A v \in w, s \in squash : coexist(s, v.tag)
        /\ DIVtick(w, squash)
        /\ JobTick(w, squash)

Spec == Init /\ [][Next]_vars

-----------------------------------------------------------------------------
(* Properties.                                                             *)

(* What RISC-V defines for a division, truncated towards zero.             *)
Expected(j) ==
    LET sx == IF j.op \in {"DIV", "REM"} THEN asSigned(j.x) ELSE j.x
        sd == IF j.op \in {"DIV", "REM"} THEN asSigned(j.d) ELSE j.d
        abs(n) == IF n < 0 THEN -n ELSE n
        q == IF (sx < 0) = (sd < 0) THEN abs(sx) \div abs(sd)
                                    ELSE -(abs(sx) \div abs(sd))
    IN  IF j.op \in {"DIV", "DIVU"}
          THEN IF j.d = 0 THEN 2^W - 1 ELSE q % 2^W
          ELSE IF j.d = 0 THEN j.x ELSE (sx - q * sd) % 2^W

(* The registers keep their widths, and while digits are being chosen the  *)
(* divisor slice is normalised to 16..31 (docs/backend.md, assertion A3).  *)
TypeOK ==
    /\ \A f \in {"prepareValid", "loopValid", "fullAdderValid", "resultValid",
                 "isDividendNegative", "isResultNegative"} : div[f] \in BOOLEAN
    /\ div.robTag \in RobTags
    /\ div.operationType \in Ops \cup {"OP_INVALID"}
    /\ div.quotient \in 0 .. 2^W - 1 /\ div.remain \in 0 .. 2^W - 1
    /\ div.data.regS \in 0 .. DoubleWord - 1
    /\ div.data.regC \in 0 .. DoubleWord - 1
    /\ div.data.regA \in 0 .. 2^W - 1 /\ div.data.regB \in 0 .. 2^W - 1
    /\ div.loopValid => div.data.dSlice \in 16 .. 31
    /\ div.loopValid => div.data.loopTimes \in 1 .. W \div 2

(* Every digit chosen from the truncated slices keeps the remainder within *)
(* two thirds of the divisor, so that the next digit still exists          *)
(* (docs/backend.md, assertions A1 and A2; DIV::prepare, DIV::loop).       *)
ResidualBounded ==
    (div.loopValid \/ div.fullAdderValid) =>
        LET P == residual(div.data)
        IN  /\ 3 * P <= 8 * div.data.unsignedDivisor
            /\ -3 * P <= 8 * div.data.unsignedDivisor

(* The value that goes on the bus is the quotient or remainder that        *)
(* RISC-V defines for the accepted division, for every special case and    *)
(* whatever the previous division left in the registers (DIV::getValue).   *)
ResultCorrect == div.resultValid => getValue(div) = Expected(job)

(* The unit is occupied, by exactly one stage and under the right tag, as  *)
(* long as an accepted division is neither broadcast nor discarded: none   *)
(* is lost, answered twice, or answered after a squash dropped it          *)
(* (DIV::canAccept, DIV::flush, divCDB::build).                            *)
OccupiedByJob ==
    LET stages == {f \in {"prepareValid", "loopValid", "fullAdderValid",
                          "resultValid"} : div[f]}
    IN  IF job = NoJob THEN stages = {}
        ELSE /\ Cardinality(stages) = 1
             /\ div.robTag = job.tag /\ div.operationType = job.op

(* A division with k quotient digits is broadcast 3 + k cycles after its   *)
(* dispatch, at most W/2 + 4 (docs/backend.md: 20 cycles for 32 bits); the *)
(* result register is written in the cycle before (DIV::tick).             *)
DeliveredInTime ==
    LET width(v) == W - clz(IF job.op \in {"DIV", "REM"} THEN magnitude(v) ELSE v)
        digits == (width(job.x) - width(job.d) + 1) \div 2 + 1
    IN  job # NoJob =>
          /\ job.age <= W \div 2 + 3
          /\ ~div.resultValid => job.age < digits + 2

=============================================================================
