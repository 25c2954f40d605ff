----------------------------- MODULE DIVProofs -----------------------------
(***************************************************************************)
(* The divider is occupied by exactly the division that it has accepted,   *)
(* for every word width and every size of the reorder buffer.  Which       *)
(* digits are chosen, and how many, plays no part.                         *)
(***************************************************************************)
EXTENDS DIV, FiniteSetTheorems, TLAPS

-----------------------------------------------------------------------------
(* The inductive invariant.                                                *)

Stages == {"prepareValid", "loopValid", "fullAdderValid", "resultValid"}

Fields == Stages \cup {"data", "quotient", "remain", "isDividendNegative",
                       "isResultNegative", "robTag", "operationType"}

(* Registers with stage f valid and no other; with f = "none", with none.  *)
Only(r, f) == DOMAIN r = Fields /\ \A g \in Stages : r[g] = (g = f)

(* The registers hold division w, in some stage.                           *)
Holds(r, w) ==
    /\ \E f \in Stages : Only(r, f)
    /\ r.robTag = w.tag /\ r.operationType = w.op

DivInv == IF job = NoJob THEN Only(div, "none") ELSE Holds(div, job)

-----------------------------------------------------------------------------
(* What each stage does to the valid flags.                                *)

LEMMA ReceiveStage ==
    ASSUME NEW r, NEW w, Only(r, "none")
    PROVE  Holds(receive(r, w), w)
<1> DEFINE s == receive(r, w)
<1>1. \A q, rem :
        /\ Only(finish(r, q, rem, w), "resultValid")
        /\ finish(r, q, rem, w).robTag = w.tag
        /\ finish(r, q, rem, w).operationType = w.op
  BY DEF finish, Only, Fields, Stages
<1> DEFINE iterates(xs, neg, data) ==
             [r EXCEPT !.resultValid = FALSE, !.prepareValid = TRUE,
                       !.robTag = w.tag, !.operationType = w.op,
                       !.isDividendNegative = xs, !.isResultNegative = neg,
                       !.data = data]
<1>2. \A xs, neg, data :
        /\ Only(iterates(xs, neg, data), "prepareValid")
        /\ iterates(xs, neg, data).robTag = w.tag
        /\ iterates(xs, neg, data).operationType = w.op
  BY ZenonT(40) DEF Only, Fields, Stages
<1>3. \/ \E q, rem : s = finish(r, q, rem, w)
      \/ \E xs, neg, data : s = iterates(xs, neg, data)
  <2> DEFINE signedOp == w.op \in {"DIV", "REM"}
             quotientOp == w.op \in {"DIV", "DIVU"}
             xs == signedOp /\ asSigned(w.x) < 0
             ds == signedOp /\ asSigned(w.d) < 0
             absX == IF signedOp THEN magnitude(w.x) ELSE w.x
             absD == IF signedOp THEN magnitude(w.d) ELSE w.d
             result(q, rem) == IF quotientOp THEN finish(r, q, 0, w)
                                             ELSE finish(r, 0, rem, w)
             overflow == signedOp /\ w.x = 2^(W - 1) /\ w.d = 2^W - 1
             data == [r.data EXCEPT !.unsignedDividend = absX,
                                    !.unsignedDivisor = absD]
  <2>1. \A q, rem : \E q1, rem1 : result(q, rem) = finish(r, q1, rem1, w)
    OBVIOUS
  <2>2. s = CASE w.d = 0 -> result(2^W - 1, w.x)
              [] w.d # 0 /\ overflow -> result(2^(W - 1), 0)
              [] w.d # 0 /\ absX < absD -> result(0, w.x)
              [] w.d # 0 /\ absX = absD -> result(IF xs = ds THEN 1 ELSE 2^W - 1, 0)
              [] OTHER -> iterates(xs, xs # ds, data)
    BY Zenon DEF receive
  <2> HIDE DEF s, result, overflow, absX, absD, xs, ds, data, iterates
  <2>3. \/ \E q, rem : s = result(q, rem)
        \/ s = iterates(xs, xs # ds, data)
    BY <2>2
  <2> QED
    BY <2>1, <2>3
<1> HIDE DEF s, iterates
<1>4. Holds(s, w)
  BY <1>1, <1>2, <1>3 DEF Holds, Stages
<1> QED
  BY <1>4 DEF s

LEMMA PrepareStage ==
    ASSUME NEW r, NEW w, Only(r, "prepareValid"),
           r.robTag = w.tag, r.operationType = w.op
    PROVE  Holds(prepare(r), w)
<1> DEFINE s == prepare(r)
           aligned(last, data) ==
             [r EXCEPT !.prepareValid = FALSE, !.loopValid = ~last,
                       !.fullAdderValid = last, !.data = data]
<1>1. \A last \in BOOLEAN : \A data :
        /\ Only(aligned(last, data),
                IF last THEN "fullAdderValid" ELSE "loopValid")
        /\ aligned(last, data).robTag = w.tag
        /\ aligned(last, data).operationType = w.op
  BY DEF Only, Fields, Stages
<1>2. \E last \in BOOLEAN : \E data : s = aligned(last, data)
  <2> DEFINE times == loopTimesFor(clz(r.data.unsignedDivisor)
                                     - clz(r.data.unsignedDividend))
  <2>1. (times = 0) \in BOOLEAN /\ (times # 0) = ~(times = 0)
    OBVIOUS
  <2>2. \E data : s = [r EXCEPT !.prepareValid = FALSE,
                                !.loopValid = (times # 0),
                                !.fullAdderValid = (times = 0), !.data = data]
    BY ZenonT(40) DEF prepare
  <2> QED
    BY <2>1, <2>2, Zenon
<1> HIDE DEF s, aligned
<1>3. Holds(s, w)
  BY <1>1, <1>2 DEF Holds, Stages
<1> QED
  BY <1>3 DEF s

LEMMA LoopStage ==
    ASSUME NEW r, NEW w, Only(r, "loopValid"),
           r.robTag = w.tag, r.operationType = w.op
    PROVE  Holds(loop(r), w)
<1> DEFINE s == loop(r)
           turned(last, data) == [r EXCEPT !.loopValid = ~last,
                                           !.fullAdderValid = last,
                                           !.data = data]
<1>1. \A last \in BOOLEAN : \A data :
        /\ Only(turned(last, data),
                IF last THEN "fullAdderValid" ELSE "loopValid")
        /\ turned(last, data).robTag = w.tag
        /\ turned(last, data).operationType = w.op
  BY DEF Only, Fields, Stages
<1>2. \E last \in BOOLEAN : \E data : s = turned(last, data)
  <2> DEFINE times == r.data.loopTimes
  <2>1. (times = 1) \in BOOLEAN /\ (times # 1) = ~(times = 1)
    OBVIOUS
  <2>2. \E data : s = [r EXCEPT !.loopValid = (times # 1),
                                !.fullAdderValid = (times = 1), !.data = data]
    BY Zenon DEF loop
  <2> QED
    BY <2>1, <2>2, Zenon
<1> HIDE DEF s, turned
<1>3. Holds(s, w)
  BY <1>1, <1>2 DEF Holds, Stages
<1> QED
  BY <1>3 DEF s

LEMMA ResultStage ==
    ASSUME NEW r, NEW w, Only(r, "fullAdderValid"),
           r.robTag = w.tag, r.operationType = w.op
    PROVE  Holds(calculateResult(r), w)
<1> DEFINE s == calculateResult(r)
           done(q, rem) == [r EXCEPT !.fullAdderValid = FALSE,
                                     !.resultValid = TRUE,
                                     !.quotient = q, !.remain = rem,
                                     !.data = NoData]
<1>1. \A q, rem :
        /\ Only(done(q, rem), "resultValid")
        /\ done(q, rem).robTag = w.tag
        /\ done(q, rem).operationType = w.op
  BY DEF Only, Fields, Stages
<1>2. \E q, rem : s = done(q, rem)
  BY Zenon DEF calculateResult
<1> HIDE DEF s, done
<1>3. Holds(s, w)
  BY <1>1, <1>2 DEF Holds, Stages
<1> QED
  BY <1>3 DEF s

(* A squash of an older instruction empties the unit, any other leaves it  *)
(* as it is.                                                               *)
LEMMA FlushStage ==
    ASSUME NEW r, NEW tag
    PROVE  IF isOlder(tag, r.robTag) THEN Only(flush(r, tag), "none")
                                     ELSE flush(r, tag) = r
<1>1. DOMAIN Idle = Fields
  BY DEF Idle, Fields, Stages
<1>2. \A g \in Stages : Idle[g] = FALSE
  BY DEF Idle, Stages
<1>3. Only([Idle EXCEPT !.operationType = r.operationType], "none")
  BY <1>1, <1>2 DEF Only, Fields, Stages
<1> QED
  BY <1>3 DEF flush

LEMMA SquashStage ==
    ASSUME NEW r, NEW squash \in Squashes, NEW after,
           after = IF squash = {} THEN r ELSE flush(r, CHOOSE s \in squash : TRUE)
    PROVE  /\ Only(r, "none") => Only(after, "none")
           /\ \A w : Holds(r, w) =>
                IF \E s \in squash : isOlder(s, w.tag) THEN Only(after, "none")
                                                       ELSE after = r
<1>1. CASE squash = {}
  BY <1>1
<1>2. CASE squash # {}
  <2>1. PICK x : squash = {x}
    BY <1>2 DEF Squashes
  <2>2. after = flush(r, x)
    BY <2>1
  <2> QED
    BY <2>1, <2>2, FlushStage DEF Holds
<1> QED
  BY <1>1, <1>2

-----------------------------------------------------------------------------
(* The invariant.                                                          *)

LEMMA DivInvInit == Init => DivInv
<1> SUFFICES ASSUME Init PROVE DivInv
  OBVIOUS
<1>1. DOMAIN Idle = Fields
  BY DEF Idle, Fields, Stages
<1>2. \A g \in Stages : Idle[g] = FALSE
  BY DEF Idle, Stages
<1>3. Only(Idle, "none")
  BY <1>1, <1>2 DEF Only, Stages
<1> QED
  BY <1>3 DEF Init, DivInv

(* What the unit holds at the end of a cycle, before the squash: nothing,  *)
(* or the division that is owed a result.                                  *)
LEMMA DivInvStep == DivInv /\ [Next]_vars => DivInv'
<1> SUFFICES ASSUME DivInv, [Next]_vars PROVE DivInv'
  OBVIOUS
<1>1. CASE UNCHANGED vars
  BY <1>1 DEF vars, DivInv, Holds, Only
<1>2. CASE Next
  <2>1. PICK squash \in Squashes : \E w \in Dispatches(squash) :
          DIVtick(w, squash) /\ JobTick(w, squash)
    BY <1>2 DEF Next
  <2>2. PICK w \in Dispatches(squash) : DIVtick(w, squash) /\ JobTick(w, squash)
    BY <2>1
  <2> DEFINE consumed == IF broadcasts(squash)
                           THEN [div EXCEPT !.resultValid = FALSE,
                                            !.quotient = 0, !.remain = 0]
                           ELSE div
             added == IF div.fullAdderValid THEN calculateResult(consumed)
                                            ELSE consumed
             looped == IF div.loopValid THEN loop(added) ELSE added
             prepared == IF div.prepareValid THEN prepare(looped) ELSE looped
             received == IF w = {} THEN prepared
                         ELSE receive(prepared, CHOOSE e \in w : TRUE)
             discards(t) == \E s \in squash : isOlder(s, t)
             owed == IF w # {} THEN CHOOSE e \in w : TRUE ELSE job
  <2>3. div' = IF squash = {} THEN received
               ELSE flush(received, CHOOSE s \in squash : TRUE)
    BY <2>2 DEF DIVtick
  <2> HIDE DEF received
  <2>4. /\ Only(received, "none") => Only(div', "none")
        /\ \A v : Holds(received, v) =>
             IF discards(v.tag) THEN Only(div', "none") ELSE div' = received
    <3>1. \A after :
            after = (IF squash = {} THEN received
                     ELSE flush(received, CHOOSE s \in squash : TRUE)) =>
              /\ Only(received, "none") => Only(after, "none")
              /\ \A v : Holds(received, v) =>
                   IF \E s \in squash : isOlder(s, v.tag)
                     THEN Only(after, "none") ELSE after = received
      BY SquashStage, Zenon
    <3> QED
      BY <2>3, <3>1
  <2>5. job' = IF w = {} /\ (job = NoJob \/ broadcasts(squash)) THEN NoJob
               ELSE IF discards(owed.tag) THEN NoJob
               ELSE [tag |-> owed.tag, op |-> owed.op, x |-> owed.x, d |-> owed.d,
                     age |-> IF w # {} THEN 1 ELSE job.age + 1]
    BY <2>2 DEF JobTick
  <2>6. \A tag, op, x, d, age :
          [tag |-> tag, op |-> op, x |-> x, d |-> d, age |-> age] # NoJob
    BY DEF NoJob
  (* The squash treats the unit and the history alike.                     *)
  <2>7. ASSUME Holds(received, owed), w # {} \/ (job # NoJob /\ ~broadcasts(squash))
        PROVE  DivInv'
    <3>1. CASE discards(owed.tag)
      BY <2>4, <2>5, <2>7, <3>1 DEF DivInv
    <3>2. CASE ~discards(owed.tag)
      <4>1. div' = received
        BY <2>4, <2>7, <3>2
      <4>2. /\ job' # NoJob
            /\ job'.tag = owed.tag /\ job'.op = owed.op
        BY <2>5, <2>6, <2>7, <3>2
      <4> QED
        BY <2>7, <4>1, <4>2 DEF DivInv, Holds, NoJob, Only
    <3> QED
      BY <3>1, <3>2
  <2>8. ASSUME Only(received, "none"), w = {}, job = NoJob \/ broadcasts(squash)
        PROVE  DivInv'
    <3>1. job' = NoJob /\ Only(div', "none")
      BY <2>4, <2>5, <2>8
    <3> QED
      BY <3>1 DEF DivInv, NoJob, Only
  <2>9. CASE job = NoJob
    <3>1. Only(div, "none")
      BY <2>9 DEF DivInv
    <3>2. /\ ~div.prepareValid /\ ~div.loopValid
          /\ ~div.fullAdderValid /\ ~div.resultValid
      BY <3>1 DEF Only, Stages
    <3>3. prepared = div
      BY <3>2 DEF broadcasts
    <3>4. CASE w = {}
      <4>1. received = div
        BY <3>3, <3>4 DEF received
      <4> QED
        BY <2>8, <2>9, <3>1, <3>4, <4>1
    <3>5. CASE w # {}
      <4>1. received = receive(div, owed)
        BY <3>3, <3>5 DEF received
      <4>2. Holds(received, owed)
        BY <3>1, <4>1, ReceiveStage
      <4> QED
        BY <2>7, <3>5, <4>2
    <3> QED
      BY <3>4, <3>5
  <2>10. CASE job # NoJob
    <3>1. Holds(div, job)
      BY <2>10 DEF DivInv
    <3>2. PICK f \in Stages : Only(div, f)
      BY <3>1 DEF Holds
    <3>3. div.robTag = job.tag /\ div.operationType = job.op
      BY <3>1 DEF Holds
    <3>4. w = {}
      BY <3>2 DEF Dispatches, canAccept, Only, Stages
    <3>5. received = prepared /\ owed = job
      BY <3>4 DEF received
    <3>6. ASSUME Holds(prepared, job), ~broadcasts(squash) PROVE DivInv'
      BY <2>7, <2>10, <3>5, <3>6
    <3>7. CASE f = "prepareValid"
      <4>1. /\ div.prepareValid /\ ~div.loopValid
            /\ ~div.fullAdderValid /\ ~div.resultValid
        BY <3>2, <3>7 DEF Only, Stages
      <4>2. prepared = prepare(div) /\ ~broadcasts(squash)
        BY <4>1 DEF broadcasts
      <4> QED
        BY <3>2, <3>3, <3>6, <3>7, <4>2, PrepareStage
    <3>8. CASE f = "loopValid"
      <4>1. /\ ~div.prepareValid /\ div.loopValid
            /\ ~div.fullAdderValid /\ ~div.resultValid
        BY <3>2, <3>8 DEF Only, Stages
      <4>2. prepared = loop(div) /\ ~broadcasts(squash)
        BY <4>1 DEF broadcasts
      <4> QED
        BY <3>2, <3>3, <3>6, <3>8, <4>2, LoopStage
    <3>9. CASE f = "fullAdderValid"
      <4>1. /\ ~div.prepareValid /\ ~div.loopValid
            /\ div.fullAdderValid /\ ~div.resultValid
        BY <3>2, <3>9 DEF Only, Stages
      <4>2. prepared = calculateResult(div) /\ ~broadcasts(squash)
        BY <4>1 DEF broadcasts
      <4> QED
        BY <3>2, <3>3, <3>6, <3>9, <4>2, ResultStage
    <3>10. CASE f = "resultValid"
      <4>1. /\ ~div.prepareValid /\ ~div.loopValid
            /\ ~div.fullAdderValid /\ div.resultValid
        BY <3>2, <3>10 DEF Only, Stages
      <4>2. prepared = consumed
        BY <4>1
      <4>3. CASE broadcasts(squash)
        <5>1. Only(consumed, "none")
          BY <3>2, <3>10, <4>3 DEF Only, Fields, Stages
        <5> QED
          BY <2>8, <3>4, <3>5, <4>2, <4>3, <5>1
      <4>4. CASE ~broadcasts(squash)
        BY <3>1, <3>6, <4>2, <4>4
      <4> QED
        BY <4>3, <4>4
    <3> QED
      BY <3>7, <3>8, <3>9, <3>10 DEF Stages
  <2> QED
    BY <2>9, <2>10
<1> QED
  BY <1>1, <1>2

LEMMA DivInvariant == Spec => []DivInv
BY DivInvInit, DivInvStep, PTL DEF Spec

-----------------------------------------------------------------------------
(* The property.                                                           *)

(* The divider is occupied, by exactly one stage and under the right tag,  *)
(* as long as an accepted division is neither broadcast nor discarded      *)
(* (DIV::canAccept, DIV::tick, DIV::flush, divCDB::build).                 *)
THEOREM DividerHoldsItsJob == Spec => []OccupiedByJob
<1>1. DivInv => OccupiedByJob
  <2> SUFFICES ASSUME DivInv PROVE OccupiedByJob
    OBVIOUS
  <2> DEFINE stages == {f \in Stages : div[f]}
  <2>1. CASE job = NoJob
    <3>1. stages = {}
      BY <2>1 DEF DivInv, Only, Stages
    <3> QED
      BY <2>1, <3>1 DEF OccupiedByJob, Stages
  <2>2. CASE job # NoJob
    <3>1. PICK f \in Stages : Only(div, f)
      BY <2>2 DEF DivInv, Holds
    <3>2. stages = {f}
      BY <3>1 DEF Only
    <3>3. Cardinality(stages) = 1
      BY <3>2, FS_Singleton
    <3>4. div.robTag = job.tag /\ div.operationType = job.op
      BY <2>2 DEF DivInv, Holds
    <3> QED
      BY <2>2, <3>3, <3>4 DEF OccupiedByJob, Stages
  <2> QED
    BY <2>1, <2>2
<1> QED
  BY <1>1, DivInvariant, PTL

=============================================================================
