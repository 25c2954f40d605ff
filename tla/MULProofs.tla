----------------------------- MODULE MULProofs -----------------------------
(***************************************************************************)
(* The multiplier's pipeline loses no multiplication and repeats none, and *)
(* its output buffer never holds two results, for every word width, every  *)
(* size of the reorder buffer and every output buffer of two slots or      *)
(* more.  What the three stages compute plays no part.                     *)
(***************************************************************************)
EXTENDS MUL, EpochRingLemmas, FiniteSetTheorems

-----------------------------------------------------------------------------
(* The inductive invariant.                                                *)

Single(S) == \A p, q \in S : p = q

tagsOf(S) == {p.tag : p \in S}

(* The registers and one slot of the buffer hold at most one operation     *)
(* each.                                                                   *)
OneEach ==
    /\ Single(partialRes) /\ Single(scRes) /\ Single(results)
    /\ \A i, k \in Slots : outputBuffer[i] # {} /\ outputBuffer[k] # {} => i = k

(* Each multiplication that is owed a result is in exactly one stage.      *)
StagesPartition ==
    /\ tagsOf(partialRes) \cup tagsOf(scRes) \cup tagsOf(results) = inFlight
    /\ tagsOf(partialRes) \cap tagsOf(scRes) = {}
    /\ tagsOf(partialRes) \cap tagsOf(results) = {}
    /\ tagsOf(scRes) \cap tagsOf(results) = {}

(* The multiplications that are owed a result are told apart by their      *)
(* tags, and live in the reorder buffer together.                          *)
JobsDistinct ==
    /\ \A j, k \in jobs : j.tag = k.tag => j = k
    /\ inFlight \subseteq RobTags
    /\ inOneWindow(inFlight)

MulInv == OneEach /\ StagesPartition /\ JobsDistinct

-----------------------------------------------------------------------------
(* Ages.                                                                   *)

(* In one window of the reorder buffer, of two tags one is older.          *)
LEMMA WindowOrder ==
    ASSUME NEW T \in SUBSET RobTags, inOneWindow(T), NEW a \in T, NEW b \in T
    PROVE  /\ a # b => (isOlder(a, b) <=> ~isOlder(b, a))
           /\ ~isOlder(a, a)
<1>1. PICK h \in RobTags :
        \A t \in T : RingDistance(h, t, RobCap, RobSpan) < RobCap
  BY DEF inOneWindow
<1>2. /\ RobCap \in Nat /\ RobSpan \in Nat /\ RobCap >= 2 /\ RobCap <= RobSpan
      /\ h \in Codes(RobCap, RobSpan)
      /\ a \in Codes(RobCap, RobSpan) /\ b \in Codes(RobCap, RobSpan)
  BY MulAssumption DEF RobTags
<1> DEFINE da == RingDistance(h, a, RobCap, RobSpan)
           db == RingDistance(h, b, RobCap, RobSpan)
<1>3. da < RobCap /\ db < RobCap
  BY <1>1
<1>4. da \in Int /\ db \in Int /\ (da = db => a = b)
  BY <1>2, DistanceRange, DistanceInjective
<1>5. /\ isOlder(a, b) <=> da < db
      /\ isOlder(b, a) <=> db < da
      /\ isOlder(a, a) <=> da < da
  BY <1>2, <1>3, OlderIsCloser DEF isOlder
<1> QED
  BY <1>4, <1>5

(* The squash gate: of the multiplications in the unit or on their way     *)
(* into it, a squash lets pass exactly those that it does not discard.     *)
LEMMA Gate ==
    ASSUME MulInv, NEW squash \in Squashes, NEW w \in Dispatches(squash),
           NEW t \in inFlight \cup tagsOf(w)
    PROVE  passes(t, squash) <=> \A s \in squash : ~isOlder(s, t)
<1>1. CASE squash = {}
  BY <1>1 DEF passes
<1>2. CASE squash # {}
  <2>1. PICK s \in RobTags \ inFlight :
          squash = {s} /\ inOneWindow(inFlight \cup {s})
    BY <1>2 DEF Squashes
  <2>2. CASE t \in inFlight
    <3>1. inFlight \cup {s} \in SUBSET RobTags /\ t # s
      BY <2>1, <2>2 DEF MulInv, JobsDistinct
    <3> QED
      BY <2>1, <2>2, <3>1, WindowOrder DEF passes
  <2>3. CASE t \notin inFlight
    <3>1. PICK v \in Work :
            /\ w = {v} /\ passes(v.tag, squash)
            /\ inOneWindow(inFlight \cup {v.tag} \cup squash)
      BY <2>3 DEF Dispatches, tagsOf
    <3>2. t = v.tag
      BY <2>3, <3>1 DEF tagsOf
    <3>3. v.tag \in RobTags
      BY MulAssumption DEF Products
    <3>4. isOlder(t, s)
      BY <2>1, <3>1, <3>2 DEF passes
    <3>5. inFlight \cup {v.tag} \cup squash \in SUBSET RobTags
      BY <2>1, <3>3 DEF MulInv, JobsDistinct
    <3>6. ~isOlder(s, t)
      BY <2>1, <3>1, <3>2, <3>4, <3>5, WindowOrder
    <3> QED
      BY <2>1, <3>1, <3>2, <3>6
  <2> QED
    BY <2>2, <2>3
<1> QED
  BY <1>1, <1>2

-----------------------------------------------------------------------------
(* The stages after a cycle.                                               *)

(* A result that the bus does not take is younger than the squash target,  *)
(* so that the buffer ends the cycle without any older result in it.       *)
LEMMA ResultsLeave ==
    ASSUME MulInv, NEW squash \in Squashes, NEW r \in results
    PROVE  r \in broadcast(squash) <=> passes(r.tag, squash)
<1>1. r.tag \in inFlight
  BY DEF MulInv, StagesPartition, tagsOf
<1>2. inFlight \in SUBSET RobTags /\ inOneWindow(inFlight)
  BY DEF MulInv, JobsDistinct
<1>3. ~isOlder(r.tag, r.tag)
  BY <1>1, <1>2, WindowOrder
<1>4. \A q \in results : q = r
  BY DEF MulInv, OneEach, Single
<1> QED
  BY <1>3, <1>4 DEF broadcast

(* A slot is free for the product of the adder: slot 0 or slot 1.          *)
LEMMA FreeSlot ==
    ASSUME MulInv, NEW cdb,
           NEW free, free = {i \in Slots : removed(outputBuffer, cdb)[i] = {}}
    PROVE  free # {} /\ Min(free) \in free
<1>1. 0 \in Slots /\ 1 \in Slots /\ 0 # 1
  BY MulAssumption DEF Slots
<1>2. \A i \in Slots : outputBuffer[i] = {} => i \in free
  BY DEF removed
<1>3. 0 \in free \/ 1 \in free
  BY <1>1, <1>2 DEF MulInv, OneEach
<1>4. free \subseteq Nat
  BY MulAssumption DEF Slots
<1>5. CASE 0 \in free
  <2>1. \A y \in free : 0 <= y
    BY <1>4
  <2>2. \A x \in free : (\A y \in free : x <= y) => x = 0
    BY <1>4, <1>5
  <2> QED
    BY <1>5, <2>1 DEF Min
<1>6. CASE 0 \notin free
  <2>1. 1 \in free
    BY <1>3, <1>6
  <2>2. \A y \in free : 1 <= y
    BY <1>4, <1>6
  <2> QED
    BY <2>1, <2>2 DEF Min
<1> QED
  BY <1>5, <1>6

(* The buffer ends a cycle with the product of the adder, if the squash    *)
(* lets it pass, and with nothing else.                                    *)
LEMMA BufferStep ==
    ASSUME MulInv, NEW squash \in Squashes, NEW w \in Dispatches(squash),
           MULtick(w, squash)
    PROVE  /\ Single(results')
           /\ \A i, k \in Slots :
                outputBuffer'[i] # {} /\ outputBuffer'[k] # {} => i = k
           /\ tagsOf(results') = {t \in tagsOf(scRes) : passes(t, squash)}
<1> DEFINE buffer == removed(outputBuffer, broadcast(squash))
           free == {i \in Slots : buffer[i] = {}}
           value(p) == [tag |-> p.tag, value |-> productHalf(p.op, p.SC)]
           new == {value(p) : p \in scRes}
           after == stored(buffer, scRes)
<1>1. free # {} /\ Min(free) \in free
  BY FreeSlot
<1>2. \A i \in Slots : \A r \in buffer[i] : ~passes(r.tag, squash)
  <2> SUFFICES ASSUME NEW i \in Slots, NEW r \in buffer[i]
               PROVE  ~passes(r.tag, squash)
    OBVIOUS
  <2>1. /\ r \in outputBuffer[i]
        /\ \A b \in broadcast(squash) : b.tag # r.tag
    BY DEF removed
  <2>2. r \in results
    BY <2>1 DEF results
  <2> QED
    BY <2>1, <2>2, ResultsLeave
<1>3. after = IF scRes = {} THEN buffer ELSE [buffer EXCEPT ![Min(free)] = new]
  BY <1>1 DEF stored
<1>4. buffer = [i \in Slots |-> buffer[i]]
  BY DEF removed
<1>5. outputBuffer' =
        [i \in Slots |-> {r \in after[i] : passes(r.tag, squash)}]
  BY DEF MULtick, keptBuffer
<1> DEFINE f == Min(free)
<1>6. f \in Slots
  BY <1>1
<1> HIDE DEF buffer, free, new, after, f
<1>7. \A i \in Slots : after[i] = IF scRes # {} /\ i = f THEN new ELSE buffer[i]
  BY <1>3, <1>4 DEF f
<1>8. \A i \in Slots : outputBuffer'[i] =
        IF scRes # {} /\ i = f THEN {r \in new : passes(r.tag, squash)} ELSE {}
  BY <1>2, <1>5, <1>7
<1>9. results' = {r \in new : passes(r.tag, squash)}
  <2>1. scRes = {} => new = {}
    BY DEF new
  <2>2. results' = UNION {outputBuffer'[i] : i \in Slots}
    BY DEF results, Slots
  <2> QED
    BY <1>6, <1>8, <2>1, <2>2, ZenonT(40)
<1>10. Single(new)
  BY DEF new, MulInv, OneEach, Single
<1>11. tagsOf(results') = {t \in tagsOf(scRes) : passes(t, squash)}
  <2>1. \A p \in scRes : value(p) \in new /\ value(p).tag = p.tag
    BY DEF new
  <2>2. \A r \in new : \E p \in scRes : r.tag = p.tag
    BY DEF new
  <2> HIDE DEF value
  <2>3. \A t : t \in tagsOf(results')
               <=> \E r \in new : passes(r.tag, squash) /\ t = r.tag
    BY <1>9 DEF tagsOf
  <2>4. \A t : t \in tagsOf(scRes) <=> \E p \in scRes : t = p.tag
    BY DEF tagsOf
  <2> QED
    BY <2>1, <2>2, <2>3, <2>4
<1> QED
  BY <1>8, <1>9, <1>10, <1>11 DEF Single

(* Each other stage takes over what the stage before it held, less what    *)
(* the squash discards.                                                    *)
LEMMA StageStep ==
    ASSUME MulInv, NEW squash \in Squashes, NEW w \in Dispatches(squash),
           MULtick(w, squash)
    PROVE  /\ Single(partialRes') /\ Single(scRes')
           /\ tagsOf(scRes') = {t \in tagsOf(partialRes) :
                                  \A s \in squash : ~isOlder(s, t)}
           /\ tagsOf(partialRes') = {t \in tagsOf(w) :
                                       \A s \in squash : ~isOlder(s, t)}
<1>1. Single(w)
  BY DEF Dispatches, Single
<1>2. Single(partialRes)
  BY DEF MulInv, OneEach
<1>3. scRes' = {q \in {[tag |-> p.tag, op |-> p.op, SC |-> calculateSC(p.rows)] :
                         p \in partialRes} : \A s \in squash : ~isOlder(s, q.tag)}
  BY DEF MULtick, keptStage
<1>4. partialRes' =
        {q \in {[tag |-> e.tag, op |-> e.op, rows |-> calculateBooth(e)] :
                  e \in w} : \A s \in squash : ~isOlder(s, q.tag)}
  BY DEF MULtick, keptStage
<1>5. Single(partialRes') /\ Single(scRes')
  BY <1>1, <1>2, <1>3, <1>4 DEF Single
<1>6. tagsOf(scRes') = {t \in tagsOf(partialRes) :
                          \A s \in squash : ~isOlder(s, t)}
  <2> DEFINE moved(p) == [tag |-> p.tag, op |-> p.op, SC |-> calculateSC(p.rows)]
             all == {moved(p) : p \in partialRes}
  <2>1. \A p \in partialRes : moved(p) \in all /\ moved(p).tag = p.tag
    OBVIOUS
  <2>2. \A q \in all : \E p \in partialRes : q.tag = p.tag
    OBVIOUS
  <2> HIDE DEF moved, all
  <2>3. \A t : t \in tagsOf(scRes')
               <=> \E q \in all : (\A s \in squash : ~isOlder(s, q.tag)) /\ t = q.tag
    BY <1>3 DEF tagsOf, all, moved
  <2>4. \A t : t \in tagsOf(partialRes) <=> \E p \in partialRes : t = p.tag
    BY DEF tagsOf
  <2> QED
    BY <2>1, <2>2, <2>3, <2>4
<1>7. tagsOf(partialRes') = {t \in tagsOf(w) :
                               \A s \in squash : ~isOlder(s, t)}
  <2> DEFINE moved(e) == [tag |-> e.tag, op |-> e.op, rows |-> calculateBooth(e)]
             all == {moved(e) : e \in w}
  <2>1. \A e \in w : moved(e) \in all /\ moved(e).tag = e.tag
    OBVIOUS
  <2>2. \A q \in all : \E e \in w : q.tag = e.tag
    OBVIOUS
  <2> HIDE DEF moved, all
  <2>3. \A t : t \in tagsOf(partialRes')
               <=> \E q \in all : (\A s \in squash : ~isOlder(s, q.tag)) /\ t = q.tag
    BY <1>4 DEF tagsOf, all, moved
  <2>4. \A t : t \in tagsOf(w) <=> \E e \in w : t = e.tag
    BY DEF tagsOf
  <2> QED
    BY <2>1, <2>2, <2>3, <2>4
<1> QED
  BY <1>5, <1>6, <1>7

(* The multiplications that are still owed a result.                       *)
LEMMA JobsStep ==
    ASSUME MulInv, NEW squash \in Squashes, NEW w \in Dispatches(squash),
           JobTick(w, squash)
    PROVE  /\ jobs' \subseteq jobs \cup w
           /\ inFlight' = {t \in (inFlight \ tagsOf(results)) \cup tagsOf(w) :
                             \A s \in squash : ~isOlder(s, t)}
<1> DEFINE kept(t) == \A s \in squash : ~isOlder(s, t)
<1>1. jobs' = {j \in jobs \cup w :
                 (\A b \in broadcast(squash) : b.tag # j.tag) /\ kept(j.tag)}
  BY DEF JobTick
<1>2. inFlight' = {j.tag : j \in jobs'}
  BY DEF inFlight
<1>3. \A t \in tagsOf(w) : t \notin inFlight
  BY DEF Dispatches, tagsOf
<1>4. \A b \in broadcast(squash) : b \in results /\ b.tag \in tagsOf(results)
  BY DEF broadcast, tagsOf
<1>5. tagsOf(results) \subseteq inFlight
  BY DEF MulInv, StagesPartition
<1>6. ASSUME NEW t \in inFlight \cup tagsOf(w), kept(t)
      PROVE  (\A b \in broadcast(squash) : b.tag # t) <=> t \notin tagsOf(results)
  <2>1. CASE t \in tagsOf(results)
    <3>1. PICK r \in results : r.tag = t
      BY <2>1 DEF tagsOf
    <3>2. passes(t, squash)
      BY <1>5, <1>6, <2>1, Gate
    <3> QED
      BY <2>1, <3>1, <3>2, ResultsLeave
  <2>2. CASE t \notin tagsOf(results)
    BY <1>4, <2>2
  <2> QED
    BY <2>1, <2>2
<1>7. \A t : t \in inFlight' <=>
        /\ t \in inFlight \cup tagsOf(w)
        /\ \A b \in broadcast(squash) : b.tag # t
        /\ kept(t)
  BY <1>1, <1>2 DEF inFlight, tagsOf
<1> HIDE DEF kept
<1>8. \A t : t \in inFlight' <=>
        t \in (inFlight \ tagsOf(results)) \cup tagsOf(w) /\ kept(t)
  BY <1>3, <1>5, <1>6, <1>7
<1> QED
  BY <1>1, <1>8 DEF kept

-----------------------------------------------------------------------------
(* The invariant.                                                          *)

LEMMA MulInvInit == Init => MulInv
<1> SUFFICES ASSUME Init PROVE MulInv
  OBVIOUS
<1>1. results = {} /\ inFlight = {}
  BY DEF Init, results, inFlight
<1>2. 0 \in RobTags
  BY MulAssumption DEF RobTags, Codes, SlotOf
<1>3. inOneWindow({})
  BY <1>2 DEF inOneWindow
<1> QED
  BY <1>1, <1>3
  DEF Init, MulInv, OneEach, StagesPartition, JobsDistinct, Single, tagsOf

(* The multiplication that enters the unit lives in the reorder buffer     *)
(* with those in it, and has a tag of its own.                             *)
LEMMA NewJob ==
    ASSUME MulInv, NEW squash \in Squashes, NEW w \in Dispatches(squash)
    PROVE  /\ Single(w)
           /\ inFlight \cap tagsOf(w) = {}
           /\ inFlight \cup tagsOf(w) \subseteq RobTags
           /\ inOneWindow(inFlight \cup tagsOf(w))
<1>1. CASE w = {}
  <2>1. tagsOf(w) = {}
    BY <1>1 DEF tagsOf
  <2> QED
    BY <1>1, <2>1 DEF MulInv, JobsDistinct, Single
<1>2. CASE w # {}
  <2>1. PICK v \in Work :
          /\ w = {v} /\ v.tag \notin inFlight
          /\ inOneWindow(inFlight \cup {v.tag} \cup squash)
    BY <1>2 DEF Dispatches
  <2>2. tagsOf(w) = {v.tag}
    BY <2>1 DEF tagsOf
  <2>3. v.tag \in RobTags
    BY MulAssumption DEF Products
  <2>4. inOneWindow(inFlight \cup {v.tag})
    BY <2>1 DEF inOneWindow
  <2> QED
    BY <2>1, <2>2, <2>3, <2>4 DEF MulInv, JobsDistinct, Single
<1> QED
  BY <1>1, <1>2

LEMMA MulInvStep == MulInv /\ [Next]_vars => MulInv'
<1> SUFFICES ASSUME MulInv, [Next]_vars PROVE MulInv'
  OBVIOUS
<1>1. CASE UNCHANGED vars
  <2>1. /\ UNCHANGED <<partialRes, scRes, outputBuffer, jobs>>
        /\ results' = results /\ inFlight' = inFlight
    BY <1>1 DEF vars, results, inFlight, Slots
  <2>2. OneEach'
    BY <2>1 DEF MulInv, OneEach, Single, Slots
  <2>3. StagesPartition'
    BY <2>1 DEF MulInv, StagesPartition, tagsOf
  <2>4. JobsDistinct'
    BY <2>1 DEF MulInv, JobsDistinct, inOneWindow
  <2> QED
    BY <2>2, <2>3, <2>4 DEF MulInv
<1>2. CASE Next
  <2>1. PICK squash \in Squashes : \E w \in Dispatches(squash) :
          MULtick(w, squash) /\ JobTick(w, squash)
    BY <1>2 DEF Next
  <2>2. PICK w \in Dispatches(squash) : MULtick(w, squash) /\ JobTick(w, squash)
    BY <2>1
  <2> DEFINE kept(t) == \A s \in squash : ~isOlder(s, t)
             P == tagsOf(partialRes)
             S == tagsOf(scRes)
             R == tagsOf(results)
             N == tagsOf(w)
  <2>3. OneEach'
    BY <2>2, BufferStep, StageStep DEF OneEach, Single, Slots, results
  <2>4. /\ P \cup S \cup R = inFlight
        /\ P \cap S = {} /\ P \cap R = {} /\ S \cap R = {}
    BY DEF MulInv, StagesPartition
  <2>5. /\ inFlight \cap N = {}
        /\ inFlight \cup N \subseteq RobTags
        /\ inOneWindow(inFlight \cup N)
        /\ Single(w)
    BY NewJob
  <2>6. /\ tagsOf(partialRes') = {t \in N : kept(t)}
        /\ tagsOf(scRes') = {t \in P : kept(t)}
    BY <2>2, StageStep
  <2>7. tagsOf(results') = {t \in S : kept(t)}
    <3>1. tagsOf(results') = {t \in S : passes(t, squash)}
      BY <2>2, BufferStep
    <3>2. \A t \in S : passes(t, squash) <=> kept(t)
      BY <2>4, Gate
    <3> QED
      BY <3>1, <3>2
  <2>8. inFlight' = {t \in (inFlight \ R) \cup N : kept(t)}
    BY <2>2, JobsStep
  <2>9. StagesPartition'
    <3>1. /\ tagsOf(partialRes)' = tagsOf(partialRes')
          /\ tagsOf(scRes)' = tagsOf(scRes')
          /\ tagsOf(results)' = tagsOf(results')
      BY DEF tagsOf, results, Slots
    <3> HIDE DEF kept, P, S, R, N
    <3>2. /\ {t \in N : kept(t)} \cup {t \in P : kept(t)} \cup {t \in S : kept(t)}
               = {t \in (inFlight \ R) \cup N : kept(t)}
          /\ {t \in N : kept(t)} \cap {t \in P : kept(t)} = {}
          /\ {t \in N : kept(t)} \cap {t \in S : kept(t)} = {}
          /\ {t \in P : kept(t)} \cap {t \in S : kept(t)} = {}
      BY <2>4, <2>5
    <3> QED
      BY <2>6, <2>7, <2>8, <3>1, <3>2 DEF StagesPartition
  <2>10. JobsDistinct'
    <3>1. jobs' \subseteq jobs \cup w
      BY <2>2, JobsStep
    <3>2. \A j, k \in jobs \cup w : j.tag = k.tag => j = k
      <4>1. \A j \in jobs : j.tag \in inFlight
        BY DEF inFlight
      <4>2. \A j \in w : j.tag \in N
        BY DEF tagsOf
      <4>3. \A j, k \in jobs : j.tag = k.tag => j = k
        BY DEF MulInv, JobsDistinct
      <4> QED
        BY <2>5, <4>1, <4>2, <4>3 DEF Single
    <3>3. inFlight' \subseteq inFlight \cup N
      BY <2>8
    <3>4. \A T : inOneWindow(T)' <=> inOneWindow(T)
      BY DEF inOneWindow
    <3>5. (\E h \in RobTags : \A t \in inFlight' :
             RingDistance(h, t, RobCap, RobSpan) < RobCap)
      BY <2>5, <3>3 DEF inOneWindow
    <3> QED
      BY <2>5, <3>1, <3>2, <3>3, <3>5 DEF JobsDistinct, inOneWindow
  <2> QED
    BY <2>3, <2>9, <2>10 DEF MulInv
<1> QED
  BY <1>1, <1>2

LEMMA MulInvariant == Spec => []MulInv
BY MulInvInit, MulInvStep, PTL DEF Spec

-----------------------------------------------------------------------------
(* The properties.                                                         *)

(* At most one element, and at most one tag.                               *)
LEMMA SingleCount ==
    ASSUME NEW S, Single(S)
    PROVE  /\ IsFiniteSet(S) /\ Cardinality(S) \in {0, 1}
           /\ IsFiniteSet(tagsOf(S)) /\ Cardinality(tagsOf(S)) = Cardinality(S)
<1>1. CASE S = {}
  <2>1. tagsOf(S) = {}
    BY <1>1 DEF tagsOf
  <2> QED
    BY <1>1, <2>1, FS_EmptySet
<1>2. CASE S # {}
  <2>1. PICK x : S = {x}
    BY <1>2 DEF Single
  <2>2. tagsOf(S) = {x.tag}
    BY <2>1 DEF tagsOf
  <2> QED
    BY <2>1, <2>2, FS_Singleton
<1> QED
  BY <1>1, <1>2

(* The occupied slots are as many as the results.                          *)
LEMMA OccupiedCount ==
    ASSUME MulInv
    PROVE  Cardinality({i \in Slots : outputBuffer[i] # {}}) = Cardinality(results)
<1> DEFINE occupied == {i \in Slots : outputBuffer[i] # {}}
<1>1. CASE results = {}
  <2>1. occupied = {}
    BY <1>1 DEF results
  <2> QED
    BY <1>1, <2>1
<1>2. CASE results # {}
  <2>1. PICK r \in results : results = {r}
    <3>1. PICK r : r \in results
      BY <1>2
    <3> QED
      BY <3>1 DEF MulInv, OneEach, Single
  <2>2. PICK i \in Slots : r \in outputBuffer[i]
    BY <2>1 DEF results
  <2>3. occupied = {i}
    BY <2>2 DEF MulInv, OneEach
  <2> QED
    BY <2>1, <2>3, FS_Singleton
<1> QED
  BY <1>1, <1>2

(* The multiplications that are owed a result are as many as their tags.   *)
LEMMA JobCount ==
    ASSUME MulInv, IsFiniteSet(inFlight)
    PROVE  Cardinality(jobs) = Cardinality(inFlight)
<1> DEFINE f == [j \in jobs |-> j.tag]
<1>1. f \in [jobs -> inFlight] /\ \A j \in jobs : f[j] = j.tag
  BY DEF inFlight
<1>2. f \in Injection(jobs, inFlight)
  BY <1>1 DEF Injection, IsInjective, MulInv, JobsDistinct
<1>3. f \in Surjection(jobs, inFlight)
  BY <1>1 DEF Surjection, inFlight
<1> QED
  BY <1>2, <1>3, FS_Injection

(* The pipeline holds exactly the multiplications that are owed a result,  *)
(* each once (MUL::tick, MUL::flush, MUL::remove): nothing is lost in a    *)
(* squash cycle or for want of a slot, and nothing is broadcast twice.     *)
THEOREM PipelineHoldsJobs == Spec => []HoldsExactlyTheJobs
<1>1. MulInv => HoldsExactlyTheJobs
  <2> SUFFICES ASSUME MulInv PROVE HoldsExactlyTheJobs
    OBVIOUS
  <2> DEFINE P == tagsOf(partialRes)
             S == tagsOf(scRes)
             R == tagsOf(results)
  <2>1. /\ P \cup S \cup R = inFlight
        /\ P \cap S = {} /\ P \cap R = {} /\ S \cap R = {}
    BY DEF MulInv, StagesPartition
  <2>2. {p.tag : p \in partialRes \cup scRes} \cup {r.tag : r \in results}
          = inFlight
    BY <2>1 DEF tagsOf
  <2>3. /\ IsFiniteSet(P) /\ Cardinality(P) = Cardinality(partialRes)
        /\ IsFiniteSet(S) /\ Cardinality(S) = Cardinality(scRes)
        /\ IsFiniteSet(R) /\ Cardinality(R) = Cardinality(results)
        /\ Cardinality(P) \in Nat /\ Cardinality(S) \in Nat
        /\ Cardinality(R) \in Nat
    BY SingleCount DEF MulInv, OneEach
  <2> HIDE DEF P, S, R
  <2>4. /\ IsFiniteSet(P \cup S)
        /\ Cardinality(P \cup S) = Cardinality(P) + Cardinality(S)
    <3>1. Cardinality(P \cap S) = 0
      BY <2>1, FS_EmptySet
    <3>2. /\ IsFiniteSet(P \cup S)
          /\ Cardinality(P \cup S)
               = Cardinality(P) + Cardinality(S) - Cardinality(P \cap S)
      BY <2>3, FS_Union
    <3> QED
      BY <2>3, <3>1, <3>2
  <2>5. Cardinality((P \cup S) \cap R) = 0
    <3>1. (P \cup S) \cap R = {}
      BY <2>1
    <3> QED
      BY <3>1, FS_EmptySet
  <2>6. /\ IsFiniteSet(inFlight)
        /\ Cardinality(inFlight)
             = Cardinality(P) + Cardinality(S) + Cardinality(R)
    <3>1. /\ IsFiniteSet((P \cup S) \cup R)
          /\ Cardinality((P \cup S) \cup R)
               = Cardinality(P \cup S) + Cardinality(R)
                   - Cardinality((P \cup S) \cap R)
      BY <2>3, <2>4, FS_Union
    <3>2. (P \cup S) \cup R = inFlight
      BY <2>1
    <3>4. /\ IsFiniteSet(inFlight)
          /\ Cardinality(inFlight)
               = Cardinality(P \cup S) + Cardinality(R)
                   - Cardinality((P \cup S) \cap R)
      BY <3>1, <3>2, Zenon
    <3>5. Cardinality(P) + Cardinality(S) + Cardinality(R) - 0
            = Cardinality(P) + Cardinality(S) + Cardinality(R)
      BY <2>3
    <3> QED
      BY <2>4, <2>5, <3>4, <3>5, Zenon
  <2> QED
    BY <2>2, <2>3, <2>6, OccupiedCount, JobCount DEF HoldsExactlyTheJobs
<1> QED
  BY <1>1, MulInvariant, PTL

(* The output buffer never holds two results, so that a buffer of two      *)
(* slots already gives the adder a free one (the assertion in              *)
(* MUL::calculateMulRes, whose comment asks for more than three).          *)
THEOREM OutputBufferDrains == Spec => []NeverTwoResults
<1>1. MulInv => NeverTwoResults
  BY OccupiedCount, SingleCount DEF MulInv, OneEach, NeverTwoResults
<1> QED
  BY <1>1, MulInvariant, PTL

=============================================================================
