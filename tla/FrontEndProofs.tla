-------------------------- MODULE FrontEndProofs ---------------------------
(***************************************************************************)
(* The front end's invariants, for every size of its queues and rings,     *)
(* every code and every bound on squashes and fetches.                     *)
(***************************************************************************)
EXTENDS FrontEnd, SequenceTheorems, FiniteSetTheorems, WellFoundedInduction,
        TLAPS

-----------------------------------------------------------------------------
(* The inductive invariant.                                                *)

(* A history.                                                              *)
History == [0 .. HistLen - 1 -> Bits]

Counters == 0 .. CounterSpan - 1

RasEntry == [retPC : DOMAIN code, times : Counters]

Checkpoint == [GHR : History, alignTail : Counters, RAS_top : Counters]

Entry ==
    [pc : DOMAIN code, predictPC : DOMAIN code, ckptId : CkptIds,
     raw_inst : Int, valid : BOOLEAN, open : BOOLEAN, ghr : History,
     stack : Seq(RasEntry)]

PredictorTypes ==
    /\ GHR \in History
    /\ nextCkptId \in CkptIds
    /\ bpCkpt \in [CkptIds -> Checkpoint]
    /\ RAS \in [0 .. RasCap - 1 -> RasEntry]
    /\ RAS_top \in Counters
    /\ alignQueue \in [0 .. AlignCap - 1 ->
                         [index : 0 .. RasCap - 1, entry : RasEntry]]
    /\ alignTail \in Counters

QueueTypes ==
    /\ requestBuffer \in Seq(Entry) /\ Len(requestBuffer) <= ReqCap
    /\ fq \in Seq(Entry) /\ Len(fq) <= FqCap - 1
    /\ iq \in Seq(Entry) /\ Len(iq) <= IqCap - 1
    /\ rob \in Seq(Entry) /\ Len(rob) <= RobCap
    /\ IMEMreqs \in Seq([line : Nat, remain : Nat])
    /\ blocks \in [0 .. NumBlocks - 1 -> Int]

FetchTypes ==
    /\ code \in Codes
    /\ programCounter \in DOMAIN code
    /\ haltFetched \in BOOLEAN /\ lost \in BOOLEAN /\ halted \in BOOLEAN
    /\ pushCache \in [valid : BOOLEAN, raw_inst : Int, pc : DOMAIN code]

(* The instructions in the machine have consecutive checkpoint ids, the    *)
(* youngest the one before the next id.                                    *)
IdsConsecutive ==
    \A i \in DOMAIN liveEntries :
      liveEntries[i].ckptId + (Len(liveEntries) + 1 - i)
        \in {nextCkptId, nextCkptId + CkptCap}

(* The checkpoint of an instruction has the history of its fetch.          *)
HistoryKept ==
    \A i \in DOMAIN liveEntries :
      bpCkpt[liveEntries[i].ckptId].GHR = liveEntries[i].ghr

FoldsRight == fh = [v \in Views |-> refoldView(GHR, v)]

(* Each instruction is the one its predecessor's prediction names.         *)
Chained ==
    \A i \in DOMAIN liveEntries :
      liveEntries[i].predictPC =
        IF i < Len(liveEntries) THEN liveEntries[i + 1].pc ELSE programCounter

(* Whoever has a word has its own.                                         *)
WordsRight ==
    \A i \in DOMAIN liveEntries :
      liveEntries[i].valid => liveEntries[i].raw_inst = liveEntries[i].pc

(* The instructions the cache no longer has.                               *)
Front == (rob \o iq) \o fq

(* The end of fetching is behind a halt marker.                            *)
HaltSeen ==
    haltFetched /\ ~halted =>
      \E i \in DOMAIN liveEntries :
        isHalt(liveEntries[i]) /\ i <= Len(Front) + 1

(* Line requests and placeholders correspond.                              *)
Matched ==
    /\ Len(IMEMreqs) = Cardinality(waiting)
    /\ \A i \in waiting : IMEMreqs[turn(i)].line = lineOf(requestBuffer[i].pc)

(* Behind the halt marker the head of the cache may keep its word for      *)
(* ever, and lines pass it by.                                             *)
LinesMatched ==
    lost \/ Matched \/ (haltFetched /\ isReturnReady)

(* The instruction stream of the machine.                                  *)
StreamInv ==
    /\ IdsConsecutive
    /\ HistoryKept
    /\ Chained
    /\ lost \/ WordsRight
    /\ HaltSeen
    /\ LinesMatched

-----------------------------------------------------------------------------
(* Counters that wrap.                                                     *)

(* Quotient and remainder are unique.                                      *)
LEMMA DivisionUnique ==
    ASSUME NEW w \in Nat \ {0}, NEW k \in Int, NEW q \in Int, NEW r \in 0 .. w - 1,
           k = w * q + r
    PROVE  k % w = r
<1> DEFINE p == k \div w
           s == k % w
<1>1. p \in Int /\ s \in 0 .. w - 1 /\ k = w * p + s
  OBVIOUS
<1> HIDE DEF p, s
<1>2. \A d \in Nat : w * (d + 1) >= w
  OBVIOUS
<1>3. w * (p - q) = r - s
  <2>1. w * (p - q) = w * p - w * q
    BY <1>1
  <2> QED BY <1>1, <2>1
<1>4. ~(p - q >= 1)
  <2> SUFFICES ASSUME p - q >= 1 PROVE FALSE
    OBVIOUS
  <2>1. p - q - 1 \in Nat /\ p - q = (p - q - 1) + 1
    BY <1>1
  <2> QED BY <2>1, <1>1, <1>2, <1>3
<1>5. ~(q - p >= 1)
  <2> SUFFICES ASSUME q - p >= 1 PROVE FALSE
    OBVIOUS
  <2>1. q - p - 1 \in Nat /\ q - p = (q - p - 1) + 1
    BY <1>1
  <2>2. w * (q - p) = s - r
    BY <1>1, <1>3
  <2> QED BY <2>1, <2>2, <1>1, <1>2
<1> QED BY <1>1, <1>3, <1>4, <1>5 DEF s

(* Counting up by one steps the remainder, or returns it to zero.          *)
LEMMA NextRemainder ==
    ASSUME NEW w \in Nat \ {0}, NEW k \in Nat
    PROVE  /\ k % w \in 0 .. w - 1
           /\ (k + 1) % w = IF k % w = w - 1 THEN 0 ELSE (k % w) + 1
<1> DEFINE q == k \div w
           r == k % w
<1>1. q \in Nat /\ r \in 0 .. w - 1 /\ k = w * q + r
  OBVIOUS
<1>2. ASSUME r = w - 1 PROVE (k + 1) % w = 0
  <2>1. k + 1 = w * (q + 1) + 0
    BY <1>1, <1>2
  <2> HIDE DEF q, r
  <2> QED BY <2>1, <1>1, DivisionUnique
<1>3. ASSUME r # w - 1 PROVE (k + 1) % w = r + 1
  <2>1. k + 1 = w * q + (r + 1) /\ r + 1 \in 0 .. w - 1
    BY <1>1, <1>3
  <2> HIDE DEF q, r
  <2> QED BY <2>1, <1>1, DivisionUnique
<1> QED BY <1>1, <1>2, <1>3

(* A multiple of the divisor does not matter.                              *)
LEMMA RemainderShift ==
    ASSUME NEW w \in Nat \ {0}, NEW k \in Int, NEW j \in Int
    PROVE  (k + w * j) % w = k % w
<1> DEFINE q == k \div w
           r == k % w
<1>1. q \in Int /\ r \in 0 .. w - 1 /\ k = w * q + r
  OBVIOUS
<1> HIDE DEF q, r
<1>2. k + w * j = w * (q + j) + r
  BY <1>1
<1>3. (k + w * j) % w = r
  BY <1>1, <1>2, DivisionUnique
<1> QED BY <1>3 DEF r

(* A remainder of a multiple of the divisor keeps the remainder.           *)
LEMMA RemainderOfRemainder ==
    ASSUME NEW w \in Nat \ {0}, NEW m \in Nat \ {0}, m % w = 0, NEW k \in Int
    PROVE  (k % m) % w = k % w
<1> DEFINE c == m \div w
           q == k \div m
           r == k % m
<1>1. c \in Int /\ m = w * c
  OBVIOUS
<1>2. q \in Int /\ r \in Int /\ k = m * q + r
  OBVIOUS
<1> HIDE DEF c, q, r
<1>3. k = r + w * (c * q) /\ c * q \in Int
  <2>1. m * q = w * (c * q)
    BY <1>1, <1>2
  <2> QED BY <1>1, <1>2, <2>1
<1>4. k % w = r % w
  <2> DEFINE j == c * q
  <2>1. j \in Int /\ k = r + w * j
    BY <1>3
  <2> HIDE DEF j
  <2> QED BY <1>2, <2>1, RemainderShift, ZenonT(30)
<1> QED BY <1>4 DEF r

(* The wrapped counters, and the slots they name.                          *)
LEMMA WrapFacts ==
    ASSUME NEW n \in Int
    PROVE  /\ wrap(n) = n % CounterSpan /\ wrap(n) \in Counters
           /\ rasSlot(n) = n % RasCap /\ rasSlot(n) \in 0 .. RasCap - 1
           /\ wrap(n) % AlignCap = n % AlignCap
           /\ n % AlignCap \in 0 .. AlignCap - 1
<1>1. /\ CounterSpan \in Nat \ {0} /\ RasCap \in Nat \ {0} /\ AlignCap \in Nat \ {0}
      /\ CounterSpan % RasCap = 0 /\ CounterSpan % AlignCap = 0
  BY BpuAssumption
<1>2. wrap(n) = n % CounterSpan
  <2> DEFINE j == 1
  <2>1. j \in Int
    OBVIOUS
  <2> HIDE DEF j
  <2>2. (n + CounterSpan * j) % CounterSpan = n % CounterSpan
    BY <1>1, <2>1, RemainderShift
  <2>3. n + CounterSpan * j = n + CounterSpan
    BY <1>1 DEF j
  <2> QED BY <2>2, <2>3 DEF wrap
<1>3. n % CounterSpan \in 0 .. CounterSpan - 1
  BY <1>1
<1>4. /\ (n % CounterSpan) % RasCap = n % RasCap
      /\ (n % CounterSpan) % AlignCap = n % AlignCap
  BY <1>1, RemainderOfRemainder
<1>5. n % RasCap \in 0 .. RasCap - 1 /\ n % AlignCap \in 0 .. AlignCap - 1
  BY <1>1
<1> QED BY <1>2, <1>3, <1>4, <1>5 DEF Counters, rasSlot

-----------------------------------------------------------------------------
(* The folded views.                                                       *)

(* The ones of chunk position j among the newest n bits of g.              *)
Ones(g, n, w, j) == {k \in 0 .. n - 1 : k % w = j /\ g[k] = 1}

(* The parity of a set and of the set with one more element differ.        *)
LEMMA ParityFlips ==
    ASSUME NEW S, IsFiniteSet(S), NEW x, x \notin S
    PROVE  /\ Cardinality(S) \in Nat
           /\ Cardinality(S \cup {x}) = Cardinality(S) + 1
BY FS_CardinalityType, FS_AddElement

(* The ones of a history with one more bit, from those without it: the     *)
(* chunks move up by one place, and bit 0 is the new one.                  *)
LEMMA OnesShift ==
    ASSUME NEW w \in Nat \ {0}, NEW n \in 1 .. HistLen,
           NEW g \in History, NEW b \in Bits, NEW j \in 0 .. w - 1
    PROVE  LET i == IF j = 0 THEN w - 1 ELSE j - 1
           IN  /\ IsFiniteSet(Ones(g, n - 1, w, i))
               /\ IsFiniteSet(Ones(shiftGHR(g, b), n, w, j))
               /\ Cardinality(Ones(shiftGHR(g, b), n, w, j))
                    = Cardinality(Ones(g, n - 1, w, i))
                        + (IF j = 0 /\ b = 1 THEN 1 ELSE 0)
<1> DEFINE i == IF j = 0 THEN w - 1 ELSE j - 1
           s == shiftGHR(g, b)
           Old == Ones(g, n - 1, w, i)
           New == {k \in 1 .. n - 1 : k % w = j /\ s[k] = 1}
           up == [k \in Old |-> k + 1]
<1>0. HistLen \in Nat
  BY BpuAssumption
<1>1. /\ IsFiniteSet(0 .. n - 1) /\ Old \subseteq 0 .. n - 1
      /\ Ones(s, n, w, j) \subseteq 0 .. n - 1
  <2>1. IsFiniteSet(0 .. n - 1)
    BY FS_Interval
  <2> QED BY <2>1 DEF Ones
<1>2. IsFiniteSet(Old) /\ IsFiniteSet(Ones(s, n, w, j)) /\ IsFiniteSet(New)
  <2>1. New \subseteq 0 .. n - 1
    OBVIOUS
  <2> QED BY <1>1, <2>1, FS_Subset
<1>3. \A k \in 0 .. n - 2 : (k + 1) % w = j <=> k % w = i
  <2> TAKE k \in 0 .. n - 2
  <2>1. /\ k % w \in 0 .. w - 1
        /\ (k + 1) % w = IF k % w = w - 1 THEN 0 ELSE (k % w) + 1
    <3>1. k \in Nat
      OBVIOUS
    <3> QED BY <3>1, NextRemainder
  <2> QED BY <2>1
<1>4. \A k \in 0 .. n - 2 : s[k + 1] = g[k]
  BY <1>0 DEF shiftGHR, History
<1>5. Cardinality(New) = Cardinality(Old)
  <2>1. \A k \in Old : up[k] \in New
    <3> TAKE k \in Old
    <3>1. k \in 0 .. n - 2 /\ k % w = i /\ g[k] = 1
      BY DEF Ones
    <3> QED BY <3>1, <1>3, <1>4
  <2>2. \A k, l \in Old : up[k] = up[l] => k = l
    BY DEF Ones
  <2>3. \A m \in New : \E k \in Old : up[k] = m
    <3> TAKE m \in New
    <3>1. m - 1 \in 0 .. n - 2 /\ (m - 1) + 1 = m
      OBVIOUS
    <3>2. m - 1 \in Old
      BY <3>1, <1>3, <1>4 DEF Ones
    <3> QED BY <3>1, <3>2
  <2> HIDE DEF Old, New, i, s
  <2>4. up \in Bijection(Old, New)
    BY <2>1, <2>2, <2>3 DEF Bijection, Injection, Surjection, IsInjective
  <2> HIDE DEF up
  <2> QED BY <2>4, <1>2, FS_Bijection DEF ExistsBijection
<1>6. Ones(s, n, w, j) = New \cup (IF j = 0 /\ b = 1 THEN {0} ELSE {})
  <2>1. s[0] = b /\ 0 % w = 0
    <3>1. s[0] = b
      BY <1>0 DEF shiftGHR, History
    <3>2. 0 = w * 0 + 0
      OBVIOUS
    <3> QED BY <3>1, <3>2, DivisionUnique
  <2> HIDE DEF s
  <2>2. 0 .. n - 1 = {0} \cup 1 .. n - 1
    OBVIOUS
  <2> QED BY <2>1, <2>2 DEF Ones
<1>7. 0 \notin New /\ New \cup {} = New
  OBVIOUS
<1> HIDE DEF New, Old, s
<1>8. Cardinality(Ones(s, n, w, j)) = Cardinality(Old) + (IF j = 0 /\ b = 1 THEN 1 ELSE 0)
  <2>1. CASE j = 0 /\ b = 1
    <3>1. Cardinality(New \cup {0}) = Cardinality(New) + 1
      BY <1>2, <1>7, ParityFlips
    <3>2. Ones(s, n, w, j) = New \cup {0}
      BY <2>1, <1>6
    <3> QED BY <2>1, <3>1, <3>2, <1>5
  <2>2. CASE ~(j = 0 /\ b = 1)
    <3>1. Cardinality(Old) \in Nat
      BY <1>2, FS_CardinalityType
    <3>2. Ones(s, n, w, j) = New
      BY <2>2, <1>6, <1>7
    <3> QED BY <2>2, <3>1, <3>2, <1>5
  <2> QED BY <2>1, <2>2
<1> QED BY <1>2, <1>8 DEF Old, s

(* The ones among n bits are those among n - 1 bits and the last.          *)
LEMMA OnesLast ==
    ASSUME NEW w \in Nat \ {0}, NEW n \in Nat \ {0}, NEW g, NEW i \in 0 .. w - 1
    PROVE  /\ IsFiniteSet(Ones(g, n, w, i)) /\ IsFiniteSet(Ones(g, n - 1, w, i))
           /\ Cardinality(Ones(g, n, w, i))
                = Cardinality(Ones(g, n - 1, w, i))
                    + (IF (n - 1) % w = i /\ g[n - 1] = 1 THEN 1 ELSE 0)
<1>1. IsFiniteSet(Ones(g, n, w, i)) /\ IsFiniteSet(Ones(g, n - 1, w, i))
  <2>1. IsFiniteSet(0 .. n - 1)
    BY FS_Interval
  <2>2. Ones(g, n, w, i) \subseteq 0 .. n - 1 /\ Ones(g, n - 1, w, i) \subseteq 0 .. n - 1
    BY DEF Ones
  <2> QED BY <2>1, <2>2, FS_Subset
<1>2. n - 1 \notin Ones(g, n - 1, w, i)
  BY DEF Ones
<1>3. 0 .. n - 1 = (0 .. n - 2) \cup {n - 1}
  OBVIOUS
<1>4. CASE (n - 1) % w = i /\ g[n - 1] = 1
  <2>1. Ones(g, n, w, i) = Ones(g, n - 1, w, i) \cup {n - 1}
    BY <1>3, <1>4 DEF Ones
  <2>2. Cardinality(Ones(g, n - 1, w, i) \cup {n - 1})
          = Cardinality(Ones(g, n - 1, w, i)) + 1
    BY <1>1, <1>2, ParityFlips
  <2> QED BY <1>1, <1>4, <2>1, <2>2
<1>5. CASE ~((n - 1) % w = i /\ g[n - 1] = 1)
  <2>1. Ones(g, n, w, i) = Ones(g, n - 1, w, i)
    BY <1>3, <1>5 DEF Ones
  <2>2. Cardinality(Ones(g, n - 1, w, i)) \in Nat
    BY <1>1, FS_CardinalityType
  <2> QED BY <1>1, <1>5, <2>1, <2>2
<1> QED BY <1>4, <1>5

(* A view stepped with a bit is the view of the shifted history            *)
(* (BPU.hpp: stepFold and refoldView agree).                               *)
LEMMA FoldStep ==
    ASSUME NEW v \in Views, NEW g \in History, NEW b \in Bits
    PROVE  refoldView(shiftGHR(g, b), v) = stepFold(refoldView(g, v), g, b, v)
<1> DEFINE w == v.w
           n == v.h
           place(j) == IF j = 0 THEN w - 1 ELSE j - 1
<1>1. w \in Nat \ {0} /\ n \in 1 .. HistLen /\ HistLen \in Nat
  BY BpuAssumption
<1> HIDE DEF w, n
<1>2. ASSUME NEW j \in 0 .. w - 1
      PROVE  /\ (j + w - 1) % w = place(j)
             /\ place(j) \in 0 .. w - 1
             /\ (n - 1) % w = place(j) <=> n % w = j
  <2>0. n - 1 \in Nat
    BY <1>1
  <2>1. (j + w - 1) % w = place(j)
    <3>1. j + w - 1 = w * (IF j = 0 THEN 0 ELSE 1) + place(j)
      BY <1>1
    <3> QED BY <3>1, <1>1, DivisionUnique
  <2>2. /\ (n - 1) % w \in 0 .. w - 1
        /\ ((n - 1) + 1) % w = IF (n - 1) % w = w - 1 THEN 0 ELSE ((n - 1) % w) + 1
    BY <1>1, <2>0, NextRemainder
  <2>3. (n - 1) + 1 = n
    BY <1>1
  <2> QED BY <1>1, <2>1, <2>2, <2>3
<1>3. ASSUME NEW j \in 0 .. w - 1
      PROVE  Cardinality(Ones(shiftGHR(g, b), n, w, j)) % 2
               = ((Cardinality(Ones(g, n, w, place(j))) % 2)
                    + (IF j = 0 THEN b ELSE 0)
                    + (IF j = n % w THEN g[n - 1] ELSE 0)) % 2
  <2> DEFINE i == place(j)
             kept == Cardinality(Ones(g, n - 1, w, i))
  <2>5. i \in 0 .. w - 1 /\ ((n - 1) % w = i <=> n % w = j)
    BY <1>2
  <2>2. Cardinality(Ones(shiftGHR(g, b), n, w, j))
          = kept + (IF j = 0 /\ b = 1 THEN 1 ELSE 0)
    BY <1>1, OnesShift
  <2> HIDE DEF i
  <2>1. kept \in Nat
    <3>1. IsFiniteSet(Ones(g, n - 1, w, i))
      <4>1. n \in Nat \ {0}
        BY <1>1
      <4> QED BY <1>1, <2>5, <4>1, OnesLast
    <3> QED BY <3>1, FS_CardinalityType
  <2>3. Cardinality(Ones(g, n, w, i))
          = kept + (IF n % w = j /\ g[n - 1] = 1 THEN 1 ELSE 0)
    BY <1>1, <2>5, OnesLast
  <2>4. g[n - 1] \in {0, 1} /\ b \in {0, 1}
    BY <1>1 DEF History, Bits
  <2> HIDE DEF kept
  <2> QED BY <2>1, <2>2, <2>3, <2>4 DEF i
<1>4. refoldView(g, v) = [j \in 0 .. w - 1 |-> Cardinality(Ones(g, n, w, j)) % 2]
  BY DEF refoldView, Ones, w, n
<1>5. refoldView(shiftGHR(g, b), v)
        = [j \in 0 .. w - 1 |-> Cardinality(Ones(shiftGHR(g, b), n, w, j)) % 2]
  BY DEF refoldView, Ones, w, n
<1>6. stepFold(refoldView(g, v), g, b, v)
        = [j \in 0 .. w - 1 |->
             ((Cardinality(Ones(g, n, w, place(j))) % 2)
                + (IF j = 0 THEN b ELSE 0)
                + (IF j = n % w THEN g[n - 1] ELSE 0)) % 2]
  <2>1. stepFold(refoldView(g, v), g, b, v)
          = [j \in 0 .. w - 1 |->
               (refoldView(g, v)[(j + w - 1) % w]
                  + (IF j = 0 THEN b ELSE 0)
                  + (IF j = n % w THEN g[n - 1] ELSE 0)) % 2]
    BY DEF stepFold, w, n
  <2>2. ASSUME NEW j \in 0 .. w - 1
        PROVE  refoldView(g, v)[(j + w - 1) % w]
                 = Cardinality(Ones(g, n, w, place(j))) % 2
    BY <1>2, <1>4
  <2> QED BY <2>1, <2>2
<1> QED BY <1>3, <1>5, <1>6

-----------------------------------------------------------------------------
(* One cycle: what the environment may choose.                             *)

StepOf(squash, issue, commit, fetch) ==
    /\ ~halted
    /\ squash \in squashDetects
    /\ issue \in BOOLEAN /\ commit \in BOOLEAN
    /\ fetch \in fetchDecisions(squash)
    /\ Cycle(squash, issue, commit, fetch)

(* A code is a stretch of words from address 0.                            *)
LEMMA CodeFacts ==
    ASSUME FetchTypes
    PROVE  /\ code \in Codes
           /\ 0 \in DOMAIN code
           /\ \A a \in DOMAIN code :
                a \in Nat /\ next(a) \in DOMAIN code /\ code[a].target \in DOMAIN code
<1> DEFINE w == Cardinality(DOMAIN code)
<1>1. w \in Nat \ {0} /\ DOMAIN code = 0 .. w - 1
  BY FrontEndAssumption DEF FetchTypes
<1>2. \A a \in DOMAIN code : code[a].target \in DOMAIN code
  BY FrontEndAssumption DEF FetchTypes
<1> HIDE DEF w
<1>3. ASSUME NEW a \in DOMAIN code PROVE next(a) \in DOMAIN code
  <2>1. a \in Nat
    BY <1>1
  <2>2. (a + 1) % w \in 0 .. w - 1
    BY <1>1, <2>1
  <2> QED BY <1>1, <2>2 DEF next, w
<1> QED BY <1>1, <1>2, <1>3 DEF FetchTypes

(* A squash is at an instruction the back end holds.                       *)
LEMMA SquashFacts ==
    ASSUME FetchTypes, NEW squash \in squashDetects
    PROVE  /\ squash.needSquash \in BOOLEAN
           /\ squash.needSquash =>
                /\ squash.at \in DOMAIN rob
                /\ squash.CkptId = rob[squash.at].ckptId
                /\ squash.SquashPC \in DOMAIN code
<1>1. CASE squash = NoSquash
  BY <1>1 DEF NoSquash
<1>2. CASE squash # NoSquash
  <2>1. PICK i \in DOMAIN rob, s \in DOMAIN code :
          squash = [needSquash |-> TRUE, at |-> i, CkptId |-> rob[i].ckptId,
                    SquashPC |-> s]
    BY <1>2 DEF squashDetects
  <2> QED BY <2>1
<1> QED BY <1>1, <1>2

(* How many addresses a checkpoint sees.                                   *)
sight(top) == IF top < RasCap THEN top ELSE RasCap

(* What is seen of the return stack.                                       *)
LEMMA StackFacts ==
    ASSUME NEW ras, NEW S, ras \in [0 .. RasCap - 1 -> S], NEW top \in Counters
    PROVE  /\ stackOf(ras, top) \in Seq(S)
           /\ Len(stackOf(ras, top)) = sight(top)
           /\ sight(top) \in 0 .. RasCap
           /\ \A d \in 1 .. sight(top) :
                stackOf(ras, top)[d] = ras[(top - d) % RasCap]
<1>1. RasCap \in Nat /\ sight(top) \in 0 .. RasCap /\ top \in Int
  BY BpuAssumption DEF sight, Counters
<1>2. \A d \in 1 .. sight(top) :
        /\ rasSlot(top - d) = (top - d) % RasCap
        /\ rasSlot(top - d) \in 0 .. RasCap - 1
  <2> TAKE d \in 1 .. sight(top)
  <2>1. top - d \in Int
    BY <1>1
  <2> QED BY <2>1, WrapFacts
<1>3. stackOf(ras, top) = [d \in 1 .. sight(top) |-> ras[rasSlot(top - d)]]
  BY DEF stackOf, sight
<1>4. \A d \in 1 .. sight(top) : ras[rasSlot(top - d)] \in S
  BY <1>2
<1>5. stackOf(ras, top) \in [1 .. sight(top) -> S]
  BY <1>3, <1>4
<1> HIDE DEF stackOf
<1>6. stackOf(ras, top) \in Seq(S) /\ Len(stackOf(ras, top)) = sight(top)
  BY <1>1, <1>5, SeqDef, LenProperties
<1> QED BY <1>1, <1>2, <1>3, <1>6

(* What a fetch enters.                                                    *)
LEMMA FetchFacts ==
    ASSUME PredictorTypes, FetchTypes, NEW squash, NEW fetch \in fetchDecisions(squash)
    PROVE  /\ fetch.valid \in BOOLEAN
           /\ fetch.valid =>
                /\ ~squash.needSquash /\ ~haltFetched /\ ~fqIsFull /\ ~isRequestFull
                /\ fetch.shift \in BOOLEAN
                /\ fetch.shift => fetch.shiftValue \in Bits
                /\ fetch.entry \in Entry
                /\ fetch.entry.pc = programCounter
                /\ fetch.entry.ckptId = nextCkptId
                /\ fetch.entry.ghr = GHR
                /\ fetch.entry.stack = stackOf(RAS, RAS_top)
                /\ fetch.entry.valid = FALSE
<1>1. CASE fetch = NoFetch
  BY <1>1 DEF NoFetch
<1>2. CASE ~(squash.needSquash \/ haltFetched \/ fqIsFull \/ isRequestFull
              \/ fetches = MaxFetches)
  <2>1. PICK p \in predict(programCounter) : fetch = fetchOf(p)
    BY <1>2 DEF fetchDecisions
  <2>2. /\ p.pc \in DOMAIN code
        /\ p.shift \in BOOLEAN
        /\ p.shiftValue \in Bits
    <3>1. /\ next(programCounter) \in DOMAIN code
          /\ code[programCounter].target \in DOMAIN code
      BY CodeFacts DEF FetchTypes
    <3>2. rasHead.retPC \in DOMAIN code
      <4>1. rasSlot(RAS_top - 1) \in 0 .. RasCap - 1
        <5>1. RAS_top - 1 \in Int
          BY DEF PredictorTypes, Counters
        <5> QED BY <5>1, WrapFacts
      <4> QED BY <4>1 DEF rasHead, PredictorTypes, RasEntry
    <3>5. hitTargets(programCounter) \subseteq DOMAIN code
      <4>1. returnPoints \subseteq DOMAIN code
        BY CodeFacts DEF returnPoints
      <4> QED BY <3>1, <3>2, <4>1 DEF hitTargets
    <3>3. \/ p = guess(next(programCounter), FALSE, 0)
          \/ \E b \in Bits : p = guess(next(programCounter), TRUE, b)
          \/ \E t \in hitTargets(programCounter) : p = guess(t, TRUE, 1)
      BY <2>1 DEF predict
    <3>4. \E a \in DOMAIN code, t \in BOOLEAN, b \in Bits : p = guess(a, t, b)
      <4>1. {0, 1} \subseteq Bits /\ {TRUE, FALSE} \subseteq BOOLEAN
        BY DEF Bits
      <4> QED BY <3>1, <3>3, <3>5, <4>1
    <3> QED BY <3>4 DEF guess
  <2>3. stackOf(RAS, RAS_top) \in Seq(RasEntry)
    BY StackFacts DEF PredictorTypes
  <2>4. fetchOf(p).entry \in Entry
    BY <2>2, <2>3 DEF fetchOf, Entry, NoWord, PredictorTypes, FetchTypes
  <2> QED BY <1>2, <2>1, <2>2, <2>4 DEF fetchOf
<1> QED BY <1>1, <1>2 DEF fetchDecisions

-----------------------------------------------------------------------------
(* The predictor's types and its folded views.                             *)

(* A set of numbers below a bound has a largest one.                       *)
LEMMA LargestExists ==
    ASSUME NEW n \in Nat, NEW S \in SUBSET (0 .. n - 1), S # {}
    PROVE  \E k \in S : \A l \in S : l <= k
<1> DEFINE T == {n - k : k \in S}
<1>1. T \subseteq Nat /\ T # {}
  OBVIOUS
<1>2. \E x \in T : \A y \in T : ~(<<y, x>> \in OpToRel(<, Nat))
  BY <1>1, WFMin, NatLessThanWellFounded, Zenon
<1>3. PICK x \in T : \A y \in T : ~(y < x)
  BY <1>1, <1>2 DEF OpToRel
<1>4. PICK k \in S : x = n - k
  OBVIOUS
<1>5. ASSUME NEW l \in S PROVE l <= k
  <2>1. n - l \in T
    OBVIOUS
  <2>2. ~(n - l < n - k)
    BY <1>3, <1>4, <2>1
  <2> QED BY <2>2
<1> QED BY <1>5

(* Value v is that of the slot's oldest record since base, or, if it has    *)
(* none, what the slot is.                                                 *)
Rewinds(base, x, was, v) ==
    \/ /\ \A k \in undone(base) : record(k).index # x
       /\ v = was
    \/ \E k \in undone(base) :
         /\ record(k).index = x
         /\ v = record(k).entry
         /\ \A l \in undone(base) : record(l).index = x => l <= k

(* That is what the undo loop leaves in a slot (BPU.cpp, the loop over the *)
(* journal).                                                               *)
LEMMA RewoundIs ==
    ASSUME alignTail \in Counters, NEW ras, NEW base \in Counters,
           NEW x \in DOMAIN ras
    PROVE  /\ DOMAIN rewound(ras, base) = DOMAIN ras
           /\ Rewinds(base, x, ras[x], rewound(ras, base)[x])
<1> DEFINE ks == {k \in undone(base) : record(k).index = x}
<1>1. DOMAIN rewound(ras, base) = DOMAIN ras
  BY DEF rewound
<1>2. rewound(ras, base)[x]
        = IF ks = {} THEN ras[x]
          ELSE record(CHOOSE k \in ks : \A l \in ks : l <= k).entry
  BY DEF rewound
<1>3. CASE ks = {}
  BY <1>1, <1>2, <1>3 DEF Rewinds
<1>4. CASE ks # {}
  <2>1. ks \subseteq 0 .. AlignCap - 1 /\ AlignCap \in Nat
    BY BpuAssumption DEF undone
  <2>2. \E k \in ks : \A l \in ks : l <= k
    BY <1>4, <2>1, LargestExists
  <2> DEFINE m == CHOOSE k \in ks : \A l \in ks : l <= k
  <2>3. m \in ks /\ \A l \in ks : l <= m
    BY <2>2
  <2>4. rewound(ras, base)[x] = record(m).entry
    BY <1>2, <1>4
  <2> HIDE DEF m
  <2> QED BY <1>1, <2>3, <2>4 DEF Rewinds
<1> QED BY <1>3, <1>4

(* What an event may do to the stack: nothing, change the count of the top *)
(* entry or take it away, both recorded, or push an address.               *)
Rests(e) ==
    e.ras = RAS /\ e.top = RAS_top /\ e.queue = alignQueue /\ e.tail = alignTail

Records(e) ==
    e.queue = journal /\ e.tail = wrap(alignTail + 1)

Counts(e) ==
    Records(e) /\ e.top = RAS_top /\ \E n \in Counters : e.ras = counted(n)

Pops(e) ==
    Records(e) /\ RAS_top > 0 /\ e.top = RAS_top - 1 /\ e.ras = RAS

Pushes(e) ==
    /\ e.queue = alignQueue /\ e.tail = alignTail /\ e.top = wrap(RAS_top + 1)
    /\ \E x \in RasEntry : e.ras = [RAS EXCEPT ![rasSlot(RAS_top)] = x]

(* The return-stack event of a tick is one of these.                       *)
LEMMA EventCases ==
    ASSUME PredictorTypes, FetchTypes
    PROVE  LET e == rasEvent(scanJump)
           IN  Rests(e) \/ Counts(e) \/ Pops(e) \/ Pushes(e)
<1> DEFINE event == scanJump
           e == rasEvent(event)
           same == [ras |-> RAS, top |-> RAS_top, queue |-> alignQueue,
                    tail |-> alignTail]
           recorded == [same EXCEPT !.queue = journal, !.tail = wrap(alignTail + 1)]
           again == RAS_top > 0 /\ rasHead.retPC = event.ra
           entry == [retPC |-> event.ra, times |-> 1]
<1>1. entry \in RasEntry
  <2>1. event.ra \in DOMAIN code
    BY CodeFacts DEF scanJump, FetchTypes
  <2>2. 1 \in Counters
    <3>1. CounterSpan \in Nat /\ CounterSpan \div 2 > 1
      BY BpuAssumption
    <3> QED BY <3>1 DEF Counters
  <2> QED BY <2>1, <2>2 DEF RasEntry
<1>2. 1 \in Counters /\ CounterSpan - 1 \in Counters
  BY <1>1, BpuAssumption DEF RasEntry, Counters
<1>3. RAS_top \in Counters /\ RAS_top \in Nat
  BY BpuAssumption DEF PredictorTypes, Counters
<1>4. wrap(RAS_top - 1) = RAS_top - 1 \/ RAS_top = 0
  <2>1. CASE RAS_top # 0
    <3>1. CounterSpan \in Nat \ {0}
      BY BpuAssumption
    <3>2. RAS_top - 1 \in 0 .. CounterSpan - 1
      BY <1>3, <2>1, <3>1 DEF Counters
    <3>3. (RAS_top - 1) % CounterSpan = RAS_top - 1
      BY <3>1, <3>2
    <3> QED BY <3>2, <3>3, WrapFacts
  <2> QED BY <2>1
<1>10. rasHead.times \in Nat
  <2>1. rasSlot(RAS_top - 1) \in 0 .. RasCap - 1
    <3>1. RAS_top - 1 \in Int
      BY <1>3
    <3> QED BY <3>1, WrapFacts
  <2>2. rasHead \in RasEntry
    BY <2>1 DEF rasHead, PredictorTypes
  <2> QED BY <2>2, BpuAssumption DEF RasEntry, Counters
<1> HIDE DEF event, entry
<1>5. CASE event.kind = "CALL" /\ again
  <2>1. e = [recorded EXCEPT !.ras = counted(1)]
    BY <1>5 DEF rasEvent
  <2>2. Counts(e)
    BY <1>2, <2>1 DEF Counts, Records
  <2> QED BY <2>2 DEF event
<1>6. CASE event.kind = "CALL" /\ ~again
  <2>1. e = [same EXCEPT !.ras = [RAS EXCEPT ![rasSlot(RAS_top)] = entry],
                         !.top = wrap(RAS_top + 1)]
    BY <1>6 DEF rasEvent, entry
  <2>2. Pushes(e)
    BY <1>1, <2>1 DEF Pushes
  <2> QED BY <2>2 DEF event
<1>7. CASE event.kind = "RET" /\ RAS_top > 0 /\ rasHead.times > 1
  <2>1. e = [recorded EXCEPT !.ras = counted(CounterSpan - 1)]
    BY <1>7, <1>10 DEF rasEvent
  <2>2. Counts(e)
    BY <1>2, <2>1 DEF Counts, Records
  <2> QED BY <2>2 DEF event
<1>8. CASE event.kind = "RET" /\ RAS_top > 0 /\ ~(rasHead.times > 1)
  <2>1. rasHead.times <= 1
    BY <1>8, <1>10
  <2>2. e = [recorded EXCEPT !.top = wrap(RAS_top - 1)]
    BY <1>8, <2>1 DEF rasEvent
  <2>3. Pops(e)
    BY <1>3, <1>4, <1>8, <2>2 DEF Pops, Records
  <2> QED BY <2>3 DEF event
<1>9. CASE \/ event.kind \notin {"CALL", "RET"}
           \/ event.kind = "RET" /\ ~(RAS_top > 0)
  <2>1. e = same
    BY <1>9 DEF rasEvent
  <2>2. Rests(e)
    BY <2>1 DEF Rests
  <2> QED BY <2>2 DEF event
<1> QED BY <1>5, <1>6, <1>7, <1>8, <1>9

(* What an event leaves is well typed.                                     *)
LEMMA EventTypes ==
    ASSUME PredictorTypes, FetchTypes
    PROVE  LET e == rasEvent(scanJump)
           IN  /\ e.ras \in [0 .. RasCap - 1 -> RasEntry]
               /\ e.top \in Counters /\ e.tail \in Counters
               /\ e.queue \in [0 .. AlignCap - 1 ->
                                 [index : 0 .. RasCap - 1, entry : RasEntry]]
<1> DEFINE e == rasEvent(scanJump)
<1>1. Rests(e) \/ Counts(e) \/ Pops(e) \/ Pushes(e)
  BY EventCases
<1> HIDE DEF e
<1>2. /\ CounterSpan \in Nat \ {0}
      /\ RAS_top \in Int /\ alignTail \in Int
      /\ rasSlot(RAS_top - 1) \in 0 .. RasCap - 1
      /\ rasSlot(RAS_top) \in 0 .. RasCap - 1
      /\ wrap(alignTail + 1) \in Counters /\ wrap(RAS_top + 1) \in Counters
  <2>1. /\ CounterSpan \in Nat \ {0} /\ RAS_top \in Int /\ alignTail \in Int
        /\ RAS_top - 1 \in Int /\ RAS_top + 1 \in Int /\ alignTail + 1 \in Int
    BY BpuAssumption DEF PredictorTypes, Counters
  <2> QED BY <2>1, WrapFacts
<1>3. journal \in [0 .. AlignCap - 1 -> [index : 0 .. RasCap - 1, entry : RasEntry]]
  BY <1>2 DEF journal, rasHead, PredictorTypes
<1>4. \A n \in Counters : counted(n) \in [0 .. RasCap - 1 -> RasEntry]
  <2> TAKE n \in Counters
  <2> DEFINE x == RAS[rasSlot(RAS_top - 1)]
  <2>1. x \in RasEntry
    BY <1>2 DEF PredictorTypes
  <2> HIDE DEF x
  <2>2. wrap(x.times + n) \in Counters
    <3>1. x.times + n \in Int
      BY <2>1 DEF RasEntry, Counters
    <3> QED BY <3>1, WrapFacts
  <2>3. [x EXCEPT !.times = wrap(x.times + n)] \in RasEntry
    BY <2>1, <2>2 DEF RasEntry
  <2>4. counted(n) = [RAS EXCEPT ![rasSlot(RAS_top - 1)] =
                        [x EXCEPT !.times = wrap(x.times + n)]]
    BY DEF counted, x
  <2> QED BY <2>3, <2>4 DEF PredictorTypes
<1>5. Pops(e) => e.top \in Counters
  BY <1>2 DEF Pops, PredictorTypes, Counters
<1>6. CASE Rests(e)
  BY <1>6 DEF Rests, PredictorTypes, e
<1>7. CASE Counts(e)
  BY <1>2, <1>3, <1>4, <1>7 DEF Counts, Records, PredictorTypes, e
<1>8. CASE Pops(e)
  BY <1>2, <1>3, <1>5, <1>8 DEF Pops, Records, PredictorTypes, e
<1>9. CASE Pushes(e)
  BY <1>2, <1>9 DEF Pushes, PredictorTypes, e
<1> QED BY <1>1, <1>6, <1>7, <1>8, <1>9

(* The snapshots and the stack stay what they are.                         *)
LEMMA RewoundType ==
    ASSUME PredictorTypes, FetchTypes, NEW base \in Counters,
           NEW ras \in [0 .. RasCap - 1 -> RasEntry]
    PROVE  rewound(ras, base) \in [0 .. RasCap - 1 -> RasEntry]
<1>1. ASSUME NEW k \in Int PROVE record(k).entry \in RasEntry
  <2>1. /\ wrap(alignTail - 1 - k) % AlignCap \in 0 .. AlignCap - 1
    <3>1. alignTail - 1 - k \in Int
      BY DEF PredictorTypes, Counters
    <3> QED BY <3>1, WrapFacts
  <2> QED BY <2>1 DEF record, PredictorTypes
<1>2. ASSUME NEW x \in 0 .. RasCap - 1 PROVE rewound(ras, base)[x] \in RasEntry
  <2>1. alignTail \in Counters /\ x \in DOMAIN ras
    BY DEF PredictorTypes
  <2>2. \/ rewound(ras, base)[x] = ras[x]
        \/ \E k \in undone(base) : rewound(ras, base)[x] = record(k).entry
    <3>1. Rewinds(base, x, ras[x], rewound(ras, base)[x])
      BY <2>1, RewoundIs
    <3> QED BY <3>1 DEF Rewinds
  <2>3. undone(base) \subseteq Int
    BY DEF undone
  <2> QED BY <1>1, <2>2, <2>3
<1>3. rewound(ras, base) = [x \in 0 .. RasCap - 1 |-> rewound(ras, base)[x]]
  BY DEF rewound
<1> HIDE DEF rewound
<1> QED BY <1>2, <1>3

(* A cycle keeps the predictor's types, and the folded views are those of  *)
(* the history (BPU::tick).                                                *)
LEMMA PredictorStep ==
    ASSUME PredictorTypes, QueueTypes, FetchTypes, FoldsRight,
           NEW squash, NEW issue, NEW commit, NEW fetch,
           StepOf(squash, issue, commit, fetch)
    PROVE  PredictorTypes' /\ FoldsRight'
<1> DEFINE e == rasEvent(scanJump)
           back == bpCkpt[squash.CkptId]
           g == IF squash.needSquash THEN back.GHR
                ELSE IF fetch.valid /\ fetch.shift
                  THEN shiftGHR(GHR, fetch.shiftValue) ELSE GHR
<1>1. /\ bpCkpt' = IF fetch.valid
                     THEN [bpCkpt EXCEPT ![nextCkptId] = snapshotCheckPoint]
                     ELSE bpCkpt
      /\ nextCkptId' = ckptAfter(fetch, squash)
      /\ GHR' = g
      /\ fh' = [v \in Views |->
                  IF squash.needSquash THEN refoldView(g, v)
                  ELSE IF fetch.valid /\ fetch.shift
                    THEN stepFold(fh[v], GHR, fetch.shiftValue, v)
                  ELSE fh[v]]
      /\ alignQueue' = e.queue
      /\ IF squash.needSquash
           THEN /\ RAS' = rewound(e.ras, back.alignTail)
                /\ RAS_top' = back.RAS_top
                /\ alignTail' = back.alignTail
           ELSE RAS' = e.ras /\ RAS_top' = e.top /\ alignTail' = e.tail
      /\ code' = code
  BY DEF StepOf, Cycle, BPUtick
<1>2. /\ squash.needSquash \in BOOLEAN
      /\ squash.needSquash => squash.CkptId \in CkptIds
  <2>1. \A i \in DOMAIN rob : rob[i].ckptId \in CkptIds
    <3>1. \A i \in DOMAIN rob : rob[i] \in Entry
      BY LenProperties, ElementOfSeq DEF QueueTypes
    <3> QED BY <3>1 DEF Entry
  <2> QED BY <2>1, SquashFacts DEF StepOf
<1>3. /\ fetch.valid \in BOOLEAN
      /\ fetch.valid => /\ fetch.shift \in BOOLEAN
                        /\ fetch.shift => fetch.shiftValue \in Bits
  BY FetchFacts DEF StepOf
<1>4. squash.needSquash => back \in Checkpoint
  BY <1>2 DEF PredictorTypes
<1>5. HistLen \in Nat /\ CkptCap \in Nat \ {0}
  BY BpuAssumption
<1>6. \A b \in Bits : shiftGHR(GHR, b) \in History
  <2> TAKE b \in Bits
  <2>1. GHR \in [0 .. HistLen - 1 -> Bits]
    BY DEF PredictorTypes, History
  <2>2. \A i \in 0 .. HistLen - 1 : i # 0 => i - 1 \in 0 .. HistLen - 1
    BY <1>5
  <2> QED BY <2>1, <2>2 DEF shiftGHR, History
<1>7. /\ e.ras \in [0 .. RasCap - 1 -> RasEntry]
      /\ e.top \in Counters /\ e.tail \in Counters
      /\ e.queue \in [0 .. AlignCap - 1 -> [index : 0 .. RasCap - 1, entry : RasEntry]]
  BY EventTypes
<1> HIDE DEF e, back
<1>8. g \in History
  BY <1>3, <1>4, <1>6 DEF PredictorTypes, Checkpoint
<1>9. FoldsRight'
  <2>1. ASSUME NEW v \in Views PROVE fh'[v] = refoldView(g, v)
    <3>1. CASE squash.needSquash
      BY <1>1, <3>1
    <3>2. CASE ~squash.needSquash /\ fetch.valid /\ fetch.shift
      <4>1. fh'[v] = stepFold(refoldView(GHR, v), GHR, fetch.shiftValue, v)
        BY <1>1, <3>2 DEF FoldsRight
      <4>2. g = shiftGHR(GHR, fetch.shiftValue)
        BY <3>2
      <4> QED BY <1>3, <3>2, <4>1, <4>2, FoldStep DEF PredictorTypes
    <3>3. CASE ~squash.needSquash /\ ~(fetch.valid /\ fetch.shift)
      BY <1>1, <3>3 DEF FoldsRight
    <3> QED BY <3>1, <3>2, <3>3
  <2> HIDE DEF g
  <2>2. fh' = [v \in Views |-> fh'[v]]
    BY <1>1
  <2>3. fh' = [v \in Views |-> refoldView(g, v)]
    BY <2>1, <2>2
  <2> QED BY <1>1, <2>3 DEF FoldsRight
<1>10. RasEntry' = RasEntry
  BY <1>1 DEF RasEntry
<1>11. nextCkptId' \in CkptIds
  <2>1. \A i \in CkptIds : (i + 1) % CkptCap \in CkptIds
    BY <1>5 DEF CkptIds
  <2> QED BY <1>1, <1>2, <2>1 DEF ckptAfter, PredictorTypes
<1>12. bpCkpt' \in [CkptIds -> Checkpoint]
  <2>1. snapshotCheckPoint \in Checkpoint
    BY DEF snapshotCheckPoint, Checkpoint, PredictorTypes
  <2> QED BY <1>1, <2>1 DEF PredictorTypes
<1>13. /\ RAS' \in [0 .. RasCap - 1 -> RasEntry]
       /\ RAS_top' \in Counters /\ alignTail' \in Counters
  <2>1. CASE squash.needSquash
    <3>1. back.alignTail \in Counters /\ back.RAS_top \in Counters
      BY <1>4, <2>1 DEF Checkpoint
    <3>2. rewound(e.ras, back.alignTail) \in [0 .. RasCap - 1 -> RasEntry]
      BY <1>7, <3>1, RewoundType
    <3> QED BY <1>1, <2>1, <3>1, <3>2
  <2>2. CASE ~squash.needSquash
    BY <1>1, <1>7, <2>2
  <2> QED BY <2>1, <2>2
<1> QED
  BY <1>1, <1>7, <1>8, <1>9, <1>10, <1>11, <1>12, <1>13 DEF PredictorTypes

-----------------------------------------------------------------------------
(* The stream of instructions: sequences first.                            *)

Joined(a, b) == a \o b

(* Type, length and elements of two sequences joined.                      *)
LEMMA JoinFacts ==
    ASSUME NEW S, NEW a \in Seq(S), NEW b \in Seq(S)
    PROVE  /\ Joined(a, b) \in Seq(S)
           /\ Len(a) \in Nat /\ Len(b) \in Nat
           /\ Len(Joined(a, b)) = Len(a) + Len(b)
           /\ \A i \in 1 .. Len(a) : Joined(a, b)[i] = a[i]
           /\ \A i \in 1 .. Len(a) + Len(b) :
                Joined(a, b)[i] = IF i <= Len(a) THEN a[i] ELSE b[i - Len(a)]
<1>1. Len(a) \in Nat /\ Len(b) \in Nat
  BY LenProperties
<1>2. /\ a \o b \in Seq(S) /\ Len(a \o b) = Len(a) + Len(b)
      /\ \A i \in 1 .. Len(a) + Len(b) :
           (a \o b)[i] = IF i <= Len(a) THEN a[i] ELSE b[i - Len(a)]
  BY ConcatProperties
<1>3. /\ Joined(a, b) \in Seq(S) /\ Len(Joined(a, b)) = Len(a) + Len(b)
      /\ \A i \in 1 .. Len(a) + Len(b) :
           Joined(a, b)[i] = IF i <= Len(a) THEN a[i] ELSE b[i - Len(a)]
  BY <1>2, Zenon DEF Joined
<1> QED BY <1>1, <1>3

(* Joining is associative.                                                 *)
LEMMA JoinAssociative ==
    ASSUME NEW S, NEW a \in Seq(S), NEW b \in Seq(S), NEW c \in Seq(S)
    PROVE  Joined(Joined(a, b), c) = Joined(a, Joined(b, c))
BY ConcatAssociative, SMT DEF Joined

(* The head of a sequence may move to the end of the one before it.        *)
LEMMA HeadMoves ==
    ASSUME NEW S, NEW a \in Seq(S), NEW b \in Seq(S), b # <<>>
    PROVE  /\ Append(a, Head(b)) \in Seq(S) /\ Tail(b) \in Seq(S)
           /\ Joined(Append(a, Head(b)), Tail(b)) = Joined(a, b)
           /\ Len(Append(a, Head(b))) = Len(a) + 1 /\ Len(Tail(b)) = Len(b) - 1
<1>1. /\ Head(b) \in S /\ Tail(b) \in Seq(S) /\ Len(Tail(b)) = Len(b) - 1
      /\ Len(a) \in Nat /\ Len(b) \in Nat
      /\ \A i \in 1 .. Len(Tail(b)) : Tail(b)[i] = b[i + 1]
  BY HeadTailProperties, LenProperties
<1>2. /\ Append(a, Head(b)) \in Seq(S) /\ Len(Append(a, Head(b))) = Len(a) + 1
      /\ \A i \in 1 .. Len(a) : Append(a, Head(b))[i] = a[i]
      /\ Append(a, Head(b))[Len(a) + 1] = Head(b)
  BY <1>1, AppendProperties
<1>3. Head(b) = b[1] /\ Len(b) >= 1
  BY <1>1, EmptySeq
<1> DEFINE c == Append(a, Head(b))
           t == Tail(b)
<1> HIDE DEF c, t
<1>4. /\ c \in Seq(S) /\ t \in Seq(S) /\ Len(c) = Len(a) + 1 /\ Len(t) = Len(b) - 1
      /\ \A i \in 1 .. Len(a) : c[i] = a[i]
      /\ c[Len(a) + 1] = b[1]
      /\ \A i \in 1 .. Len(b) - 1 : t[i] = b[i + 1]
  BY <1>1, <1>2, <1>3 DEF c, t
<1>5. /\ c \o t \in Seq(S) /\ Len(c \o t) = Len(a) + Len(b)
      /\ \A i \in 1 .. Len(a) + Len(b) :
           (c \o t)[i] = IF i <= Len(a) + 1 THEN c[i] ELSE t[i - (Len(a) + 1)]
  <2>1. /\ c \o t \in Seq(S) /\ Len(c \o t) = Len(c) + Len(t)
        /\ \A i \in 1 .. Len(c) + Len(t) :
             (c \o t)[i] = IF i <= Len(c) THEN c[i] ELSE t[i - Len(c)]
    BY <1>4, ConcatProperties
  <2>2. Len(c) + Len(t) = Len(a) + Len(b) /\ Len(c) = Len(a) + 1
    BY <1>1, <1>4
  <2> QED BY <2>1, <2>2, Zenon
<1>6. /\ a \o b \in Seq(S) /\ Len(a \o b) = Len(a) + Len(b)
      /\ \A i \in 1 .. Len(a) + Len(b) :
           (a \o b)[i] = IF i <= Len(a) THEN a[i] ELSE b[i - Len(a)]
  BY <1>1, ConcatProperties
<1> DEFINE left == c \o t
           right == a \o b
<1> HIDE DEF left, right
<1>7. ASSUME NEW i \in 1 .. Len(a) + Len(b)
      PROVE  left[i] = right[i]
  <2>1. CASE i <= Len(a)
    BY <1>1, <1>4, <1>5, <1>6, <2>1 DEF left, right
  <2>2. CASE i = Len(a) + 1
    BY <1>1, <1>4, <1>5, <1>6, <2>2 DEF left, right
  <2>3. CASE i > Len(a) + 1
    <3>1. /\ i - (Len(a) + 1) \in 1 .. Len(b) - 1
          /\ (i - (Len(a) + 1)) + 1 = i - Len(a)
      BY <1>1, <2>3
    <3>2. t[i - (Len(a) + 1)] = b[i - Len(a)]
      BY <1>4, <3>1
    <3>3. left[i] = t[i - (Len(a) + 1)]
      BY <1>1, <1>5, <2>3 DEF left
    <3>4. right[i] = b[i - Len(a)]
      BY <1>1, <1>6, <2>3 DEF right
    <3> QED BY <3>2, <3>3, <3>4
  <2>4. i \in Int /\ Len(a) \in Int
    BY <1>1
  <2> QED BY <2>1, <2>2, <2>3, <2>4
<1>8. c \o t = a \o b
  BY <1>5, <1>6, <1>7, SeqEqual DEF left, right
<1>9. Joined(c, t) = Joined(a, b)
  BY <1>8, Zenon DEF Joined
<1> HIDE DEF Joined
<1> QED BY <1>4, <1>9 DEF c, t

(* The same, if it is done at all.                                         *)
LEMMA HandOver ==
    ASSUME NEW S, NEW a \in Seq(S), NEW b \in Seq(S), NEW x \in BOOLEAN,
           x => b # <<>>
    PROVE  LET c == IF x THEN Append(a, Head(b)) ELSE a
               d == IF x THEN Tail(b) ELSE b
           IN  /\ c \in Seq(S) /\ d \in Seq(S) /\ Joined(c, d) = Joined(a, b)
               /\ Len(a) \in Nat /\ Len(b) \in Nat
               /\ Len(c) = Len(a) + (IF x THEN 1 ELSE 0)
               /\ Len(d) = Len(b) - (IF x THEN 1 ELSE 0)
               /\ Len(d) \in Nat
<1>1. Len(a) \in Nat /\ Len(b) \in Nat
  BY LenProperties
<1>2. CASE x
  <2>1. /\ Append(a, Head(b)) \in Seq(S) /\ Tail(b) \in Seq(S)
        /\ Joined(Append(a, Head(b)), Tail(b)) = Joined(a, b)
        /\ Len(Append(a, Head(b))) = Len(a) + 1 /\ Len(Tail(b)) = Len(b) - 1
    BY <1>2, HeadMoves
  <2>2. Len(Tail(b)) \in Nat
    BY <2>1, LenProperties
  <2> QED BY <1>1, <1>2, <2>1, <2>2, Zenon
<1>3. CASE ~x
  <2>1. Len(a) = Len(a) + 0 /\ Len(b) = Len(b) - 0
    BY <1>1
  <2> QED BY <1>1, <1>3, <2>1, Zenon
<1> QED BY <1>2, <1>3

(* The first of a sequence is the first of what it starts.                 *)
LEMMA TailMoves ==
    ASSUME NEW S, NEW a \in Seq(S), NEW b \in Seq(S), a # <<>>
    PROVE  /\ Joined(a, b) \in Seq(S) /\ Joined(a, b) # <<>>
           /\ Tail(a) \in Seq(S)
           /\ Joined(Tail(a), b) = Tail(Joined(a, b))
<1>1. /\ Tail(a) \in Seq(S) /\ Len(Tail(a)) = Len(a) - 1
      /\ Len(a) \in Nat /\ Len(b) \in Nat /\ Len(a) >= 1
      /\ \A i \in 1 .. Len(a) - 1 : Tail(a)[i] = a[i + 1]
  BY HeadTailProperties, LenProperties, EmptySeq
<1>2. /\ a \o b \in Seq(S) /\ Len(a \o b) = Len(a) + Len(b)
      /\ \A i \in 1 .. Len(a) + Len(b) :
           (a \o b)[i] = IF i <= Len(a) THEN a[i] ELSE b[i - Len(a)]
  BY <1>1, ConcatProperties
<1>3. a \o b # <<>>
  BY <1>1, <1>2, EmptySeq
<1> DEFINE t == Tail(a)
           ab == a \o b
<1> HIDE DEF t, ab
<1>4. /\ t \in Seq(S) /\ Len(t) = Len(a) - 1
      /\ \A i \in 1 .. Len(a) - 1 : t[i] = a[i + 1]
  BY <1>1 DEF t
<1>5. /\ t \o b \in Seq(S) /\ Len(t \o b) = (Len(a) - 1) + Len(b)
      /\ \A i \in 1 .. (Len(a) - 1) + Len(b) :
           (t \o b)[i] = IF i <= Len(a) - 1 THEN t[i] ELSE b[i - (Len(a) - 1)]
  <2>1. /\ t \o b \in Seq(S) /\ Len(t \o b) = Len(t) + Len(b)
        /\ \A i \in 1 .. Len(t) + Len(b) :
             (t \o b)[i] = IF i <= Len(t) THEN t[i] ELSE b[i - Len(t)]
    BY <1>4, ConcatProperties
  <2> QED BY <1>4, <2>1, Zenon
<1>6. /\ Tail(ab) \in Seq(S) /\ Len(Tail(ab)) = Len(a) + Len(b) - 1
      /\ \A i \in 1 .. Len(a) + Len(b) - 1 : Tail(ab)[i] = ab[i + 1]
  BY <1>1, <1>2, <1>3, HeadTailProperties DEF ab
<1> DEFINE left == t \o b
           right == Tail(ab)
<1> HIDE DEF left, right
<1>7. ASSUME NEW i \in 1 .. Len(a) + Len(b) - 1
      PROVE  left[i] = right[i]
  <2>1. CASE i <= Len(a) - 1
    <3>1. i \in 1 .. Len(a) - 1 /\ i + 1 \in 1 .. Len(a) + Len(b)
      BY <1>1, <2>1
    <3> QED BY <1>1, <1>2, <1>4, <1>5, <1>6, <2>1, <3>1 DEF ab, left, right
  <2>2. CASE i > Len(a) - 1
    <3>1. i + 1 \in 1 .. Len(a) + Len(b) /\ ~(i + 1 <= Len(a))
          /\ (i + 1) - Len(a) = i - (Len(a) - 1)
      BY <1>1, <2>2
    <3>2. ab[i + 1] = b[i - (Len(a) - 1)]
      BY <1>2, <3>1 DEF ab
    <3>3. left[i] = b[i - (Len(a) - 1)]
      BY <1>1, <1>5, <2>2 DEF left
    <3>4. right[i] = ab[i + 1]
      BY <1>1, <1>6 DEF right
    <3> QED BY <3>2, <3>3, <3>4
  <2>3. i \in Int /\ Len(a) \in Int
    BY <1>1
  <2> QED BY <2>1, <2>2, <2>3
<1>8. t \o b = Tail(ab)
  BY <1>1, <1>5, <1>6, <1>7, SeqEqual DEF left, right
<1>9. Joined(t, b) = Tail(Joined(a, b)) /\ Joined(a, b) = a \o b
  BY <1>8, Zenon DEF Joined, ab
<1> HIDE DEF Joined
<1> QED BY <1>1, <1>2, <1>3, <1>9, Zenon DEF t

-----------------------------------------------------------------------------
(* The stream of instructions in one cycle.                                *)

(* The fetch as the cache enters it.                                       *)
entered(fetch) ==
    [fetch.entry EXCEPT
       !.valid = hit(fetch.entry.pc),
       !.raw_inst = IF hit(fetch.entry.pc)
         THEN wordOf(blocks[blockOf(lineOf(fetch.entry.pc))], fetch.entry.pc)
         ELSE NoWord]

(* Types and lengths of the queues and of their join.                      *)
LEMMA QueueFacts ==
    ASSUME QueueTypes
    PROVE  /\ rob \in Seq(Entry) /\ iq \in Seq(Entry) /\ fq \in Seq(Entry)
           /\ requestBuffer \in Seq(Entry)
           /\ Len(rob) \in 0 .. RobCap /\ Len(iq) \in 0 .. IqCap - 1
           /\ Len(fq) \in 0 .. FqCap - 1 /\ Len(requestBuffer) \in 0 .. ReqCap
           /\ Front \in Seq(Entry) /\ liveEntries \in Seq(Entry)
           /\ liveEntries = Joined(Front, requestBuffer)
           /\ Len(Front) = Len(rob) + Len(iq) + Len(fq)
           /\ Len(liveEntries) = Len(Front) + Len(requestBuffer)
           /\ Len(liveEntries) \in Nat /\ Len(Front) \in Nat
           /\ DOMAIN liveEntries = 1 .. Len(liveEntries)
           /\ DOMAIN rob = 1 .. Len(rob)
           /\ \A i \in 1 .. Len(rob) : liveEntries[i] = rob[i] /\ rob[i] \in Entry
           /\ \A i \in 1 .. Len(liveEntries) : liveEntries[i] \in Entry
           /\ \A i \in 1 .. Len(liveEntries) :
                liveEntries[i] = IF i <= Len(Front) THEN Front[i]
                                 ELSE requestBuffer[i - Len(Front)]
<1>1. /\ rob \in Seq(Entry) /\ iq \in Seq(Entry) /\ fq \in Seq(Entry)
      /\ requestBuffer \in Seq(Entry)
      /\ Len(rob) \in 0 .. RobCap /\ Len(iq) \in 0 .. IqCap - 1
      /\ Len(fq) \in 0 .. FqCap - 1 /\ Len(requestBuffer) \in 0 .. ReqCap
      /\ DOMAIN rob = 1 .. Len(rob)
  BY LenProperties DEF QueueTypes
<1> DEFINE ri == Joined(rob, iq)
<1>2. /\ ri \in Seq(Entry) /\ Len(ri) = Len(rob) + Len(iq)
      /\ \A i \in 1 .. Len(rob) : ri[i] = rob[i]
  BY <1>1, JoinFacts
<1>3. Front = Joined(ri, fq)
  BY DEF Front, Joined
<1> HIDE DEF ri
<1>4. /\ Front \in Seq(Entry) /\ Len(Front) = Len(ri) + Len(fq)
      /\ \A i \in 1 .. Len(ri) : Front[i] = ri[i]
  <2>1. ri \in Seq(Entry) /\ fq \in Seq(Entry)
    BY <1>1, <1>2
  <2>2. /\ Joined(ri, fq) \in Seq(Entry)
        /\ Len(ri) \in Nat /\ Len(fq) \in Nat
        /\ Len(Joined(ri, fq)) = Len(ri) + Len(fq)
        /\ \A i \in 1 .. Len(ri) : Joined(ri, fq)[i] = ri[i]
        /\ \A i \in 1 .. Len(ri) + Len(fq) :
             Joined(ri, fq)[i] = IF i <= Len(ri) THEN ri[i] ELSE fq[i - Len(ri)]
    BY <2>1, JoinFacts, Zenon
  <2> QED BY <1>3, <2>2, Zenon
<1>5. liveEntries = Joined(Front, requestBuffer)
  BY DEF liveEntries, Front, Joined
<1>6. /\ liveEntries \in Seq(Entry)
      /\ Len(liveEntries) = Len(Front) + Len(requestBuffer)
      /\ \A i \in 1 .. Len(Front) + Len(requestBuffer) :
           liveEntries[i] = IF i <= Len(Front) THEN Front[i]
                            ELSE requestBuffer[i - Len(Front)]
  <2> DEFINE s == Joined(Front, requestBuffer)
  <2>1. Front \in Seq(Entry) /\ requestBuffer \in Seq(Entry)
    BY <1>1, <1>4
  <2>2. /\ s \in Seq(Entry)
        /\ Len(Front) \in Nat /\ Len(requestBuffer) \in Nat
        /\ Len(s) = Len(Front) + Len(requestBuffer)
        /\ \A i \in 1 .. Len(Front) : s[i] = Front[i]
        /\ \A i \in 1 .. Len(Front) + Len(requestBuffer) :
             s[i] = IF i <= Len(Front) THEN Front[i] ELSE requestBuffer[i - Len(Front)]
    BY <2>1, JoinFacts, Zenon
  <2> QED BY <1>5, <2>2, Zenon
<1>7. /\ DOMAIN liveEntries = 1 .. Len(liveEntries)
      /\ \A i \in 1 .. Len(liveEntries) : liveEntries[i] \in Entry
      /\ \A i \in 1 .. Len(rob) : rob[i] \in Entry
  BY <1>1, <1>6, LenProperties, ElementOfSeq
<1>8. \A i \in 1 .. Len(rob) : liveEntries[i] = rob[i]
  BY <1>1, <1>2, <1>4, <1>6
<1> QED BY <1>1, <1>2, <1>4, <1>5, <1>6, <1>7, <1>8

(* Without a squash the queues hand on what they hold, in order.           *)
LEMMA QueuesFlow ==
    ASSUME QueueTypes, FetchTypes,
           NEW squash, NEW issue, NEW commit, NEW fetch,
           StepOf(squash, issue, commit, fetch), ~squash.needSquash
    PROVE  LET q == popped(popConsume)
           IN  /\ rob' \in Seq(Entry) /\ Len(rob') <= RobCap
               /\ iq' \in Seq(Entry) /\ Len(iq') <= IqCap - 1
               /\ fq' \in Seq(Entry) /\ Len(fq') <= FqCap - 1
               /\ q \in Seq(Entry) /\ Len(q) <= ReqCap
               /\ ~isRequestFull => Len(q) < ReqCap
               /\ Joined(Joined(rob', iq'), fq') \in Seq(Entry)
               /\ commit => rob # <<>> /\ liveEntries # <<>>
               /\ Joined(Joined(Joined(rob', iq'), fq'), q)
                    = IF commit THEN Tail(liveEntries) ELSE liveEntries
<1> DEFINE r1 == IF commit THEN Tail(rob) ELSE rob
           r2 == IF issue THEN Append(r1, Head(iq)) ELSE r1
           i1 == IF issue THEN Tail(iq) ELSE iq
           i2 == IF takenByIQ THEN Append(i1, Head(fq)) ELSE i1
           f1 == IF takenByIQ THEN Tail(fq) ELSE fq
           f2 == IF popConsume THEN Append(f1, Head(requestBuffer)) ELSE f1
           q == popped(popConsume)
<1>1. rob' = r2 /\ iq' = i2 /\ fq' = f2
  <2>1. rob' = r2
    BY DEF StepOf, Cycle, BackEndTick
  <2>2. iq' = i2
    BY DEF StepOf, Cycle, DecodeTick, decoded
  <2>3. fq' = f2
    BY DEF StepOf, Cycle, FQtick
  <2> QED BY <2>1, <2>2, <2>3
<1>2. /\ issue \in BOOLEAN /\ commit \in BOOLEAN
      /\ commit => rob # <<>>
      /\ issue => iq # <<>> /\ Len(rob) < RobCap
      /\ takenByIQ => fq # <<>> /\ Len(iq) # IqCap - 1
      /\ popConsume => requestBuffer # <<>> /\ Len(fq) # FqCap - 1
      /\ q = IF popConsume THEN Tail(requestBuffer) ELSE requestBuffer
  BY DEF StepOf, Cycle, mayCommit, mayIssue, takenByIQ, iqIsFull, popConsume,
         isReturnReady, fqIsFull, popped
<1>3. /\ rob \in Seq(Entry) /\ iq \in Seq(Entry) /\ fq \in Seq(Entry)
      /\ requestBuffer \in Seq(Entry)
      /\ Len(rob) \in 0 .. RobCap /\ Len(iq) \in 0 .. IqCap - 1
      /\ Len(fq) \in 0 .. FqCap - 1 /\ Len(requestBuffer) \in 0 .. ReqCap
      /\ liveEntries = Joined(Joined(Joined(rob, iq), fq), requestBuffer)
      /\ RobCap \in Nat /\ IqCap \in Nat /\ FqCap \in Nat /\ ReqCap \in Nat
  BY QueueFacts, FrontEndAssumption, ICacheAssumption
     DEF liveEntries, Joined
<1>4. /\ r1 \in Seq(Entry) /\ Len(r1) \in Nat /\ Len(r1) <= Len(rob)
  BY <1>2, <1>3, HeadTailProperties, LenProperties
<1> HIDE DEF r1
<1>5. /\ r2 \in Seq(Entry) /\ i1 \in Seq(Entry) /\ Joined(r2, i1) = Joined(r1, iq)
      /\ Len(r2) <= RobCap /\ Len(i1) \in Nat /\ Len(i1) <= Len(iq)
  <2>1. /\ r2 \in Seq(Entry) /\ i1 \in Seq(Entry) /\ Joined(r2, i1) = Joined(r1, iq)
        /\ Len(r2) = Len(r1) + (IF issue THEN 1 ELSE 0)
        /\ Len(i1) = Len(iq) - (IF issue THEN 1 ELSE 0)
        /\ Len(i1) \in Nat
    BY <1>2, <1>3, <1>4, HandOver
  <2> HIDE DEF r2, i1
  <2> QED BY <1>2, <1>3, <1>4, <2>1
<1> HIDE DEF r2, i1
<1>6. /\ i2 \in Seq(Entry) /\ f1 \in Seq(Entry) /\ Joined(i2, f1) = Joined(i1, fq)
      /\ Len(i2) <= IqCap - 1 /\ Len(f1) \in Nat /\ Len(f1) <= Len(fq)
  <2>1. takenByIQ \in BOOLEAN
    BY DEF takenByIQ
  <2>2. /\ i2 \in Seq(Entry) /\ f1 \in Seq(Entry) /\ Joined(i2, f1) = Joined(i1, fq)
        /\ Len(i2) = Len(i1) + (IF takenByIQ THEN 1 ELSE 0)
        /\ Len(f1) = Len(fq) - (IF takenByIQ THEN 1 ELSE 0)
        /\ Len(f1) \in Nat
    BY <1>2, <1>3, <1>5, <2>1, HandOver
  <2> HIDE DEF i2, f1
  <2> QED BY <1>2, <1>3, <1>5, <2>1, <2>2, SMTT(20)
<1> HIDE DEF i2, f1
<1>7. /\ f2 \in Seq(Entry) /\ q \in Seq(Entry) /\ Joined(f2, q) = Joined(f1, requestBuffer)
      /\ Len(f2) <= FqCap - 1 /\ Len(q) <= Len(requestBuffer)
  <2>1. popConsume \in BOOLEAN
    BY DEF popConsume
  <2> DEFINE b == IF popConsume THEN Tail(requestBuffer) ELSE requestBuffer
  <2>2. /\ f2 \in Seq(Entry) /\ b \in Seq(Entry) /\ Joined(f2, b) = Joined(f1, requestBuffer)
        /\ Len(f2) = Len(f1) + (IF popConsume THEN 1 ELSE 0)
        /\ Len(b) = Len(requestBuffer) - (IF popConsume THEN 1 ELSE 0)
        /\ Len(b) \in Nat
    BY <1>2, <1>3, <1>6, <2>1, HandOver
  <2>3. q = b
    BY <1>2
  <2> HIDE DEF f2, b, q
  <2>4. Len(f2) <= FqCap - 1
    BY <1>2, <1>3, <1>6, <2>1, <2>2, SMTT(20)
  <2>5. Len(b) <= Len(requestBuffer)
    BY <1>3, <2>1, <2>2
  <2> QED BY <2>2, <2>3, <2>4, <2>5
<1> HIDE DEF f2, q
<1>8. /\ Joined(r2, i2) \in Seq(Entry) /\ Joined(Joined(r2, i2), f2) \in Seq(Entry)
      /\ Joined(r1, iq) \in Seq(Entry) /\ Joined(Joined(r1, iq), fq) \in Seq(Entry)
  BY <1>3, <1>4, <1>5, <1>6, <1>7, JoinFacts
<1>9. Joined(Joined(Joined(r2, i2), f2), q)
        = Joined(Joined(Joined(r1, iq), fq), requestBuffer)
  <2>1. Joined(Joined(Joined(r2, i2), f2), q) = Joined(Joined(r2, i2), Joined(f2, q))
    BY <1>7, <1>8, JoinAssociative
  <2>2. Joined(Joined(r2, i2), Joined(f1, requestBuffer))
          = Joined(Joined(Joined(r2, i2), f1), requestBuffer)
    BY <1>3, <1>6, <1>8, JoinAssociative
  <2>3. Joined(Joined(r2, i2), f1) = Joined(r2, Joined(i2, f1))
    BY <1>5, <1>6, JoinAssociative
  <2>4. Joined(r2, Joined(i1, fq)) = Joined(Joined(r2, i1), fq)
    BY <1>3, <1>5, JoinAssociative
  <2> QED BY <1>5, <1>6, <1>7, <2>1, <2>2, <2>3, <2>4, Zenon
<1>10. commit =>
         /\ liveEntries # <<>>
         /\ Joined(Joined(Joined(r1, iq), fq), requestBuffer) = Tail(liveEntries)
  <2> SUFFICES ASSUME commit
               PROVE  /\ liveEntries # <<>>
                      /\ Joined(Joined(Joined(r1, iq), fq), requestBuffer)
                           = Tail(liveEntries)
    OBVIOUS
  <2>1. rob # <<>> /\ r1 = Tail(rob)
    BY <1>2 DEF r1
  <2>2. /\ Joined(rob, iq) \in Seq(Entry) /\ Joined(rob, iq) # <<>>
        /\ Joined(r1, iq) = Tail(Joined(rob, iq))
    BY <1>3, <2>1, TailMoves
  <2>3. /\ Joined(Joined(rob, iq), fq) \in Seq(Entry)
        /\ Joined(Joined(rob, iq), fq) # <<>>
        /\ Joined(Joined(r1, iq), fq) = Tail(Joined(Joined(rob, iq), fq))
    BY <1>3, <2>2, TailMoves
  <2>4. /\ liveEntries # <<>>
        /\ Joined(Joined(Joined(r1, iq), fq), requestBuffer) = Tail(liveEntries)
    BY <1>3, <2>3, TailMoves
  <2> QED BY <2>4
<1>11. ~commit =>
         Joined(Joined(Joined(r1, iq), fq), requestBuffer) = liveEntries
  BY <1>3 DEF r1
<1>12. /\ Len(q) <= ReqCap
       /\ ~isRequestFull => Len(q) < ReqCap
  <2>1. ~isRequestFull => Len(requestBuffer) # ReqCap
    BY DEF isRequestFull
  <2>2. Len(q) \in Nat
    BY <1>7, LenProperties
  <2> QED BY <1>3, <1>7, <2>1, <2>2
<1> DEFINE left == Joined(Joined(Joined(rob', iq'), fq'), q)
<1>13. left = IF commit THEN Tail(liveEntries) ELSE liveEntries
  BY <1>1, <1>2, <1>9, <1>10, <1>11
<1> QED BY <1>1, <1>2, <1>5, <1>6, <1>7, <1>8, <1>10, <1>12, <1>13 DEF q

(* A word the cache finds is a number.                                     *)
LEMMA WordIsNumber ==
    ASSUME NEW a \in Nat
    PROVE  /\ \A l \in Int : wordOf(l, a) \in Int
           /\ lineOf(a) \in Nat /\ wordOf(lineOf(a), a) = a
<1>1. LineWords \in Nat \ {0}
  BY ICacheAssumption
<1>2. a % LineWords \in 0 .. LineWords - 1 /\ a \div LineWords \in Nat
      /\ a = LineWords * (a \div LineWords) + (a % LineWords)
  BY <1>1
<1>3. \A l \in Int : l * LineWords \in Int
  BY <1>1
<1>4. lineOf(a) \in Nat /\ wordOf(lineOf(a), a) = a
  BY <1>1, <1>2 DEF wordOf, lineOf
<1> QED BY <1>2, <1>3, <1>4 DEF wordOf

(* The placeholder x with the returned line's word.                        *)
Filled(x) ==
    [x EXCEPT !.valid = TRUE, !.raw_inst = wordOf(returnedLine, x.pc)]

(* The line that comes back goes to the head, if the head is waiting       *)
(* (ICache::tick).                                                         *)
LEMMA BackfillFacts ==
    ASSUME QueueTypes, FetchTypes, NEW q \in Seq(Entry)
    PROVE  /\ backfilled(q) \in Seq(Entry) /\ Len(backfilled(q)) = Len(q)
           /\ \A i \in 1 .. Len(q) :
                backfilled(q)[i] = IF i = 1 /\ lineReturn /\ ~q[1].valid
                                     THEN Filled(q[1]) ELSE q[i]
<1>1. Len(q) \in Nat /\ DOMAIN q = 1 .. Len(q) /\ \A i \in 1 .. Len(q) : q[i] \in Entry
  BY LenProperties, ElementOfSeq
<1>2. CASE lineReturn /\ q # <<>> /\ ~Head(q).valid
  <2>1. Len(q) >= 1 /\ Head(q) = q[1] /\ q[1] \in Entry /\ ~q[1].valid
    BY <1>1, <1>2, EmptySeq, HeadTailProperties
  <2>2. Filled(q[1]) \in Entry
    <3>1. returnedLine \in Int
      <4>1. IMEMreqs # <<>> /\ IMEMreqs \in Seq([line : Nat, remain : Nat])
        BY <1>2 DEF lineReturn, QueueTypes
      <4>2. Head(IMEMreqs) \in [line : Nat, remain : Nat]
        BY <4>1, HeadTailProperties
      <4> QED BY <4>2 DEF returnedLine
    <3>2. q[1].pc \in Nat
      BY <2>1, CodeFacts DEF Entry
    <3>3. wordOf(returnedLine, q[1].pc) \in Int
      BY <3>1, <3>2, WordIsNumber
    <3> QED BY <2>1, <3>3 DEF Filled, Entry
  <2>3. backfilled(q) = [q EXCEPT ![1] = Filled(q[1])]
    BY <1>2, <2>1 DEF backfilled, Filled
  <2>4. [q EXCEPT ![1] = Filled(q[1])] \in Seq(Entry)
        /\ Len([q EXCEPT ![1] = Filled(q[1])]) = Len(q)
        /\ \A i \in 1 .. Len(q) :
             [q EXCEPT ![1] = Filled(q[1])][i] = IF i = 1 THEN Filled(q[1]) ELSE q[i]
    <3>1. 1 \in 1 .. Len(q)
      BY <1>1, <2>1
    <3> QED BY <1>1, <2>2, <3>1, ExceptSeq
  <2> QED BY <1>2, <2>1, <2>3, <2>4
<1>3. CASE ~(lineReturn /\ q # <<>> /\ ~Head(q).valid)
  <2>1. backfilled(q) = q
    BY <1>3 DEF backfilled
  <2>2. Len(q) >= 1 => ~(lineReturn /\ ~q[1].valid)
    BY <1>1, <1>3, EmptySeq, HeadTailProperties
  <2>3. \A i \in 1 .. Len(q) : ~(i = 1 /\ lineReturn /\ ~q[1].valid)
    BY <1>1, <2>2
  <2> QED BY <2>1, <2>3
<1> QED BY <1>2, <1>3

(* What the cache makes of a fetch: a hit has its own word.                *)
LEMMA EnteredFacts ==
    ASSUME PredictorTypes, QueueTypes, FetchTypes,
           NEW squash, NEW fetch \in fetchDecisions(squash), fetch.valid,
           NEW q
    PROVE  /\ pushRequest(q, fetch) = Append(q, entered(fetch))
           /\ entered(fetch) \in Entry
           /\ entered(fetch).pc = programCounter
           /\ entered(fetch).predictPC = fetch.entry.predictPC
           /\ entered(fetch).ckptId = nextCkptId
           /\ entered(fetch).ghr = GHR
           /\ entered(fetch).stack = stackOf(RAS, RAS_top)
           /\ entered(fetch).valid = hit(programCounter)
           /\ entered(fetch).valid => entered(fetch).raw_inst = programCounter
<1>1. /\ fetch.entry \in Entry /\ fetch.entry.pc = programCounter
      /\ fetch.entry.ckptId = nextCkptId /\ fetch.entry.ghr = GHR
      /\ fetch.entry.stack = stackOf(RAS, RAS_top)
  BY FetchFacts
<1>2. programCounter \in Nat
  BY CodeFacts DEF FetchTypes
<1> DEFINE b == blocks[blockOf(lineOf(programCounter))]
           raw == IF hit(programCounter) THEN wordOf(b, programCounter) ELSE NoWord
<1>3. entered(fetch) = [fetch.entry EXCEPT !.valid = hit(programCounter), !.raw_inst = raw]
  BY <1>1 DEF entered
<1>4. /\ hit(programCounter) \in BOOLEAN
      /\ hit(programCounter) => b = lineOf(programCounter)
  BY DEF hit
<1>5. raw \in Int /\ (hit(programCounter) => raw = programCounter)
  BY <1>2, <1>4, WordIsNumber DEF NoWord
<1> HIDE DEF raw
<1>6. /\ entered(fetch) \in Entry
      /\ entered(fetch).pc = programCounter
      /\ entered(fetch).predictPC = fetch.entry.predictPC
      /\ entered(fetch).ckptId = nextCkptId
      /\ entered(fetch).ghr = GHR
      /\ entered(fetch).stack = stackOf(RAS, RAS_top)
      /\ entered(fetch).valid = hit(programCounter)
      /\ entered(fetch).raw_inst = raw
  BY <1>1, <1>3, <1>4, <1>5 DEF Entry
<1>7. pushRequest(q, fetch) = Append(q, entered(fetch))
  BY DEF pushRequest, entered
<1>8. entered(fetch).valid => entered(fetch).raw_inst = programCounter
  BY <1>5, <1>6
<1> QED BY <1>6, <1>7, <1>8, Zenon

(* Instruction y of the next state is instruction x of this one.           *)
Same(x, y) ==
    y.pc = x.pc /\ y.ckptId = x.ckptId /\ y.ghr = x.ghr /\ y.stack = x.stack

(* Its word stays, or it is filled.                                        *)
SameWord(x, y) == y.valid = x.valid /\ y.raw_inst = x.raw_inst

(* Without a squash: the oldest leaves if it commits, the fetch comes, the *)
(* placeholder behind what the cache has handed on may be filled.          *)
LEMMA Flow ==
    ASSUME PredictorTypes, QueueTypes, FetchTypes,
           NEW squash, NEW issue, NEW commit, NEW fetch,
           StepOf(squash, issue, commit, fetch), ~squash.needSquash
    PROVE  LET d == IF commit THEN 1 ELSE 0
               n == Len(liveEntries) - d
               p == Len(Front) - d + (IF popConsume THEN 1 ELSE 0)
           IN  /\ n \in Nat /\ p \in 0 .. n
               /\ liveEntries' \in Seq(Entry)
               /\ Len(liveEntries') = n + (IF fetch.valid THEN 1 ELSE 0)
               /\ Len(Front') = p
               /\ \A i \in 1 .. n :
                    /\ Same(liveEntries[i + d], liveEntries'[i])
                    /\ liveEntries'[i].predictPC = liveEntries[i + d].predictPC
                    /\ IF i = p + 1 /\ lineReturn /\ ~liveEntries[i + d].valid
                         THEN liveEntries'[i] = Filled(liveEntries[i + d])
                         ELSE SameWord(liveEntries[i + d], liveEntries'[i])
               /\ fetch.valid => liveEntries'[n + 1] = entered(fetch)
<1> DEFINE d == IF commit THEN 1 ELSE 0
           n == Len(liveEntries) - d
           p == Len(Front) - d + (IF popConsume THEN 1 ELSE 0)
           q == popped(popConsume)
           b == backfilled(q)
           r == pushRequest(b, fetch)
           left == Joined(Joined(Joined(rob', iq'), fq'), q)
           core == IF commit THEN Tail(liveEntries) ELSE liveEntries
<1>1. /\ q \in Seq(Entry) /\ Front' \in Seq(Entry)
      /\ left = Joined(Front', q) /\ left = core
      /\ commit => liveEntries # <<>>
  BY QueuesFlow, SMTT(20) DEF Front, Joined
<1>2. /\ liveEntries \in Seq(Entry) /\ Len(liveEntries) \in Nat /\ Len(Front) \in Nat
      /\ requestBuffer \in Seq(Entry) /\ Len(requestBuffer) \in Nat
      /\ Len(liveEntries) = Len(Front) + Len(requestBuffer)
  <2>1. /\ liveEntries \in Seq(Entry) /\ Len(liveEntries) \in Nat /\ Len(Front) \in Nat
        /\ requestBuffer \in Seq(Entry)
        /\ Len(liveEntries) = Len(Front) + Len(requestBuffer)
    BY QueueFacts
  <2> QED BY <2>1, LenProperties
<1>3. requestBuffer' = r /\ liveEntries' = Joined(Front', r)
  <2>1. requestBuffer' = r
    BY DEF StepOf, Cycle, ICacheTick, afterReturn
  <2> QED BY <2>1 DEF liveEntries, Front, Joined
<1>4. /\ b \in Seq(Entry) /\ Len(b) = Len(q)
      /\ \A i \in 1 .. Len(q) :
           b[i] = IF i = 1 /\ lineReturn /\ ~q[1].valid THEN Filled(q[1]) ELSE q[i]
  BY <1>1, BackfillFacts
<1>5. /\ core \in Seq(Entry) /\ Len(core) = n
      /\ n \in Nat
      /\ \A i \in 1 .. n : core[i] = liveEntries[i + d]
  <2>1. CASE commit
    <3>1. /\ Tail(liveEntries) \in Seq(Entry)
          /\ Len(Tail(liveEntries)) = Len(liveEntries) - 1
          /\ \A i \in 1 .. Len(liveEntries) - 1 : Tail(liveEntries)[i] = liveEntries[i + 1]
          /\ Len(liveEntries) # 0
      BY <1>1, <1>2, <2>1, HeadTailProperties, EmptySeq
    <3>2. core = Tail(liveEntries) /\ d = 1 /\ n = Len(liveEntries) - 1
      BY <2>1
    <3> HIDE DEF core, d, n
    <3>3. n \in Nat
      BY <1>2, <3>1, <3>2
    <3> QED BY <3>1, <3>2, <3>3, Zenon
  <2>2. CASE ~commit
    <3>1. core = liveEntries /\ d = 0 /\ n = Len(liveEntries)
      BY <1>2, <2>2
    <3>2. \A i \in 1 .. n : i + d = i
      BY <1>2, <3>1
    <3> HIDE DEF core, d, n
    <3> QED BY <1>2, <3>1, <3>2, Zenon
  <2> QED BY <2>1, <2>2
<1> HIDE DEF left, core, b, r
<1>6. /\ Len(q) \in Nat /\ Len(Front') \in Nat
      /\ Len(left) = Len(Front') + Len(q)
      /\ \A i \in 1 .. Len(Front') + Len(q) :
           left[i] = IF i <= Len(Front') THEN Front'[i] ELSE q[i - Len(Front')]
  <2> DEFINE f == Front'
  <2>1. f \in Seq(Entry) /\ q \in Seq(Entry) /\ left = Joined(f, q)
    BY <1>1
  <2> HIDE DEF f, q
  <2>2. /\ Joined(f, q) \in Seq(Entry)
        /\ Len(f) \in Nat /\ Len(q) \in Nat
        /\ Len(Joined(f, q)) = Len(f) + Len(q)
        /\ \A i \in 1 .. Len(f) : Joined(f, q)[i] = f[i]
        /\ \A i \in 1 .. Len(f) + Len(q) :
             Joined(f, q)[i] = IF i <= Len(f) THEN f[i] ELSE q[i - Len(f)]
    BY <2>1, JoinFacts, Zenon
  <2> QED BY <2>1, <2>2, Zenon DEF f
<1>7. Len(Front') = p /\ p \in 0 .. n /\ Len(q) = n - p
  <2>1. Len(q) = Len(requestBuffer) - (IF popConsume THEN 1 ELSE 0)
    <3>1. popConsume => requestBuffer # <<>>
      BY DEF popConsume, isReturnReady
    <3> QED BY <1>2, <3>1, HeadTailProperties DEF popped
  <2>2. Len(Front') + Len(q) = n
    BY <1>1, <1>5, <1>6
  <2> HIDE DEF q
  <2> QED BY <1>2, <1>6, <2>1, <2>2
<1> HIDE DEF d, n, p
<1>8. /\ r \in Seq(Entry) /\ Len(r) = Len(q) + (IF fetch.valid THEN 1 ELSE 0)
      /\ \A i \in 1 .. Len(q) : r[i] = b[i]
      /\ fetch.valid => r[Len(q) + 1] = entered(fetch)
  <2>1. CASE fetch.valid
    <3>1. r = Append(b, entered(fetch)) /\ entered(fetch) \in Entry
      BY <2>1, EnteredFacts DEF StepOf, r
    <3> HIDE DEF q
    <3>2. /\ Append(b, entered(fetch)) \in Seq(Entry)
          /\ Len(Append(b, entered(fetch))) = Len(b) + 1
          /\ \A i \in 1 .. Len(b) : Append(b, entered(fetch))[i] = b[i]
          /\ Append(b, entered(fetch))[Len(b) + 1] = entered(fetch)
      BY <1>4, <3>1, AppendProperties
    <3> QED BY <1>4, <2>1, <3>1, <3>2
  <2>2. CASE ~fetch.valid
    <3>1. r = b
      BY <2>2 DEF r, pushRequest
    <3> HIDE DEF q
    <3> QED BY <1>4, <1>6, <2>2, <3>1
  <2> QED BY <2>1, <2>2
<1> HIDE DEF q
<1>9. /\ liveEntries' \in Seq(Entry)
      /\ Len(liveEntries') = Len(Front') + Len(r)
      /\ \A i \in 1 .. Len(Front') + Len(r) :
           liveEntries'[i] = IF i <= Len(Front') THEN Front'[i] ELSE r[i - Len(Front')]
  BY <1>1, <1>3, <1>8, JoinFacts
<1>10. /\ Len(liveEntries') = n + (IF fetch.valid THEN 1 ELSE 0)
       /\ fetch.valid => liveEntries'[n + 1] = entered(fetch)
  <2>1. Len(liveEntries') = n + (IF fetch.valid THEN 1 ELSE 0)
    BY <1>5, <1>7, <1>8, <1>9
  <2>2. ASSUME fetch.valid PROVE liveEntries'[n + 1] = entered(fetch)
    <3> DEFINE m == n + 1
    <3>1. /\ m \in 1 .. Len(Front') + Len(r) /\ ~(m <= Len(Front'))
          /\ m - Len(Front') = Len(q) + 1
      BY <1>5, <1>7, <1>8, <2>2
    <3> HIDE DEF m
    <3>2. liveEntries'[m] = r[m - Len(Front')]
      BY <1>9, <3>1
    <3>3. r[m - Len(Front')] = r[Len(q) + 1]
      BY <3>1
    <3> QED BY <1>8, <2>2, <3>2, <3>3, Zenon DEF m
  <2> QED BY <2>1, <2>2
<1>11. ASSUME NEW i \in 1 .. n
       PROVE  liveEntries'[i] = IF i = p + 1 /\ lineReturn /\ ~liveEntries[i + d].valid
                                  THEN Filled(liveEntries[i + d])
                                  ELSE liveEntries[i + d]
  <2>1. left[i] = liveEntries[i + d]
    BY <1>1, <1>5
  <2>2. i \in 1 .. Len(Front') + Len(q) /\ i \in 1 .. Len(Front') + Len(r)
    BY <1>5, <1>7, <1>8
  <2>3. CASE i <= Len(Front')
    <3>1. liveEntries'[i] = Front'[i] /\ left[i] = Front'[i]
      BY <1>6, <1>9, <2>2, <2>3
    <3>2. i # p + 1
      BY <1>5, <1>7, <2>3
    <3> QED BY <2>1, <3>1, <3>2
  <2>4. CASE ~(i <= Len(Front'))
    <3> DEFINE k == i - Len(Front')
    <3>1. k \in 1 .. Len(q) /\ (k = 1 <=> i = p + 1)
      BY <1>5, <1>7, <2>4
    <3>2. liveEntries'[i] = r[k] /\ left[i] = q[k]
      BY <1>6, <1>9, <2>2, <2>4
    <3> HIDE DEF k
    <3>3. r[k] = IF k = 1 /\ lineReturn /\ ~q[1].valid THEN Filled(q[1]) ELSE q[k]
      BY <1>4, <1>8, <3>1
    <3> QED BY <2>1, <3>1, <3>2, <3>3
  <2> QED BY <2>3, <2>4
<1>12. \A i \in 1 .. n :
         /\ Same(liveEntries[i + d], liveEntries'[i])
         /\ liveEntries'[i].predictPC = liveEntries[i + d].predictPC
         /\ IF i = p + 1 /\ lineReturn /\ ~liveEntries[i + d].valid
              THEN liveEntries'[i] = Filled(liveEntries[i + d])
              ELSE SameWord(liveEntries[i + d], liveEntries'[i])
  <2> TAKE i \in 1 .. n
  <2> DEFINE x == liveEntries[i + d]
             y == liveEntries'[i]
  <2>1. x \in Entry
    <3>1. i \in 1 .. Len(core) /\ core \in Seq(Entry)
      BY <1>5
    <3> QED BY <1>5, <3>1, ElementOfSeq
  <2>2. y = IF i = p + 1 /\ lineReturn /\ ~x.valid THEN Filled(x) ELSE x
    BY <1>11
  <2> HIDE DEF x, y
  <2>3. /\ Filled(x).pc = x.pc /\ Filled(x).ckptId = x.ckptId /\ Filled(x).ghr = x.ghr
        /\ Filled(x).stack = x.stack /\ Filled(x).predictPC = x.predictPC
    BY <2>1 DEF Filled, Entry
  <2>4. /\ Same(x, y) /\ y.predictPC = x.predictPC
        /\ IF i = p + 1 /\ lineReturn /\ ~x.valid THEN y = Filled(x) ELSE SameWord(x, y)
    BY <2>2, <2>3 DEF Same, SameWord
  <2> QED BY <2>4 DEF x, y
<1> QED BY <1>5, <1>7, <1>9, <1>10, <1>12 DEF d, n, p

(* With a squash: the back end's instructions up to the squashed one are   *)
(* left, less the oldest if it commits.                                    *)
LEMMA Cut ==
    ASSUME PredictorTypes, QueueTypes, FetchTypes,
           NEW squash, NEW issue, NEW commit, NEW fetch,
           StepOf(squash, issue, commit, fetch), squash.needSquash
    PROVE  LET d == IF commit THEN 1 ELSE 0
               n == squash.at - d
           IN  /\ ~fetch.valid
               /\ squash.at \in 1 .. Len(rob) /\ n \in Nat \ {0}
               /\ squash.at <= Len(liveEntries)
               /\ squash.CkptId = liveEntries[squash.at].ckptId
               /\ rob' \in Seq(Entry) /\ Len(rob') = n
               /\ iq' = <<>> /\ fq' = <<>> /\ requestBuffer' = <<>>
               /\ liveEntries' = rob'
               /\ \A i \in 1 .. n :
                    /\ Same(liveEntries[i + d], liveEntries'[i])
                    /\ liveEntries'[i].predictPC =
                         IF i = n THEN squash.SquashPC
                         ELSE liveEntries[i + d].predictPC
                    /\ SameWord(liveEntries[i + d], liveEntries'[i])
<1> DEFINE d == IF commit THEN 1 ELSE 0
           n == squash.at - d
           at == squash.at
           to == squash.SquashPC
           h == SubSeq(rob, 1, at)
           again == ~isControl(rob[at])
           g == cutBack(squash)
           left == IF commit THEN Tail(g) ELSE g
<1>1. /\ at \in DOMAIN rob /\ squash.CkptId = rob[at].ckptId /\ to \in DOMAIN code
      /\ ~fetch.valid
      /\ commit => at > 1
      /\ ~issue
      /\ iq' = <<>> /\ fq' = <<>> /\ requestBuffer' = <<>>
  <2>1. /\ at \in DOMAIN rob /\ squash.CkptId = rob[at].ckptId /\ to \in DOMAIN code
    BY SquashFacts DEF StepOf
  <2>2. ~fetch.valid
    BY FetchFacts DEF StepOf
  <2>3. (commit => at > 1) /\ ~issue
    BY DEF StepOf, Cycle, mayCommit, mayIssue
  <2>4. iq' = <<>> /\ fq' = <<>> /\ requestBuffer' = <<>>
    BY DEF StepOf, Cycle, DecodeTick, decoded, FQtick, ICacheTick
  <2> QED BY <2>1, <2>2, <2>3, <2>4
<1>2. rob' = left
  BY <1>1 DEF StepOf, Cycle, BackEndTick
<1>3. /\ rob \in Seq(Entry) /\ DOMAIN rob = 1 .. Len(rob) /\ Len(rob) \in Nat
      /\ Len(rob) <= Len(liveEntries)
      /\ \A i \in 1 .. Len(rob) : liveEntries[i] = rob[i] /\ rob[i] \in Entry
      /\ commit \in BOOLEAN
  <2>1. /\ rob \in Seq(Entry) /\ DOMAIN rob = 1 .. Len(rob)
        /\ Len(rob) \in Nat /\ Len(iq) \in Nat /\ Len(fq) \in Nat
        /\ Len(requestBuffer) \in Nat
        /\ Len(Front) = Len(rob) + Len(iq) + Len(fq)
        /\ Len(liveEntries) = Len(Front) + Len(requestBuffer)
        /\ \A i \in 1 .. Len(rob) : liveEntries[i] = rob[i] /\ rob[i] \in Entry
    BY QueueFacts
  <2> HIDE DEF Front
  <2> QED BY <2>1 DEF StepOf
<1> HIDE DEF at, to
<1>4. /\ h \in Seq(Entry) /\ Len(h) = at /\ at \in 1 .. Len(rob)
      /\ \A i \in 1 .. at : h[i] = rob[i]
  <2>1. at \in 1 .. Len(rob) /\ at - 1 + 1 = at /\ 1 \in 1 .. Len(rob)
    BY <1>1, <1>3
  <2>2. \A i \in 1 .. at : rob[i] \in Entry /\ 1 + i - 1 = i
    BY <1>3, <2>1
  <2>3. /\ SubSeq(rob, 1, at) \in Seq(Entry)
        /\ Len(SubSeq(rob, 1, at)) = IF 1 <= at THEN at - 1 + 1 ELSE 0
        /\ \A i \in 1 .. at - 1 + 1 : SubSeq(rob, 1, at)[i] = rob[1 + i - 1]
    <3>1. 1 \in 1 .. Len(rob) + 1 /\ at \in 0 .. Len(rob)
      BY <1>3, <2>1
    <3> QED BY <1>3, <3>1, <2>1, SubSeqProperties
  <2> QED BY <2>1, <2>2, <2>3
<1> DEFINE e == [h[at] EXCEPT !.predictPC = to, !.open = again]
<1>5. /\ e \in Entry /\ Same(h[at], e) /\ SameWord(h[at], e) /\ e.predictPC = to
  <2> DEFINE x == h[at]
  <2>1. x \in Entry
    BY <1>3, <1>4
  <2> HIDE DEF x
  <2>2. to \in DOMAIN code /\ again \in BOOLEAN
    BY <1>1
  <2> HIDE DEF again
  <2>3. [x EXCEPT !.predictPC = to, !.open = again] \in Entry
    BY <2>1, <2>2 DEF Entry
  <2>4. /\ Same(x, [x EXCEPT !.predictPC = to, !.open = again])
        /\ SameWord(x, [x EXCEPT !.predictPC = to, !.open = again])
        /\ [x EXCEPT !.predictPC = to, !.open = again].predictPC = to
    BY <2>1 DEF Entry, Same, SameWord
  <2> QED BY <2>3, <2>4 DEF x
<1>6. /\ g \in Seq(Entry) /\ Len(g) = at
      /\ \A i \in 1 .. at : g[i] = IF i = at THEN e ELSE rob[i]
  <2>1. DOMAIN h = 1 .. at
    BY <1>4, LenProperties
  <2>2. g = [h EXCEPT ![at] = e]
    BY <1>4, <2>1 DEF cutBack, at, to
  <2> HIDE DEF h, e, g
  <2>3. at \in 1 .. Len(h)
    BY <1>4
  <2>4. /\ [h EXCEPT ![at] = e] \in Seq(Entry) /\ Len([h EXCEPT ![at] = e]) = Len(h)
        /\ \A i \in 1 .. Len(h) : [h EXCEPT ![at] = e][i] = IF i = at THEN e ELSE h[i]
    BY <1>4, <1>5, <2>3, ExceptSeq
  <2> QED BY <1>4, <2>2, <2>4
<1>7. \A i \in 1 .. at :
        /\ Same(liveEntries[i], g[i]) /\ SameWord(liveEntries[i], g[i])
        /\ g[i].predictPC = IF i = at THEN to ELSE liveEntries[i].predictPC
  <2> TAKE i \in 1 .. at
  <2>1. liveEntries[i] = rob[i] /\ h[i] = rob[i]
    BY <1>3, <1>4
  <2> HIDE DEF h, e, g
  <2>2. CASE i = at
    BY <1>5, <1>6, <2>1, <2>2
  <2>3. CASE i # at
    BY <1>6, <2>1, <2>3 DEF Same, SameWord
  <2> QED BY <2>2, <2>3
<1> HIDE DEF h, e, g
<1>8. /\ left \in Seq(Entry) /\ Len(left) = n /\ n \in Nat \ {0}
      /\ \A i \in 1 .. n : left[i] = g[i + d] /\ i + d \in 1 .. at
  <2>1. CASE commit
    <3>1. at > 1 /\ left = Tail(g) /\ d = 1
      BY <1>1, <2>1
    <3>2. g # <<>>
      BY <1>4, <1>6, EmptySeq
    <3>3. /\ Tail(g) \in Seq(Entry) /\ Len(Tail(g)) = Len(g) - 1
          /\ \A i \in 1 .. Len(Tail(g)) : Tail(g)[i] = g[i + 1]
      BY <1>6, <3>2, HeadTailProperties
    <3> HIDE DEF left, d
    <3>4. n = at - 1
      BY <3>1 DEF at
    <3> QED BY <1>4, <1>6, <3>1, <3>3, <3>4
  <2>2. CASE ~commit
    <3>1. left = g /\ d = 0
      BY <2>2
    <3> HIDE DEF left, d
    <3>2. n = at
      BY <1>4, <3>1 DEF at
    <3> QED BY <1>4, <1>6, <3>1, <3>2
  <2> QED BY <1>3, <2>1, <2>2
<1> HIDE DEF left
<1>9. liveEntries' = rob'
  <2>1. liveEntries' = Joined(Joined(Joined(rob', <<>>), <<>>), <<>>)
    BY <1>1 DEF liveEntries, Joined
  <2>2. Joined(rob', <<>>) = rob'
    BY <1>2, <1>8, ConcatEmptySeq, Zenon DEF Joined
  <2> QED BY <2>1, <2>2, Zenon
<1>10. ASSUME NEW i \in 1 .. n
       PROVE  /\ Same(liveEntries[i + d], liveEntries'[i])
              /\ liveEntries'[i].predictPC =
                   IF i = n THEN to ELSE liveEntries[i + d].predictPC
              /\ SameWord(liveEntries[i + d], liveEntries'[i])
  <2>1. liveEntries'[i] = g[i + d] /\ i + d \in 1 .. at
    BY <1>2, <1>8, <1>9
  <2>2. i + d = at <=> i = n
    <3>1. i \in Int /\ d \in Int /\ at \in Int /\ n = at - d
      BY <1>4 DEF at
    <3> HIDE DEF n, d
    <3> QED BY <3>1
  <2> HIDE DEF n, d
  <2>3. /\ Same(liveEntries[i + d], g[i + d]) /\ SameWord(liveEntries[i + d], g[i + d])
        /\ g[i + d].predictPC = IF i + d = at THEN to ELSE liveEntries[i + d].predictPC
    BY <1>7, <2>1
  <2> QED BY <2>1, <2>2, <2>3
<1>11. squash.CkptId = liveEntries[at].ckptId /\ at <= Len(liveEntries)
  <2>1. at <= Len(liveEntries)
    BY <1>3, <1>4, QueueFacts
  <2> QED BY <1>1, <1>3, <1>4, <2>1 DEF at
<1> QED BY <1>1, <1>2, <1>4, <1>8, <1>9, <1>10, <1>11 DEF at, to

(* Either way: d instructions leave at the old end, n stay, and a fetch is *)
(* the youngest.                                                           *)
Moved(squash, fetch, d, n) ==
    /\ d \in {0, 1} /\ n \in Nat /\ n + d <= Len(liveEntries)
    /\ liveEntries' \in Seq(Entry)
    /\ Len(liveEntries') = n + (IF fetch.valid THEN 1 ELSE 0)
    /\ IF squash.needSquash
         THEN n > 0 /\ squash.CkptId = liveEntries[n + d].ckptId
         ELSE n + d = Len(liveEntries)
    /\ \A i \in 1 .. n :
         /\ Same(liveEntries[i + d], liveEntries'[i])
         /\ liveEntries'[i].predictPC =
              IF squash.needSquash /\ i = n THEN squash.SquashPC
              ELSE liveEntries[i + d].predictPC
    /\ fetch.valid => ~squash.needSquash /\ liveEntries'[n + 1] = entered(fetch)

(* A cycle moves the joined queues so.                                     *)
LEMMA Moves ==
    ASSUME PredictorTypes, QueueTypes, FetchTypes,
           NEW squash, NEW issue, NEW commit, NEW fetch,
           StepOf(squash, issue, commit, fetch)
    PROVE  \E d, n : Moved(squash, fetch, d, n)
<1> DEFINE d == IF commit THEN 1 ELSE 0
<1>1. d \in {0, 1}
  OBVIOUS
<1>2. CASE squash.needSquash
  <2> DEFINE n == squash.at - d
  <2>1. /\ ~fetch.valid
        /\ squash.at \in 1 .. Len(rob) /\ n \in Nat \ {0}
        /\ squash.at <= Len(liveEntries)
        /\ squash.CkptId = liveEntries[squash.at].ckptId
        /\ rob' \in Seq(Entry) /\ Len(rob') = n
        /\ liveEntries' = rob'
        /\ \A i \in 1 .. n :
             /\ Same(liveEntries[i + d], liveEntries'[i])
             /\ liveEntries'[i].predictPC =
                  IF i = n THEN squash.SquashPC ELSE liveEntries[i + d].predictPC
    BY <1>2, Cut
  <2>2. n + d = squash.at
    BY <1>1, <2>1
  <2> HIDE DEF n, d
  <2>3. /\ n \in Nat /\ n > 0 /\ n + d <= Len(liveEntries)
        /\ Len(liveEntries') = n + (IF fetch.valid THEN 1 ELSE 0)
    BY <2>1, <2>2
  <2>4. Moved(squash, fetch, d, n)
    BY <1>1, <1>2, <2>1, <2>2, <2>3 DEF Moved
  <2> QED BY <2>4
<1>3. CASE ~squash.needSquash
  <2> DEFINE n == Len(liveEntries) - d
             p == Len(Front) - d + (IF popConsume THEN 1 ELSE 0)
  <2>1. /\ n \in Nat
        /\ liveEntries' \in Seq(Entry)
        /\ Len(liveEntries') = n + (IF fetch.valid THEN 1 ELSE 0)
        /\ \A i \in 1 .. n :
             /\ Same(liveEntries[i + d], liveEntries'[i])
             /\ liveEntries'[i].predictPC = liveEntries[i + d].predictPC
        /\ fetch.valid => liveEntries'[n + 1] = entered(fetch)
    BY <1>3, Flow
  <2>2. n + d = Len(liveEntries) /\ Len(liveEntries) \in Nat
    <3>1. Len(liveEntries) \in Nat
      BY QueueFacts
    <3> QED BY <1>1, <3>1
  <2> HIDE DEF n, d
  <2>3. n + d <= Len(liveEntries)
    BY <2>2
  <2>4. Moved(squash, fetch, d, n)
    BY <1>1, <1>3, <2>1, <2>2, <2>3 DEF Moved
  <2> QED BY <2>4
<1> QED BY <1>2, <1>3

(* The machine holds no more instructions than there are ids, and fewer    *)
(* when it fetches.                                                        *)
LEMMA EnoughIds ==
    ASSUME QueueTypes, FetchTypes
    PROVE  /\ CkptCap \in Nat \ {0}
           /\ Len(liveEntries) \in Nat /\ Len(liveEntries) <= CkptCap
           /\ ~isRequestFull => Len(liveEntries) < CkptCap
<1>1. /\ Len(rob) \in 0 .. RobCap /\ Len(iq) \in 0 .. IqCap - 1
      /\ Len(fq) \in 0 .. FqCap - 1 /\ Len(requestBuffer) \in 0 .. ReqCap
      /\ Len(Front) = Len(rob) + Len(iq) + Len(fq)
      /\ Len(liveEntries) = Len(Front) + Len(requestBuffer)
      /\ Len(liveEntries) \in Nat
  BY QueueFacts
<1>2. /\ CkptCap >= RobCap + ReqCap + (FqCap - 1) + (IqCap - 1)
      /\ CkptCap \in Nat \ {0} /\ RobCap \in Nat /\ ReqCap \in Nat
      /\ FqCap \in Nat /\ IqCap \in Nat
  BY BpuAssumption, FrontEndAssumption, ICacheAssumption
<1>3. ~isRequestFull => Len(requestBuffer) # ReqCap
  BY DEF isRequestFull
<1> HIDE DEF Front, liveEntries
<1> QED BY <1>1, <1>2, <1>3

(* The ids stay consecutive: a fetch takes the next, a squash goes back to *)
(* the one behind its target (BPU::tick).                                  *)
LEMMA IdsStep ==
    ASSUME PredictorTypes, QueueTypes, FetchTypes, IdsConsecutive,
           NEW squash, NEW issue, NEW commit, NEW fetch,
           StepOf(squash, issue, commit, fetch)
    PROVE  IdsConsecutive'
<1> DEFINE s == liveEntries
           t == liveEntries'
           C == CkptCap
           id(i) == s[i].ckptId
<1>1. PICK d, n : Moved(squash, fetch, d, n)
  BY Moves
<1>2. /\ C \in Nat \ {0} /\ Len(s) \in Nat /\ Len(s) <= C
      /\ fetch.valid => Len(s) < C
  <2>1. fetch.valid => ~isRequestFull
    BY FetchFacts DEF StepOf
  <2> QED BY <2>1, EnoughIds
<1>3. nextCkptId' = ckptAfter(fetch, squash) /\ nextCkptId \in 0 .. C - 1
  BY DEF StepOf, Cycle, BPUtick, PredictorTypes, CkptIds
<1>4. /\ \A i \in 1 .. Len(s) : id(i) \in 0 .. C - 1
      /\ \A i \in 1 .. Len(s) :
           id(i) + (Len(s) + 1 - i) \in {nextCkptId, nextCkptId + C}
  <2>1. DOMAIN s = 1 .. Len(s) /\ \A i \in 1 .. Len(s) : s[i] \in Entry
    BY QueueFacts
  <2> QED BY <2>1 DEF IdsConsecutive, Entry, CkptIds
<1>5. /\ d \in {0, 1} /\ n \in Nat /\ n + d <= Len(s)
      /\ t \in Seq(Entry) /\ DOMAIN t = 1 .. Len(t)
      /\ Len(t) = n + (IF fetch.valid THEN 1 ELSE 0)
      /\ \A i \in 1 .. n : t[i].ckptId = id(i + d)
      /\ squash.needSquash => /\ n > 0 /\ ~fetch.valid
                              /\ nextCkptId' = (id(n + d) + 1) % C
      /\ ~squash.needSquash => n + d = Len(s)
      /\ ~squash.needSquash /\ fetch.valid => nextCkptId' = (nextCkptId + 1) % C
      /\ ~squash.needSquash /\ ~fetch.valid => nextCkptId' = nextCkptId
      /\ fetch.valid => t[n + 1].ckptId = nextCkptId
  <2>1. fetch.valid => entered(fetch).ckptId = nextCkptId
    BY EnteredFacts DEF StepOf
  <2>2. t \in Seq(Entry) => DOMAIN t = 1 .. Len(t)
    BY LenProperties
  <2> QED BY <1>1, <1>3, <2>1, <2>2 DEF Moved, Same, ckptAfter
<1> HIDE DEF s, t, C
<1>6. \A k \in 0 .. C - 1 : (k + 1) % C = IF k = C - 1 THEN 0 ELSE k + 1
  BY <1>2
<1>7. ASSUME NEW i \in 1 .. Len(t)
      PROVE  t[i].ckptId + (Len(t) + 1 - i) \in {nextCkptId', nextCkptId' + C}
  <2>0. i \in Int /\ i + d \in Int
    BY <1>5
  <2>1. CASE squash.needSquash
    <3>1. /\ i \in 1 .. n /\ i + d \in 1 .. Len(s) /\ n + d \in 1 .. Len(s)
          /\ Len(t) = n
      BY <1>2, <1>5, <2>1
    <3> DEFINE a == id(i + d)
               b == id(n + d)
               A == a + (Len(s) + 1 - (i + d))
               B == b + (Len(s) + 1 - (n + d))
    <3>2. /\ a \in 0 .. C - 1 /\ b \in 0 .. C - 1
          /\ A \in {nextCkptId, nextCkptId + C} /\ B \in {nextCkptId, nextCkptId + C}
      BY <1>4, <3>1
    <3> HIDE DEF a, b, id
    <3>3. (a + (n - i)) - b = A - B
      BY <1>2, <1>5, <2>0, <3>2
    <3>4. A - B \in {0, C, -C}
      <4> HIDE DEF A, B
      <4> QED BY <1>2, <1>3, <3>2
    <3> HIDE DEF A, B
    <3>5. a + (n - i) \in {b, b + C}
      BY <1>2, <1>5, <2>0, <3>1, <3>2, <3>3, <3>4
    <3>6. n - i <= C - 1 /\ n - i >= 0
      BY <1>2, <1>5, <3>1
    <3>7. nextCkptId' = IF b = C - 1 THEN 0 ELSE b + 1
      BY <1>5, <1>6, <2>1, <3>2 DEF b
    <3>8. t[i].ckptId = a
      BY <1>5, <3>1 DEF a
    <3>9. a + (n + 1 - i) \in {nextCkptId', nextCkptId' + C}
      BY <1>2, <1>5, <2>0, <3>2, <3>5, <3>6, <3>7
    <3> QED BY <3>1, <3>8, <3>9
  <2>2. CASE ~squash.needSquash /\ ~fetch.valid
    <3>1. i \in 1 .. n /\ i + d \in 1 .. Len(s) /\ Len(t) = n /\ n + d = Len(s)
      BY <1>2, <1>5, <2>2
    <3>2. t[i].ckptId = id(i + d) /\ id(i + d) \in 0 .. C - 1
          /\ id(i + d) + (Len(s) + 1 - (i + d)) \in {nextCkptId, nextCkptId + C}
      BY <1>4, <1>5, <3>1
    <3>3. Len(s) + 1 - (i + d) = Len(t) + 1 - i
      BY <1>5, <3>1
    <3> QED BY <1>5, <2>2, <3>2, <3>3
  <2>3. CASE ~squash.needSquash /\ fetch.valid /\ i = n + 1
    <3>1. t[i].ckptId = nextCkptId /\ Len(t) + 1 - i = 1
      BY <1>5, <2>3
    <3>2. nextCkptId' = IF nextCkptId = C - 1 THEN 0 ELSE nextCkptId + 1
      BY <1>3, <1>5, <1>6, <2>3
    <3> QED BY <1>2, <1>3, <3>1, <3>2
  <2>4. CASE ~squash.needSquash /\ fetch.valid /\ i # n + 1
    <3>1. /\ i \in 1 .. n /\ i + d \in 1 .. Len(s) /\ Len(t) = n + 1
          /\ n + d = Len(s) /\ Len(s) < C
      BY <1>2, <1>5, <2>4
    <3> DEFINE a == id(i + d)
    <3>2. t[i].ckptId = a /\ a \in 0 .. C - 1
          /\ a + (Len(s) + 1 - (i + d)) \in {nextCkptId, nextCkptId + C}
      BY <1>4, <1>5, <3>1
    <3> HIDE DEF a, id
    <3>3. Len(t) + 1 - i = (Len(s) + 1 - (i + d)) + 1
      BY <1>5, <3>1
    <3>4. nextCkptId' = IF nextCkptId = C - 1 THEN 0 ELSE nextCkptId + 1
      BY <1>3, <1>5, <1>6, <2>4
    <3> DEFINE o == Len(s) + 1 - (i + d)
    <3>5. o \in 1 .. C - 1
      BY <1>2, <1>5, <3>1
    <3> HIDE DEF o
    <3>6. a + (o + 1) \in {nextCkptId', nextCkptId' + C}
      BY <1>2, <1>3, <3>2, <3>4, <3>5 DEF o
    <3> QED BY <3>2, <3>3, <3>6 DEF o
  <2> QED BY <2>1, <2>2, <2>3, <2>4
<1> QED BY <1>5, <1>7 DEF IdsConsecutive, t, C

(* Consecutive ids are distinct, and none is the next one while there is   *)
(* one to spare.                                                           *)
LEMMA IdsDistinct ==
    ASSUME PredictorTypes, QueueTypes, FetchTypes, IdsConsecutive
    PROVE  /\ DOMAIN liveEntries = 1 .. Len(liveEntries)
           /\ \A i, j \in DOMAIN liveEntries :
                liveEntries[i].ckptId = liveEntries[j].ckptId => i = j
           /\ ~isRequestFull =>
                \A i \in DOMAIN liveEntries : liveEntries[i].ckptId # nextCkptId
<1> DEFINE s == liveEntries
           id(i) == s[i].ckptId
<1>1. /\ DOMAIN s = 1 .. Len(s)
      /\ \A i \in 1 .. Len(s) : id(i) \in 0 .. CkptCap - 1
      /\ \A i \in 1 .. Len(s) :
           id(i) + (Len(s) + 1 - i) \in {nextCkptId, nextCkptId + CkptCap}
  <2>1. DOMAIN s = 1 .. Len(s) /\ \A i \in 1 .. Len(s) : s[i] \in Entry
    BY QueueFacts
  <2> QED BY <2>1 DEF IdsConsecutive, Entry, CkptIds
<1>2. /\ CkptCap \in Nat \ {0} /\ Len(s) \in Nat /\ Len(s) <= CkptCap
      /\ ~isRequestFull => Len(s) < CkptCap
      /\ nextCkptId \in 0 .. CkptCap - 1
  BY EnoughIds DEF PredictorTypes, CkptIds
<1> HIDE DEF s
<1>3. ASSUME NEW i \in 1 .. Len(s), NEW j \in 1 .. Len(s), id(i) = id(j)
      PROVE  i = j
  <2> DEFINE a == id(i)
  <2>1. /\ a \in 0 .. CkptCap - 1
        /\ a + (Len(s) + 1 - i) \in {nextCkptId, nextCkptId + CkptCap}
        /\ a + (Len(s) + 1 - j) \in {nextCkptId, nextCkptId + CkptCap}
    BY <1>1, <1>3
  <2> HIDE DEF a, id
  <2> QED BY <1>2, <2>1
<1>4. ASSUME ~isRequestFull, NEW i \in 1 .. Len(s) PROVE id(i) # nextCkptId
  <2> DEFINE a == id(i)
  <2>1. a + (Len(s) + 1 - i) \in {nextCkptId, nextCkptId + CkptCap}
    BY <1>1
  <2>2. Len(s) < CkptCap
    BY <1>2, <1>4
  <2> HIDE DEF a, id
  <2>3. a # nextCkptId
    BY <1>2, <2>1, <2>2
  <2> QED BY <2>3 DEF a
<1>5. /\ \A i, j \in DOMAIN s : id(i) = id(j) => i = j
      /\ ~isRequestFull => \A i \in DOMAIN s : id(i) # nextCkptId
  BY <1>1, <1>3, <1>4
<1> QED BY <1>1, <1>5 DEF s

(* The checkpoints of those that stay are left alone, and the fetch's has  *)
(* its history (BPU::tick).                                                *)
LEMMA HistoryStep ==
    ASSUME PredictorTypes, QueueTypes, FetchTypes, IdsConsecutive, HistoryKept,
           NEW squash, NEW issue, NEW commit, NEW fetch,
           StepOf(squash, issue, commit, fetch)
    PROVE  HistoryKept'
<1> DEFINE s == liveEntries
           t == liveEntries'
<1>1. PICK d, n : Moved(squash, fetch, d, n)
  BY Moves
<1>2. /\ d \in {0, 1} /\ n \in Nat /\ n + d <= Len(s) /\ Len(s) \in Nat
      /\ DOMAIN s = 1 .. Len(s)
      /\ t \in Seq(Entry) /\ DOMAIN t = 1 .. Len(t)
      /\ Len(t) = n + (IF fetch.valid THEN 1 ELSE 0)
      /\ \A i \in 1 .. n : t[i].ckptId = s[i + d].ckptId /\ t[i].ghr = s[i + d].ghr
      /\ fetch.valid => t[n + 1].ckptId = nextCkptId /\ t[n + 1].ghr = GHR
  <2>1. fetch.valid => entered(fetch).ckptId = nextCkptId /\ entered(fetch).ghr = GHR
    BY EnteredFacts DEF StepOf
  <2>2. t \in Seq(Entry) => DOMAIN t = 1 .. Len(t)
    BY LenProperties
  <2>3. DOMAIN s = 1 .. Len(s) /\ Len(s) \in Nat
    BY QueueFacts
  <2> QED BY <1>1, <2>1, <2>2, <2>3 DEF Moved, Same
<1>3. /\ bpCkpt' = IF fetch.valid
                     THEN [bpCkpt EXCEPT ![nextCkptId] = snapshotCheckPoint]
                     ELSE bpCkpt
      /\ bpCkpt \in [CkptIds -> Checkpoint] /\ nextCkptId \in CkptIds
  BY DEF StepOf, Cycle, BPUtick, PredictorTypes
<1>4. \A i \in DOMAIN s :
        /\ bpCkpt[s[i].ckptId].GHR = s[i].ghr
        /\ fetch.valid => s[i].ckptId # nextCkptId
  <2>1. fetch.valid => ~isRequestFull
    BY FetchFacts DEF StepOf
  <2> QED BY <2>1, IdsDistinct DEF HistoryKept
<1> HIDE DEF s, t
<1>5. ASSUME NEW i \in 1 .. Len(t) PROVE bpCkpt'[t[i].ckptId].GHR = t[i].ghr
  <2>1. CASE i \in 1 .. n
    <3>1. i + d \in DOMAIN s
      BY <1>2, <2>1
    <3>2. t[i].ckptId = s[i + d].ckptId /\ t[i].ghr = s[i + d].ghr
      BY <1>2, <2>1
    <3>3. bpCkpt'[s[i + d].ckptId] = bpCkpt[s[i + d].ckptId]
      BY <1>3, <1>4, <3>1
    <3> QED BY <1>4, <3>1, <3>2, <3>3
  <2>2. CASE i \notin 1 .. n
    <3>1. fetch.valid /\ i = n + 1
      BY <1>2, <2>2
    <3>2. bpCkpt'[nextCkptId].GHR = GHR
      BY <1>3, <3>1 DEF snapshotCheckPoint
    <3> QED BY <1>2, <3>1, <3>2
  <2> QED BY <2>1, <2>2
<1> QED BY <1>2, <1>5 DEF HistoryKept, t

(* Fetching follows its own predictions, or the squash's target            *)
(* (FetchUnit::tick).                                                      *)
LEMMA ChainStep ==
    ASSUME PredictorTypes, QueueTypes, FetchTypes, Chained,
           NEW squash, NEW issue, NEW commit, NEW fetch,
           StepOf(squash, issue, commit, fetch)
    PROVE  Chained'
<1> DEFINE s == liveEntries
           t == liveEntries'
<1>1. PICK d, n : Moved(squash, fetch, d, n)
  BY Moves
<1>2. /\ d \in {0, 1} /\ n \in Nat /\ n + d <= Len(s) /\ Len(s) \in Nat
      /\ Len(t) \in {n, n + 1}
  <2>1. Len(s) \in Nat
    BY QueueFacts
  <2>2. /\ d \in {0, 1} /\ n \in Nat /\ n + d <= Len(s)
        /\ Len(t) = n + (IF fetch.valid THEN 1 ELSE 0)
    BY <1>1 DEF Moved
  <2>3. Len(t) \in {n, n + 1}
    BY <2>2
  <2> QED BY <2>1, <2>2, <2>3
<1>8. DOMAIN s = 1 .. Len(s) /\ DOMAIN t = 1 .. Len(t)
  <2>1. t \in Seq(Entry) => DOMAIN t = 1 .. Len(t)
    BY LenProperties
  <2>2. t \in Seq(Entry)
    BY <1>1 DEF Moved
  <2> QED BY <2>1, <2>2, QueueFacts
<1>7. /\ fetch.valid => ~squash.needSquash
      /\ fetch.valid <=> Len(t) = n + 1
      /\ ~squash.needSquash => n + d = Len(s)
  BY <1>1 DEF Moved
<1>6. /\ \A i \in 1 .. n :
           /\ t[i].pc = s[i + d].pc
           /\ t[i].predictPC = IF squash.needSquash /\ i = n THEN squash.SquashPC
                               ELSE s[i + d].predictPC
      /\ fetch.valid => /\ t[n + 1].pc = programCounter
                        /\ t[n + 1].predictPC = fetch.entry.predictPC
  <2>1. fetch.valid => /\ entered(fetch).pc = programCounter
                       /\ entered(fetch).predictPC = fetch.entry.predictPC
    BY EnteredFacts DEF StepOf
  <2> QED BY <1>1, <2>1 DEF Moved, Same
<1>3. programCounter' = IF squash.needSquash THEN squash.SquashPC
                        ELSE IF fetch.valid THEN fetch.entry.predictPC
                        ELSE programCounter
  <2>1. programCounter' = CASE squash.needSquash -> squash.SquashPC
                            [] fetch.valid -> fetch.entry.predictPC
                            [] OTHER -> programCounter
    BY DEF StepOf, Cycle, FetchUnitTick
  <2>2. fetch.valid => ~squash.needSquash
    BY <1>7
  <2>3. CASE squash.needSquash
    BY <2>1, <2>2, <2>3
  <2>4. CASE fetch.valid
    BY <2>1, <2>2, <2>4
  <2>5. CASE ~squash.needSquash /\ ~fetch.valid
    BY <2>1, <2>5
  <2> QED BY <2>3, <2>4, <2>5
<1>4. \A i \in DOMAIN s :
        s[i].predictPC = IF i < Len(s) THEN s[i + 1].pc ELSE programCounter
  BY DEF Chained
<1>9. \A i \in 1 .. Len(s) :
        s[i].predictPC = IF i < Len(s) THEN s[i + 1].pc ELSE programCounter
  BY <1>4, <1>8
<1> HIDE DEF s, t
<1>5. ASSUME NEW i \in 1 .. Len(t)
      PROVE  t[i].predictPC = IF i < Len(t) THEN t[i + 1].pc ELSE programCounter'
  <2>1. CASE i \in 1 .. n - 1
    <3>1. /\ i \in 1 .. n /\ i # n /\ i + 1 \in 1 .. n /\ i < Len(t)
          /\ i + d \in 1 .. Len(s) /\ i + d < Len(s) /\ (i + 1) + d = (i + d) + 1
      BY <1>2, <2>1
    <3>2. t[i].predictPC = s[i + d].predictPC /\ t[i + 1].pc = s[(i + 1) + d].pc
      BY <1>6, <3>1
    <3>3. s[i + d].predictPC = s[(i + d) + 1].pc
      BY <1>9, <3>1
    <3> QED BY <3>1, <3>2, <3>3
  <2>2. CASE i = n /\ squash.needSquash
    <3>1. i \in 1 .. n /\ Len(t) = n
      BY <1>2, <1>7, <2>2
    <3> QED BY <1>3, <1>6, <2>2, <3>1
  <2>3. CASE i = n /\ ~squash.needSquash
    <3>1. i \in 1 .. n /\ i + d = Len(s) /\ i + d \in 1 .. Len(s)
      BY <1>2, <1>7, <2>3
    <3>2. t[i].predictPC = programCounter
      BY <1>9, <1>6, <2>3, <3>1
    <3>3. CASE fetch.valid
      <4>1. i < Len(t) /\ i + 1 = n + 1
        BY <1>2, <1>7, <2>3, <3>3
      <4> QED BY <1>6, <3>2, <3>3, <4>1
    <3>4. CASE ~fetch.valid
      <4>1. i = Len(t)
        BY <1>2, <1>7, <2>3, <3>4
      <4> QED BY <1>3, <2>3, <3>2, <3>4, <4>1
    <3> QED BY <3>3, <3>4
  <2>4. CASE i \notin 1 .. n
    <3>1. i = n + 1 /\ i = Len(t)
      BY <1>2, <2>4
    <3>2. fetch.valid /\ ~squash.needSquash
      BY <1>7, <3>1
    <3> QED BY <1>2, <1>3, <1>6, <3>1, <3>2
  <2>5. i \in 1 .. n => i \in 1 .. n - 1 \/ i = n
    BY <1>2
  <2> QED BY <2>1, <2>2, <2>3, <2>4, <2>5
<1> QED BY <1>8, <1>5 DEF Chained, t

(* The request of a line.                                                  *)
LineRequest == [line : Nat, remain : Nat]

(* The instruction memory: the returned request leaves, the others come    *)
(* closer, a miss enters (IMEM::tick).                                     *)
LEMMA RequestsStep ==
    ASSUME PredictorTypes, QueueTypes, FetchTypes,
           NEW squash, NEW issue, NEW commit, NEW fetch,
           StepOf(squash, issue, commit, fetch), ~squash.needSquash
    PROVE  LET rest == IF lineReturn THEN Tail(IMEMreqs) ELSE IMEMreqs
               miss == fetch.valid /\ ~hit(programCounter)
           IN  /\ rest \in Seq(LineRequest)
               /\ IMEMreqs' \in Seq(LineRequest)
               /\ Len(IMEMreqs') = Len(rest) + (IF miss THEN 1 ELSE 0)
               /\ \A i \in 1 .. Len(rest) : IMEMreqs'[i].line = rest[i].line
               /\ miss => IMEMreqs'[Len(rest) + 1].line = lineOf(programCounter)
<1> DEFINE rest == IF lineReturn THEN Tail(IMEMreqs) ELSE IMEMreqs
           miss == fetch.valid /\ ~hit(programCounter)
           closer == [i \in DOMAIN rest |->
                        [rest[i] EXCEPT !.remain = IF @ > 0 THEN @ - 1 ELSE 0]]
           new == [line |-> lineOf(programCounter), remain |-> Latency]
<1>1. fetch.valid => fetch.entry.pc = programCounter
  BY FetchFacts DEF StepOf
<1>2. IMEMreqs' = IF miss THEN Append(closer, new) ELSE closer
  <2>1. IMEMtick(fetch, squash)
    BY DEF StepOf, Cycle
  <2> QED BY <1>1, <2>1 DEF IMEMtick
<1>3. rest \in Seq(LineRequest)
  <2>1. lineReturn => IMEMreqs # <<>>
    BY DEF lineReturn
  <2>2. IMEMreqs \in Seq(LineRequest)
    BY DEF QueueTypes, LineRequest
  <2> QED BY <2>1, <2>2, HeadTailProperties
<1> HIDE DEF rest
<1>4. /\ Len(rest) \in Nat /\ DOMAIN rest = 1 .. Len(rest)
      /\ \A i \in 1 .. Len(rest) : rest[i] \in LineRequest
  BY <1>3, LenProperties, ElementOfSeq
<1>5. \A i \in 1 .. Len(rest) :
        closer[i] \in LineRequest /\ closer[i].line = rest[i].line
  <2> TAKE i \in 1 .. Len(rest)
  <2> DEFINE x == rest[i]
  <2>1. x \in LineRequest /\ closer[i] = [x EXCEPT !.remain = IF @ > 0 THEN @ - 1 ELSE 0]
    BY <1>4
  <2> HIDE DEF x, closer
  <2>2. x.remain \in Nat /\ (IF x.remain > 0 THEN x.remain - 1 ELSE 0) \in Nat
    BY <2>1 DEF LineRequest
  <2>3. closer[i] \in LineRequest /\ closer[i].line = x.line
    BY <2>1, <2>2 DEF LineRequest
  <2> QED BY <2>3 DEF x
<1>6. closer \in Seq(LineRequest) /\ Len(closer) = Len(rest)
  <2>1. closer \in [1 .. Len(rest) -> LineRequest]
    BY <1>4, <1>5
  <2> HIDE DEF closer
  <2> QED BY <1>4, <2>1, SeqDef, LenProperties
<1> HIDE DEF closer
<1>7. new \in LineRequest /\ new.line = lineOf(programCounter)
  <2>1. programCounter \in Nat /\ Latency \in Nat
    BY CodeFacts, ICacheAssumption DEF FetchTypes
  <2>2. lineOf(programCounter) \in Nat
    BY <2>1, WordIsNumber
  <2> QED BY <2>1, <2>2 DEF LineRequest
<1> HIDE DEF new
<1>8. CASE miss
  <2>1. IMEMreqs' = Append(closer, new)
    BY <1>2, <1>8
  <2>2. /\ Append(closer, new) \in Seq(LineRequest)
        /\ Len(Append(closer, new)) = Len(closer) + 1
        /\ \A i \in 1 .. Len(closer) : Append(closer, new)[i] = closer[i]
        /\ Append(closer, new)[Len(closer) + 1] = new
    BY <1>6, <1>7, AppendProperties
  <2> HIDE DEF miss
  <2>3. /\ IMEMreqs' \in Seq(LineRequest)
        /\ Len(IMEMreqs') = Len(rest) + (IF miss THEN 1 ELSE 0)
        /\ \A i \in 1 .. Len(rest) : IMEMreqs'[i].line = rest[i].line
        /\ miss => IMEMreqs'[Len(rest) + 1].line = lineOf(programCounter)
    BY <1>4, <1>5, <1>6, <1>7, <1>8, <2>1, <2>2
  <2> QED BY <1>3, <2>3 DEF rest, miss
<1>9. CASE ~miss
  <2>1. IMEMreqs' = closer
    BY <1>2, <1>9
  <2> HIDE DEF miss
  <2>2. /\ IMEMreqs' \in Seq(LineRequest)
        /\ Len(IMEMreqs') = Len(rest) + (IF miss THEN 1 ELSE 0)
        /\ \A i \in 1 .. Len(rest) : IMEMreqs'[i].line = rest[i].line
        /\ miss => IMEMreqs'[Len(rest) + 1].line = lineOf(programCounter)
    BY <1>4, <1>5, <1>6, <1>9, <2>1
  <2> QED BY <1>3, <2>2 DEF rest, miss
<1> QED BY <1>8, <1>9

(* The cache's queue without a squash: what is left after the pop, the     *)
(* head of it filled, and the fetch.                                       *)
LEMMA BufferStep ==
    ASSUME PredictorTypes, QueueTypes, FetchTypes,
           NEW squash, NEW issue, NEW commit, NEW fetch,
           StepOf(squash, issue, commit, fetch), ~squash.needSquash
    PROVE  LET b == backfilled(popped(popConsume))
           IN  /\ b \in Seq(Entry)
               /\ requestBuffer' = IF fetch.valid THEN Append(b, entered(fetch)) ELSE b
               /\ requestBuffer' \in Seq(Entry)
               /\ Len(requestBuffer') <= ReqCap
<1> DEFINE q == popped(popConsume)
           b == backfilled(q)
<1>1. /\ q \in Seq(Entry) /\ Len(q) <= ReqCap
      /\ ~isRequestFull => Len(q) < ReqCap
  BY QueuesFlow
<1>2. requestBuffer' = pushRequest(b, fetch)
  BY DEF StepOf, Cycle, ICacheTick, afterReturn
<1>3. b \in Seq(Entry) /\ Len(b) = Len(q)
  BY <1>1, BackfillFacts
<1>4. fetch.valid => ~isRequestFull
  BY FetchFacts DEF StepOf
<1> HIDE DEF b
<1>5. CASE fetch.valid
  <2>1. pushRequest(b, fetch) = Append(b, entered(fetch)) /\ entered(fetch) \in Entry
    BY <1>5, EnteredFacts DEF StepOf
  <2>2. Append(b, entered(fetch)) \in Seq(Entry) /\ Len(Append(b, entered(fetch))) = Len(b) + 1
    BY <1>3, <2>1, AppendProperties
  <2> HIDE DEF q
  <2>3. Len(b) \in Nat /\ ReqCap \in Nat /\ Len(b) < ReqCap
    BY <1>1, <1>3, <1>4, <1>5, ICacheAssumption, LenProperties
  <2>4. Len(requestBuffer') <= ReqCap
    BY <1>2, <2>1, <2>2, <2>3
  <2> QED BY <1>2, <1>3, <1>5, <2>1, <2>2, <2>4 DEF b, q
<1>6. CASE ~fetch.valid
  <2>1. pushRequest(b, fetch) = b
    BY <1>6 DEF pushRequest
  <2>2. Len(requestBuffer') <= ReqCap
    BY <1>1, <1>2, <1>3, <2>1
  <2> QED BY <1>2, <1>3, <1>6, <2>1, <2>2 DEF b, q
<1> QED BY <1>5, <1>6

(* A cycle keeps the types.                                                *)
LEMMA TypesStep ==
    ASSUME PredictorTypes, QueueTypes, FetchTypes,
           NEW squash, NEW issue, NEW commit, NEW fetch,
           StepOf(squash, issue, commit, fetch)
    PROVE  QueueTypes' /\ FetchTypes'
<1>1. /\ squash.needSquash \in BOOLEAN
      /\ squash.needSquash => /\ squash.SquashPC \in DOMAIN code
                              /\ squash.at \in DOMAIN rob
  BY SquashFacts DEF StepOf
<1>2. /\ fetch.valid \in BOOLEAN
      /\ fetch.valid => fetch.entry \in Entry /\ ~squash.needSquash
  BY FetchFacts DEF StepOf
<1>3. code' = code
  BY DEF StepOf, Cycle
<1>4. Entry' = Entry
  BY <1>3 DEF Entry, RasEntry
<1>5. /\ RobCap \in Nat /\ IqCap - 1 \in Nat /\ FqCap - 1 \in Nat /\ ReqCap \in Nat
  BY FrontEndAssumption, ICacheAssumption
<1>6. /\ rob' \in Seq(Entry) /\ Len(rob') <= RobCap
      /\ iq' \in Seq(Entry) /\ Len(iq') <= IqCap - 1
      /\ fq' \in Seq(Entry) /\ Len(fq') <= FqCap - 1
      /\ requestBuffer' \in Seq(Entry) /\ Len(requestBuffer') <= ReqCap
      /\ IMEMreqs' \in Seq(LineRequest)
  <2>1. CASE squash.needSquash
    <3>1. /\ squash.at \in 1 .. Len(rob)
          /\ rob' \in Seq(Entry) /\ Len(rob') = squash.at - (IF commit THEN 1 ELSE 0)
          /\ iq' = <<>> /\ fq' = <<>> /\ requestBuffer' = <<>>
      BY <2>1, Cut
    <3>2. IMEMreqs' = <<>>
      BY <2>1 DEF StepOf, Cycle, IMEMtick
    <3>3. <<>> \in Seq(Entry) /\ <<>> \in Seq(LineRequest) /\ Len(<<>>) = 0
      BY EmptySeq
    <3>4. Len(rob') <= RobCap
      <4>1. Len(rob) \in 0 .. RobCap
        BY QueueFacts
      <4> QED BY <1>5, <3>1, <4>1
    <3> QED BY <1>5, <3>1, <3>2, <3>3, <3>4
  <2>2. CASE ~squash.needSquash
    BY <2>2, QueuesFlow, BufferStep, RequestsStep
  <2> QED BY <2>1, <2>2
<1>7. blocks' \in [0 .. NumBlocks - 1 -> Int]
  <2>1. lineReturn => returnedLine \in Nat
    <3>1. lineReturn => IMEMreqs # <<>> /\ IMEMreqs \in Seq(LineRequest)
      BY DEF lineReturn, QueueTypes, LineRequest
    <3>2. lineReturn => Head(IMEMreqs) \in LineRequest
      BY <3>1, HeadTailProperties
    <3> QED BY <3>2 DEF returnedLine, LineRequest
  <2>2. blocks' = IF lineReturn /\ ~squash.needSquash
                    THEN [blocks EXCEPT ![blockOf(returnedLine)] = returnedLine]
                    ELSE blocks
    BY DEF StepOf, Cycle, ICacheTick
  <2>3. blocks \in [0 .. NumBlocks - 1 -> Int]
    BY DEF QueueTypes
  <2> DEFINE l == returnedLine
             k == blockOf(l)
  <2>4. lineReturn => l \in Int
    BY <2>1
  <2> HIDE DEF l, k
  <2>5. lineReturn => [blocks EXCEPT ![k] = l] \in [0 .. NumBlocks - 1 -> Int]
    BY <2>3, <2>4
  <2> QED BY <2>2, <2>3, <2>5 DEF k, l
<1>8. programCounter' \in DOMAIN code
  <2>1. programCounter' \in {squash.SquashPC, fetch.entry.predictPC, programCounter}
        /\ (programCounter' = squash.SquashPC \/ ~squash.needSquash)
        /\ (programCounter' = programCounter \/ squash.needSquash \/ fetch.valid)
    <3>1. programCounter' = CASE squash.needSquash -> squash.SquashPC
                              [] fetch.valid -> fetch.entry.predictPC
                              [] OTHER -> programCounter
      BY DEF StepOf, Cycle, FetchUnitTick
    <3>2. CASE squash.needSquash
      BY <1>2, <3>1, <3>2
    <3>3. CASE fetch.valid
      BY <1>2, <3>1, <3>3
    <3>4. CASE ~squash.needSquash /\ ~fetch.valid
      BY <3>1, <3>4
    <3> QED BY <3>2, <3>3, <3>4
  <2>2. fetch.valid => fetch.entry.predictPC \in DOMAIN code
    BY <1>2 DEF Entry
  <2>3. programCounter \in DOMAIN code
    BY DEF FetchTypes
  <2>4. CASE squash.needSquash
    BY <1>1, <2>1, <2>4
  <2>5. CASE ~squash.needSquash /\ fetch.valid
    BY <1>2, <2>1, <2>2, <2>3, <2>5 DEF StepOf, Cycle, FetchUnitTick
  <2>6. CASE ~squash.needSquash /\ ~fetch.valid
    BY <2>1, <2>3, <2>6
  <2> QED BY <2>4, <2>5, <2>6
<1>9. /\ haltFetched' \in BOOLEAN /\ lost' \in BOOLEAN /\ halted' \in BOOLEAN
  <2>1. haltFetched' \in BOOLEAN
    BY DEF StepOf, Cycle, FetchUnitTick
  <2>2. halted' \in BOOLEAN
    BY DEF StepOf, Cycle, BackEndTick
  <2>3. lost' \in BOOLEAN
    BY DEF StepOf, Cycle, Lost
  <2> QED BY <2>1, <2>2, <2>3
<1>10. pushCache' \in [valid : BOOLEAN, raw_inst : Int, pc : DOMAIN code]
  <2>1. 0 \in DOMAIN code
    BY CodeFacts
  <2>2. NoPush \in [valid : BOOLEAN, raw_inst : Int, pc : DOMAIN code]
    BY <2>1 DEF NoPush, NoWord
  <2>3. popConsume => Head(requestBuffer) \in Entry
    <3>1. popConsume => requestBuffer # <<>>
      BY DEF popConsume, isReturnReady
    <3> QED BY <3>1, QueueFacts, HeadTailProperties
  <2>4. \/ pushCache' = NoPush
        \/ popConsume /\ pushCache' = [valid |-> TRUE, raw_inst |-> Head(requestBuffer).raw_inst,
                                       pc |-> Head(requestBuffer).pc]
    BY DEF StepOf, Cycle, FQtick
  <2>5. CASE pushCache' = NoPush
    BY <2>2, <2>5
  <2>6. CASE popConsume /\ pushCache' # NoPush
    <3> DEFINE x == Head(requestBuffer)
    <3>1. x \in Entry
      BY <2>3, <2>6
    <3>2. pushCache' = [valid |-> TRUE, raw_inst |-> x.raw_inst, pc |-> x.pc]
      BY <2>4, <2>6
    <3> HIDE DEF x
    <3>3. x.raw_inst \in Int /\ x.pc \in DOMAIN code
      BY <3>1 DEF Entry
    <3> QED BY <3>2, <3>3
  <2> QED BY <2>4, <2>5, <2>6
<1>11. QueueTypes'
  BY <1>4, <1>6, <1>7 DEF QueueTypes, LineRequest
<1>12. FetchTypes'
  BY <1>3, <1>8, <1>9, <1>10 DEF FetchTypes
<1> QED BY <1>11, <1>12

-----------------------------------------------------------------------------
(* Placeholders and the lines they wait for.                               *)

(* The placeholders of a queue b, and those of a set W up to position i.   *)
Open(b) == {i \in DOMAIN b : ~b[i].valid}

UpTo(W, i) == {j \in W : j <= i}

(* The requests r are those of the placeholders of b, in their order.      *)
Assigned(b, r) ==
    /\ Len(r) = Cardinality(Open(b))
    /\ \A i \in Open(b) :
         r[Cardinality(UpTo(Open(b), i))].line = lineOf(b[i].pc)

(* The placeholder at position i of W has a turn among those of W.         *)
LEMMA Turns ==
    ASSUME NEW n \in Nat, NEW W \in SUBSET (1 .. n)
    PROVE  /\ IsFiniteSet(W) /\ Cardinality(W) \in Nat
           /\ \A i \in W : /\ IsFiniteSet(UpTo(W, i))
                           /\ Cardinality(UpTo(W, i)) \in 1 .. Cardinality(W)
<1>1. IsFiniteSet(1 .. n)
  BY FS_Interval
<1>2. IsFiniteSet(W) /\ Cardinality(W) \in Nat
  BY <1>1, FS_Subset, FS_CardinalityType
<1>3. ASSUME NEW i \in W
      PROVE  IsFiniteSet(UpTo(W, i)) /\ Cardinality(UpTo(W, i)) \in 1 .. Cardinality(W)
  <2>1. UpTo(W, i) \subseteq W /\ i \in UpTo(W, i)
    BY DEF UpTo
  <2>2. /\ IsFiniteSet(UpTo(W, i)) /\ Cardinality(UpTo(W, i)) \in Nat
        /\ Cardinality(UpTo(W, i)) <= Cardinality(W)
    BY <1>2, <2>1, FS_Subset, FS_CardinalityType
  <2>3. Cardinality(UpTo(W, i)) # 0
    BY <2>1, <2>2, FS_EmptySet
  <2> QED BY <1>2, <2>2, <2>3
<1> QED BY <1>2, <1>3

(* A set moved down by one place has as many elements.                     *)
LEMMA MovedDown ==
    ASSUME NEW n \in Nat, NEW W \in SUBSET (1 .. n), 1 \notin W
    PROVE  Cardinality({k \in 1 .. n - 1 : k + 1 \in W}) = Cardinality(W)
<1> DEFINE V == {k \in 1 .. n - 1 : k + 1 \in W}
           f == [k \in V |-> k + 1]
<1>1. IsFiniteSet(W) /\ IsFiniteSet(V)
  <2>1. IsFiniteSet(1 .. n) /\ IsFiniteSet(1 .. n - 1)
    BY FS_Interval
  <2> QED BY <2>1, FS_Subset
<1>2. \A k \in V : f[k] \in W
  OBVIOUS
<1>3. \A k, l \in V : f[k] = f[l] => k = l
  OBVIOUS
<1>4. \A m \in W : \E k \in V : f[k] = m
  <2> TAKE m \in W
  <2>1. m - 1 \in V /\ (m - 1) + 1 = m
    OBVIOUS
  <2> QED BY <2>1
<1> HIDE DEF V
<1>5. f \in Bijection(V, W)
  BY <1>2, <1>3, <1>4 DEF Bijection, Injection, Surjection, IsInjective
<1> HIDE DEF f
<1>6. Cardinality(V) = Cardinality(W)
  BY <1>1, <1>5, FS_Bijection DEF ExistsBijection
<1> QED BY <1>6 DEF V

(* A head that has its word goes, and the others keep their turns.         *)
LEMMA AssignedPop ==
    ASSUME NEW S, NEW b \in Seq(S), b # <<>>, b[1].valid, NEW r, Assigned(b, r)
    PROVE  Assigned(Tail(b), r)
<1> DEFINE n == Len(b)
           W == Open(b)
           t == Tail(b)
<1>1. /\ n \in Nat /\ n >= 1 /\ DOMAIN b = 1 .. n
      /\ DOMAIN t = 1 .. n - 1 /\ \A k \in 1 .. n - 1 : t[k] = b[k + 1]
  <2>1. /\ n \in Nat /\ DOMAIN b = 1 .. n /\ n # 0
        /\ t \in Seq(S) /\ Len(t) = n - 1 /\ \A k \in 1 .. n - 1 : t[k] = b[k + 1]
    BY LenProperties, EmptySeq, HeadTailProperties
  <2>2. DOMAIN t = 1 .. n - 1
    BY <2>1, LenProperties
  <2> QED BY <2>1, <2>2
<1>2. W \subseteq 1 .. n /\ 1 \notin W
  BY <1>1 DEF Open
<1>3. Open(t) = {k \in 1 .. n - 1 : k + 1 \in W}
  <2>1. \A k \in 1 .. n - 1 : ~t[k].valid <=> k + 1 \in W
    <3> TAKE k \in 1 .. n - 1
    <3>1. k + 1 \in 1 .. n /\ t[k] = b[k + 1]
      BY <1>1
    <3> QED BY <1>1, <3>1 DEF Open
  <2> HIDE DEF W, t, n
  <2> QED BY <1>1, <2>1 DEF Open
<1> HIDE DEF t, W, n
<1>4. Cardinality(Open(t)) = Cardinality(W)
  BY <1>1, <1>2, <1>3, MovedDown
<1>5. ASSUME NEW i \in Open(t)
      PROVE  /\ i + 1 \in W
             /\ Cardinality(UpTo(Open(t), i)) = Cardinality(UpTo(W, i + 1))
             /\ t[i] = b[i + 1]
  <2>1. i \in 1 .. n - 1 /\ i + 1 \in W
    BY <1>3
  <2> DEFINE U == UpTo(W, i + 1)
  <2>2. U \subseteq 1 .. n /\ 1 \notin U
    BY <1>2 DEF UpTo
  <2>3. UpTo(Open(t), i) = {k \in 1 .. n - 1 : k + 1 \in U}
    BY <1>1, <1>3, <2>1 DEF UpTo
  <2> HIDE DEF U
  <2>4. Cardinality({k \in 1 .. n - 1 : k + 1 \in U}) = Cardinality(U)
    BY <1>1, <2>2, MovedDown
  <2> QED BY <1>1, <2>1, <2>3, <2>4 DEF U
<1>6. /\ Len(r) = Cardinality(W)
      /\ \A i \in W : r[Cardinality(UpTo(W, i))].line = lineOf(b[i].pc)
  BY DEF Assigned, W
<1>7. Assigned(t, r)
  BY <1>4, <1>5, <1>6 DEF Assigned
<1> QED BY <1>7 DEF t

(* The oldest line belongs to a head that waits; when it is filled, the    *)
(* turns of the others come one earlier.                                   *)
LEMMA AssignedFill ==
    ASSUME NEW S, NEW b \in Seq(S), b # <<>>, ~b[1].valid,
           NEW c \in Seq(S), Len(c) = Len(b), c[1].valid,
           \A i \in 2 .. Len(b) : c[i] = b[i],
           NEW T, NEW r \in Seq(T), Assigned(b, r)
    PROVE  /\ r # <<>> /\ Head(r).line = lineOf(b[1].pc)
           /\ Assigned(c, Tail(r))
<1> DEFINE n == Len(b)
           W == Open(b)
           V == Open(c)
<1>1. n \in Nat /\ n >= 1 /\ DOMAIN b = 1 .. n /\ DOMAIN c = 1 .. n
  BY LenProperties, EmptySeq
<1>2. W \subseteq 1 .. n /\ 1 \in W /\ V = W \ {1}
  BY <1>1 DEF Open
<1>3. /\ Len(r) = Cardinality(W)
      /\ \A i \in W : r[Cardinality(UpTo(W, i))].line = lineOf(b[i].pc)
  BY DEF Assigned
<1>4. /\ IsFiniteSet(W) /\ Cardinality(W) \in Nat
      /\ \A i \in W : /\ IsFiniteSet(UpTo(W, i))
                      /\ Cardinality(UpTo(W, i)) \in 1 .. Cardinality(W)
  BY <1>1, <1>2, Turns
<1> HIDE DEF n, W, V
<1>5. Cardinality(V) = Cardinality(W) - 1
  BY <1>2, <1>4, FS_RemoveElement
<1>6. ASSUME NEW i \in V
      PROVE  /\ Cardinality(UpTo(V, i)) = Cardinality(UpTo(W, i)) - 1
             /\ i \in W /\ c[i] = b[i]
  <2>1. i \in W /\ i \in 2 .. n
    BY <1>1, <1>2
  <2>2. 1 \in UpTo(W, i) /\ UpTo(V, i) = UpTo(W, i) \ {1}
    BY <1>2, <2>1 DEF UpTo
  <2> DEFINE U == UpTo(W, i)
  <2>4. IsFiniteSet(U) /\ 1 \in U
    BY <1>4, <2>1, <2>2
  <2> HIDE DEF U
  <2>5. Cardinality(U \ {1}) = Cardinality(U) - 1
    BY <2>4, FS_RemoveElement
  <2>3. Cardinality(UpTo(V, i)) = Cardinality(UpTo(W, i)) - 1
    BY <2>2, <2>5 DEF U
  <2> QED BY <2>1, <2>3 DEF n
<1>7. UpTo(W, 1) = {1}
  <2>1. \A j \in W : j <= 1 <=> j = 1
    BY <1>2
  <2>2. 1 \in W
    BY <1>2
  <2> QED BY <2>1, <2>2, Zenon DEF UpTo
<1>8. Cardinality(UpTo(W, 1)) = 1
  BY <1>7, FS_Singleton
<1>9. Cardinality(W) >= 1
  BY <1>2, <1>4
<1>10. /\ r # <<>> /\ Head(r) = r[1] /\ Len(Tail(r)) = Len(r) - 1
       /\ \A i \in 1 .. Len(r) - 1 : Tail(r)[i] = r[i + 1]
  <2>1. Len(r) # 0
    BY <1>3, <1>4, <1>9
  <2>2. r # <<>>
    BY <2>1, EmptySeq
  <2> QED BY <2>2, HeadTailProperties
<1>11. Head(r).line = lineOf(b[1].pc)
  BY <1>2, <1>3, <1>8, <1>10
<1> DEFINE t == Tail(r)
           card(i) == Cardinality(UpTo(W, i))
<1>12. Len(t) = Cardinality(V)
  BY <1>3, <1>5, <1>10
<1>13. ASSUME NEW i \in V PROVE t[Cardinality(UpTo(V, i))].line = lineOf(c[i].pc)
  <2> DEFINE k == Cardinality(UpTo(V, i))
             m == Cardinality(UpTo(W, i))
             z == Cardinality(W)
  <2>1. k = m - 1 /\ i \in W /\ c[i] = b[i]
    BY <1>6
  <2>2. m \in 1 .. z /\ z \in Nat /\ Len(r) = z
    BY <1>3, <1>4, <2>1
  <2>3. r[m].line = lineOf(b[i].pc)
    BY <1>3, <2>1
  <2>4. k # 0
    <3>1. i \in UpTo(V, i) /\ IsFiniteSet(UpTo(V, i))
      <4>1. UpTo(V, i) \subseteq UpTo(W, i) /\ IsFiniteSet(UpTo(W, i)) /\ i \in UpTo(V, i)
        BY <1>1, <1>2, <1>4, <2>1 DEF UpTo
      <4> QED BY <4>1, FS_Subset
    <3> QED BY <3>1, FS_EmptySet
  <2> HIDE DEF k, m, z, t
  <2>5. k \in 1 .. Len(r) - 1 /\ k + 1 = m
    BY <2>1, <2>2, <2>4
  <2>6. t[k] = r[k + 1]
    BY <1>10, <2>5 DEF t
  <2>7. t[k].line = lineOf(c[i].pc)
    BY <2>1, <2>3, <2>5, <2>6
  <2> QED BY <2>7 DEF k
<1>14. Assigned(c, Tail(r))
  BY <1>12, <1>13 DEF Assigned, V
<1> QED BY <1>10, <1>11, <1>14

(* Lines that come closer stay where they are.                             *)
LEMMA AssignedCloser ==
    ASSUME NEW S, NEW b \in Seq(S), NEW r, Assigned(b, r),
           NEW u, Len(u) = Len(r), \A i \in 1 .. Len(r) : u[i].line = r[i].line
    PROVE  Assigned(b, u)
<1> DEFINE W == Open(b)
<1>1. Len(b) \in Nat /\ W \subseteq 1 .. Len(b)
  BY LenProperties DEF Open
<1>2. \A i \in W : Cardinality(UpTo(W, i)) \in 1 .. Cardinality(W)
  BY <1>1, Turns
<1>3. /\ Len(r) = Cardinality(W)
      /\ \A i \in W : r[Cardinality(UpTo(W, i))].line = lineOf(b[i].pc)
  BY DEF Assigned
<1> HIDE DEF W
<1>4. \A i \in W : u[Cardinality(UpTo(W, i))].line = lineOf(b[i].pc)
  BY <1>2, <1>3
<1> QED BY <1>3, <1>4 DEF Assigned, W

(* A fetch that misses asks for its line behind the others.                *)
LEMMA AssignedPush ==
    ASSUME NEW S, NEW b \in Seq(S), NEW e \in S, NEW r, Assigned(b, r),
           NEW u, Len(u) = Len(r) + (IF e.valid THEN 0 ELSE 1),
           \A i \in 1 .. Len(r) : u[i].line = r[i].line,
           ~e.valid => u[Len(r) + 1].line = lineOf(e.pc)
    PROVE  Assigned(Append(b, e), u)
<1> DEFINE n == Len(b)
           c == Append(b, e)
           W == Open(b)
           V == Open(c)
<1>1. /\ n \in Nat /\ DOMAIN b = 1 .. n /\ DOMAIN c = 1 .. n + 1
      /\ \A i \in 1 .. n : c[i] = b[i]
      /\ c[n + 1] = e
  <2>1. /\ c \in Seq(S) /\ Len(c) = n + 1
        /\ \A i \in 1 .. n : c[i] = b[i]
        /\ c[n + 1] = e
    BY AppendProperties
  <2> QED BY <2>1, LenProperties
<1> HIDE DEF n, c
<1>2. /\ W \subseteq 1 .. n
      /\ V = W \cup (IF e.valid THEN {} ELSE {n + 1})
  <2>1. 1 .. n + 1 = (1 .. n) \cup {n + 1}
    BY <1>1
  <2> QED BY <1>1, <2>1 DEF Open
<1>3. /\ Len(r) = Cardinality(W)
      /\ \A i \in W : r[Cardinality(UpTo(W, i))].line = lineOf(b[i].pc)
  BY DEF Assigned
<1>4. /\ IsFiniteSet(W) /\ Cardinality(W) \in Nat
      /\ \A i \in W : Cardinality(UpTo(W, i)) \in 1 .. Cardinality(W)
  BY <1>1, <1>2, Turns
<1> HIDE DEF W, V
<1>5. ASSUME NEW i \in W
      PROVE  u[Cardinality(UpTo(V, i))].line = lineOf(c[i].pc) /\ i \in V
  <2>1. UpTo(V, i) = UpTo(W, i) /\ i \in 1 .. n /\ i \in V
    BY <1>1, <1>2 DEF UpTo
  <2>2. u[Cardinality(UpTo(W, i))].line = lineOf(b[i].pc)
    BY <1>3, <1>4
  <2> QED BY <1>1, <2>1, <2>2
<1>6. CASE e.valid
  <2>1. V = W /\ Len(u) = Cardinality(V)
    BY <1>2, <1>3, <1>4, <1>6
  <2>2. Assigned(c, u)
    BY <1>5, <2>1 DEF Assigned, V
  <2> QED BY <2>2 DEF c
<1>7. CASE ~e.valid
  <2>1. V = W \cup {n + 1} /\ n + 1 \notin W
    BY <1>1, <1>2, <1>7
  <2>2. Cardinality(V) = Cardinality(W) + 1
    BY <1>4, <2>1, FS_AddElement
  <2>3. UpTo(V, n + 1) = V
    <3>1. \A j \in W : j <= n + 1
      <4>1. n \in Nat /\ \A j \in W : j \in 1 .. n
        BY <1>1, <1>2
      <4> QED BY <4>1
    <3>2. n + 1 <= n + 1
      BY <1>1
    <3> QED BY <2>1, <3>1, <3>2 DEF UpTo
  <2>4. u[Cardinality(UpTo(V, n + 1))].line = lineOf(c[n + 1].pc)
    BY <1>1, <1>3, <1>7, <2>2, <2>3
  <2>5. Len(u) = Cardinality(V)
    BY <1>3, <1>4, <1>7, <2>2
  <2>6. \A i \in V : u[Cardinality(UpTo(V, i))].line = lineOf(c[i].pc)
    BY <1>5, <2>1, <2>4
  <2>7. Assigned(c, u)
    BY <2>5, <2>6 DEF Assigned, V
  <2> QED BY <2>7 DEF c
<1> QED BY <1>6, <1>7

(* Which placeholder a returned line meets: none, or the one it belongs    *)
(* to, or the front end has lost one.                                      *)
LEMMA LinesStep ==
    ASSUME PredictorTypes, QueueTypes, FetchTypes, LinesMatched,
           NEW squash, NEW issue, NEW commit, NEW fetch,
           StepOf(squash, issue, commit, fetch)
    PROVE  /\ LinesMatched'
           /\ ~squash.needSquash /\ ~lost /\ lineReturn
                /\ popped(popConsume) # <<>> /\ ~popped(popConsume)[1].valid
                => returnedLine = lineOf(popped(popConsume)[1].pc)
<1> DEFINE q == popped(popConsume)
           b == backfilled(q)
           fills == lineReturn /\ q # <<>> /\ ~q[1].valid
<1>0. squash.needSquash \in BOOLEAN /\ lost \in BOOLEAN /\ haltFetched \in BOOLEAN
  BY SquashFacts DEF StepOf, FetchTypes
<1>1. Matched <=> Assigned(requestBuffer, IMEMreqs)
  BY DEF Matched, Assigned, Open, UpTo, waiting, turn
<1>2. Matched' <=> Assigned(requestBuffer', IMEMreqs')
  <2>1. /\ waiting' = Open(requestBuffer')
        /\ \A i : turn(i)' = Cardinality(UpTo(Open(requestBuffer'), i))
    BY DEF waiting, turn, Open, UpTo
  <2> QED BY <2>1 DEF Matched, Assigned
<1>3. CASE squash.needSquash
  <2>1. requestBuffer' = <<>> /\ IMEMreqs' = <<>>
    BY <1>3 DEF StepOf, Cycle, ICacheTick, IMEMtick
  <2>2. Open(<<>>) = {} /\ Len(<<>>) = 0
    BY DEF Open
  <2>3. Cardinality({}) = 0
    BY FS_EmptySet
  <2>4. Assigned(<<>>, <<>>)
    BY <2>2, <2>3 DEF Assigned
  <2> QED BY <1>2, <1>3, <2>1, <2>4 DEF LinesMatched
<1>4. CASE ~squash.needSquash
  <2>1. /\ requestBuffer \in Seq(Entry) /\ q \in Seq(Entry)
        /\ b \in Seq(Entry) /\ Len(b) = Len(q)
        /\ \A i \in 1 .. Len(q) :
             b[i] = IF i = 1 /\ lineReturn /\ ~q[1].valid THEN Filled(q[1]) ELSE q[i]
    <3>1. requestBuffer \in Seq(Entry) /\ q \in Seq(Entry)
      BY <1>4, QueueFacts, QueuesFlow
    <3> QED BY <3>1, BackfillFacts
  <2>2. /\ isReturnReady <=> requestBuffer # <<>> /\ requestBuffer[1].valid
        /\ popConsume => isReturnReady /\ ~haltFetched
        /\ q = IF popConsume THEN Tail(requestBuffer) ELSE requestBuffer
    <3>1. requestBuffer # <<>> => Head(requestBuffer) = requestBuffer[1]
      BY <2>1, HeadTailProperties
    <3> QED BY <3>1 DEF isReturnReady, popConsume, popped
  <2>3. IMEMreqs \in Seq(LineRequest)
    BY DEF QueueTypes, LineRequest
  <2>4. Matched => Assigned(q, IMEMreqs)
    <3>1. CASE popConsume
      <4>1. Assigned(requestBuffer, IMEMreqs) => Assigned(Tail(requestBuffer), IMEMreqs)
        BY <2>1, <2>2, <3>1, AssignedPop
      <4> QED BY <1>1, <2>2, <3>1, <4>1
    <3>2. CASE ~popConsume
      BY <1>1, <2>2, <3>2
    <3> QED BY <3>1, <3>2
  <2>5. Len(q) \in Nat /\ (q # <<>> <=> Len(q) >= 1)
    BY <2>1, LenProperties, EmptySeq
  <2> HIDE DEF q, b
  <2>6. ASSUME Matched, fills
        PROVE  /\ returnedLine = lineOf(q[1].pc)
               /\ Assigned(b, Tail(IMEMreqs))
    <3>1. Assigned(q, IMEMreqs) /\ q # <<>> /\ ~q[1].valid /\ lineReturn
      BY <2>4, <2>6
    <3>2. q[1] \in Entry
      BY <2>1, <2>5, <3>1, ElementOfSeq
    <3>3. b[1].valid
      <4>1. b[1] = Filled(q[1])
        BY <2>1, <2>5, <3>1
      <4> QED BY <3>2, <4>1 DEF Filled, Entry
    <3>4. \A i \in 2 .. Len(q) : b[i] = q[i]
      BY <2>1, <2>5
    <3>5. Head(IMEMreqs).line = lineOf(q[1].pc) /\ Assigned(b, Tail(IMEMreqs))
      BY <2>1, <2>3, <3>1, <3>3, <3>4, AssignedFill
    <3> QED BY <3>5 DEF returnedLine
  <2>8. \/ Matched \/ lost \/ (haltFetched /\ isReturnReady)
    BY DEF LinesMatched
  <2>9. haltFetched /\ isReturnReady => ~fills
    BY <2>2
  <2>10. ~lost /\ fills => returnedLine = lineOf(q[1].pc)
    BY <2>6, <2>8, <2>9
  <2>11. fetch.valid => ~haltFetched
    BY FetchFacts DEF StepOf
  <2>12. requestBuffer' = IF fetch.valid THEN Append(b, entered(fetch)) ELSE b
    BY <1>4, BufferStep DEF b, q
  <2>13. ASSUME haltFetched, isReturnReady PROVE LinesMatched'
    <3>1. requestBuffer' = b /\ q = requestBuffer
      BY <2>2, <2>11, <2>12, <2>13
    <3>2. b # <<>> /\ b[1] = q[1]
      <4>1. q # <<>> /\ q[1].valid
        BY <2>2, <2>13, <3>1
      <4>2. b[1] = q[1]
        BY <2>1, <2>5, <4>1
      <4>3. b # <<>>
        BY <2>1, <2>5, <4>1, EmptySeq
      <4> QED BY <4>2, <4>3
    <3>3. Head(b).valid
      <4>1. Head(b) = b[1]
        BY <2>1, <3>2, HeadTailProperties
      <4> QED BY <2>2, <2>13, <3>1, <3>2, <4>1
    <3>4. isReturnReady'
      BY <3>1, <3>2, <3>3 DEF isReturnReady
    <3>5. haltFetched'
      BY <1>4, <2>13 DEF StepOf, Cycle, FetchUnitTick
    <3> QED BY <3>4, <3>5 DEF LinesMatched
  <2>14. ASSUME lost PROVE LinesMatched'
    BY <1>4, <2>14 DEF StepOf, Cycle, Lost, LinesMatched
  <2>15. ASSUME Matched, ~lost, ~(haltFetched /\ isReturnReady)
         PROVE  LinesMatched'
    <3> DEFINE rest == IF lineReturn THEN Tail(IMEMreqs) ELSE IMEMreqs
               miss == fetch.valid /\ ~hit(programCounter)
    <3>1. CASE lost'
      BY <3>1 DEF LinesMatched
    <3>2. CASE ~lost'
      <4>1. Assigned(b, rest)
        <5>1. CASE fills
          BY <2>6, <2>15, <5>1
        <5>2. CASE ~fills /\ lineReturn
          <6>1. Head(q).valid <=> q[1].valid
            BY <2>1, <5>2, HeadTailProperties, EmptySeq
          <6>2. q # <<>> => haltFetched
            <7>1. lost' = (lost \/ (lineReturn /\ ~haltFetched /\ q # <<>> /\ Head(q).valid))
              BY <1>4 DEF StepOf, Cycle, Lost, q
            <7> QED BY <3>2, <5>2, <6>1, <7>1
          <6>3. q = <<>>
            <7> SUFFICES ASSUME q # <<>> PROVE FALSE
              OBVIOUS
            <7>1. haltFetched /\ q = requestBuffer /\ q[1].valid
              BY <2>2, <5>2, <6>2
            <7> QED BY <2>2, <2>15, <7>1
          <6>4. Open(q) = {}
            BY <6>3 DEF Open
          <6>5. Len(IMEMreqs) = 0
            BY <2>4, <2>15, <6>4, FS_EmptySet DEF Assigned
          <6>6. Len(IMEMreqs) # 0
            BY <2>3, <5>2, EmptySeq DEF lineReturn
          <6> QED BY <6>5, <6>6
        <5>3. CASE ~lineReturn
          <6>1. b = q
            <7>1. \A i \in 1 .. Len(q) : b[i] = q[i]
              BY <2>1, <5>3
            <7> QED BY <2>1, <7>1, SeqEqual
          <6> QED BY <2>4, <2>15, <5>3, <6>1
        <5> QED BY <5>1, <5>2, <5>3
      <4>2. /\ Len(IMEMreqs') = Len(rest) + (IF miss THEN 1 ELSE 0)
            /\ Len(rest) \in Nat
            /\ \A i \in 1 .. Len(rest) : IMEMreqs'[i].line = rest[i].line
            /\ miss => IMEMreqs'[Len(rest) + 1].line = lineOf(programCounter)
        <5>1. /\ rest \in Seq(LineRequest)
              /\ Len(IMEMreqs') = Len(rest) + (IF miss THEN 1 ELSE 0)
              /\ \A i \in 1 .. Len(rest) : IMEMreqs'[i].line = rest[i].line
              /\ miss => IMEMreqs'[Len(rest) + 1].line = lineOf(programCounter)
          BY <1>4, RequestsStep
        <5> QED BY <5>1, LenProperties
      <4> HIDE DEF rest
      <4>3. CASE fetch.valid
        <5> DEFINE e == entered(fetch)
        <5>1. e \in Entry /\ e.pc = programCounter /\ e.valid = hit(programCounter)
          BY <4>3, EnteredFacts DEF StepOf
        <5> HIDE DEF e
        <5>2. /\ Len(IMEMreqs') = Len(rest) + (IF e.valid THEN 0 ELSE 1)
              /\ ~e.valid => IMEMreqs'[Len(rest) + 1].line = lineOf(e.pc)
          BY <4>2, <4>3, <5>1
        <5> DEFINE u == IMEMreqs'
        <5>3. \A i \in 1 .. Len(rest) : u[i].line = rest[i].line
          BY <4>2
        <5> HIDE DEF u
        <5>4. Assigned(Append(b, e), u)
          BY <2>1, <4>1, <5>1, <5>2, <5>3, AssignedPush DEF u
        <5>5. requestBuffer' = Append(b, e)
          BY <2>12, <4>3 DEF e
        <5> QED BY <1>2, <5>4, <5>5 DEF LinesMatched, u
      <4>4. CASE ~fetch.valid
        <5> DEFINE u == IMEMreqs'
        <5>1. Len(u) = Len(rest) /\ \A i \in 1 .. Len(rest) : u[i].line = rest[i].line
          BY <4>2, <4>4
        <5> HIDE DEF u
        <5>2. Assigned(b, u)
          BY <2>1, <4>1, <5>1, AssignedCloser
        <5>3. requestBuffer' = b
          BY <2>12, <4>4
        <5> QED BY <1>2, <5>2, <5>3 DEF LinesMatched, u
      <4> QED BY <4>3, <4>4
    <3> QED BY <3>1, <3>2
  <2>16. LinesMatched'
    BY <2>8, <2>13, <2>14, <2>15
  <2> QED BY <2>10, <2>16 DEF q
<1> QED BY <1>0, <1>3, <1>4

(* Words stay right, or the loss of a line has been noted.                 *)
LEMMA WordsStep ==
    ASSUME PredictorTypes, QueueTypes, FetchTypes, lost \/ WordsRight, LinesMatched,
           NEW squash, NEW issue, NEW commit, NEW fetch,
           StepOf(squash, issue, commit, fetch)
    PROVE  lost' \/ WordsRight'
<1> DEFINE s == liveEntries
           t == liveEntries'
           d == IF commit THEN 1 ELSE 0
<1>0. squash.needSquash \in BOOLEAN /\ d \in {0, 1} /\ Len(s) \in Nat
      /\ DOMAIN s = 1 .. Len(s) /\ \A i \in 1 .. Len(s) : s[i] \in Entry
  BY SquashFacts, QueueFacts DEF StepOf
<1>1. \A i \in 1 .. Len(s) : ~lost /\ s[i].valid => s[i].raw_inst = s[i].pc
  BY <1>0 DEF WordsRight
<1>2. CASE squash.needSquash
  <2> DEFINE n == squash.at - d
  <2>1. /\ squash.at \in 1 .. Len(rob) /\ n \in Nat \ {0}
        /\ squash.at <= Len(s)
        /\ rob' \in Seq(Entry) /\ Len(rob') = n /\ t = rob'
        /\ \A i \in 1 .. n : Same(s[i + d], t[i]) /\ SameWord(s[i + d], t[i])
    BY <1>2, Cut
  <2>2. lost' = (lost /\ \E i \in 1 .. squash.at : rob[i].raw_inst # rob[i].pc)
    BY <1>2 DEF StepOf, Cycle, Lost
  <2>3. \A i \in 1 .. Len(rob) : s[i] = rob[i]
    BY QueueFacts
  <2>4. n + d = squash.at /\ squash.at \in Nat /\ Len(rob) \in Nat
    <3>1. Len(rob) \in Nat
      BY QueueFacts
    <3> QED BY <1>0, <2>1, <3>1
  <2>5. DOMAIN t = 1 .. n
    BY <2>1, LenProperties
  <2> HIDE DEF n, s, t, d
  <2>6. ASSUME ~lost', NEW i \in 1 .. n, t[i].valid PROVE t[i].raw_inst = t[i].pc
    <3>1. i + d \in 1 .. squash.at /\ i + d \in 1 .. Len(rob) /\ i + d \in 1 .. Len(s)
      BY <1>0, <2>1, <2>4
    <3>2. /\ t[i].pc = s[i + d].pc /\ t[i].valid = s[i + d].valid
          /\ t[i].raw_inst = s[i + d].raw_inst
      BY <2>1 DEF Same, SameWord
    <3>3. CASE ~lost
      BY <1>1, <2>6, <3>1, <3>2, <3>3
    <3>4. CASE lost
      <4>1. rob[i + d].raw_inst = rob[i + d].pc
        BY <2>2, <2>6, <3>1, <3>4
      <4> QED BY <2>3, <3>1, <3>2, <4>1
    <3> QED BY <3>3, <3>4
  <2> QED BY <2>5, <2>6 DEF WordsRight, t
<1>3. CASE ~squash.needSquash
  <2> DEFINE n == Len(s) - d
             p == Len(Front) - d + (IF popConsume THEN 1 ELSE 0)
             q == popped(popConsume)
  <2>1. /\ n \in Nat /\ p \in 0 .. n
        /\ t \in Seq(Entry)
        /\ Len(t) = n + (IF fetch.valid THEN 1 ELSE 0)
        /\ Len(Front') = p
        /\ \A i \in 1 .. n :
             /\ Same(s[i + d], t[i])
             /\ IF i = p + 1 /\ lineReturn /\ ~s[i + d].valid
                  THEN t[i] = Filled(s[i + d])
                  ELSE SameWord(s[i + d], t[i])
        /\ fetch.valid => t[n + 1] = entered(fetch)
    BY <1>3, Flow
  <2>2. ~lost' => ~lost
    BY <1>3 DEF StepOf, Cycle, Lost
  <2>3. DOMAIN t = 1 .. Len(t)
    BY <2>1, LenProperties
  <2>4. \A i \in 1 .. n : i + d \in 1 .. Len(s)
    BY <1>0, <2>1
  <2>5. p + 1 \in 1 .. n => q # <<>> /\ s[p + 1 + d] = q[1]
    <3> SUFFICES ASSUME p + 1 \in 1 .. n PROVE q # <<>> /\ s[p + 1 + d] = q[1]
      OBVIOUS
    <3>1. Len(s) = Len(Front) + Len(requestBuffer) /\ Len(Front) \in Nat
          /\ requestBuffer \in Seq(Entry) /\ Len(requestBuffer) \in Nat
          /\ \A i \in 1 .. Len(s) : s[i] = IF i <= Len(Front) THEN Front[i]
                                           ELSE requestBuffer[i - Len(Front)]
      BY QueueFacts, LenProperties
    <3>2. CASE popConsume
      <4>1. q = Tail(requestBuffer) /\ requestBuffer # <<>>
        BY <3>2 DEF popped, popConsume, isReturnReady
      <4>2. /\ Len(Tail(requestBuffer)) = Len(requestBuffer) - 1
            /\ Tail(requestBuffer) \in Seq(Entry)
            /\ \A i \in 1 .. Len(Tail(requestBuffer)) :
                 Tail(requestBuffer)[i] = requestBuffer[i + 1]
        BY <3>1, <4>1, HeadTailProperties
      <4> HIDE DEF q
      <4>3. p + 1 + d = Len(Front) + 2 /\ Len(Front) + 2 <= Len(s)
        BY <1>0, <2>1, <3>1, <3>2
      <4>4. Len(requestBuffer) >= 2 /\ 1 \in 1 .. Len(q)
        BY <3>1, <4>1, <4>2, <4>3
      <4>5. q[1] = requestBuffer[2] /\ q # <<>>
        <5>1. q \in Seq(Entry) /\ Len(q) # 0
          BY <4>1, <4>2, <4>4
        <5>2. q[1] = requestBuffer[1 + 1]
          BY <4>1, <4>2, <4>4
        <5> QED BY <5>1, <5>2, EmptySeq
      <4>6. s[Len(Front) + 2] = requestBuffer[2]
        <5> DEFINE k == Len(Front) + 2
        <5>1. k \in 1 .. Len(s) /\ ~(k <= Len(Front)) /\ k - Len(Front) = 2
          BY <3>1, <4>3
        <5> HIDE DEF k
        <5>2. s[k] = requestBuffer[k - Len(Front)]
          BY <3>1, <5>1
        <5> QED BY <5>1, <5>2 DEF k
      <4> QED BY <4>3, <4>5, <4>6
    <3>3. CASE ~popConsume
      <4>1. q = requestBuffer
        BY <3>3 DEF popped
      <4> HIDE DEF q
      <4>2. p + 1 + d = Len(Front) + 1 /\ Len(Front) + 1 <= Len(s)
        BY <1>0, <2>1, <3>1, <3>3
      <4>3. Len(requestBuffer) >= 1
        BY <3>1, <4>2
      <4>4. q # <<>>
        BY <3>1, <4>1, <4>3, EmptySeq
      <4>5. s[Len(Front) + 1] = requestBuffer[1]
        <5> DEFINE k == Len(Front) + 1
        <5>1. k \in 1 .. Len(s) /\ ~(k <= Len(Front)) /\ k - Len(Front) = 1
          BY <3>1, <4>2
        <5> HIDE DEF k
        <5>2. s[k] = requestBuffer[k - Len(Front)]
          BY <3>1, <5>1
        <5> QED BY <5>1, <5>2 DEF k
      <4> QED BY <4>1, <4>2, <4>4, <4>5
    <3> QED BY <3>2, <3>3
  <2>6. ~lost /\ lineReturn /\ q # <<>> /\ ~q[1].valid => returnedLine = lineOf(q[1].pc)
    BY <1>3, LinesStep
  <2>7. fetch.valid /\ entered(fetch).valid => entered(fetch).raw_inst = entered(fetch).pc
    BY EnteredFacts DEF StepOf
  <2> HIDE DEF n, p, q, s, t, d
  <2>8. ASSUME ~lost', NEW i \in 1 .. Len(t), t[i].valid PROVE t[i].raw_inst = t[i].pc
    <3>1. CASE i \notin 1 .. n
      <4>1. i = n + 1 /\ fetch.valid
        BY <2>1, <3>1
      <4> QED BY <2>1, <2>7, <2>8, <4>1
    <3>2. CASE i \in 1 .. n
      <4> DEFINE x == s[i + d]
                 y == t[i]
      <4>1. x \in Entry /\ i + d \in 1 .. Len(s) /\ y.pc = x.pc
        BY <1>0, <2>1, <2>4, <3>2 DEF Same
      <4>2. CASE i = p + 1 /\ lineReturn /\ ~x.valid
        <5>1. y = Filled(x)
          BY <2>1, <3>2, <4>2
        <5>2. q # <<>> /\ x = q[1]
          BY <2>5, <3>2, <4>2
        <5>3. returnedLine = lineOf(x.pc)
          BY <2>2, <2>6, <2>8, <4>2, <5>2
        <5>4. x.pc \in Nat
          BY <4>1, CodeFacts DEF Entry
        <5>5. wordOf(returnedLine, x.pc) = x.pc
          BY <5>3, <5>4, WordIsNumber
        <5> HIDE DEF x, y
        <5>6. y.raw_inst = x.pc
          BY <4>1, <5>1, <5>5 DEF Filled, Entry
        <5> QED BY <4>1, <5>6 DEF y
      <4>3. CASE ~(i = p + 1 /\ lineReturn /\ ~x.valid)
        <5>1. SameWord(x, y)
          BY <2>1, <3>2, <4>3
        <5>2. ~lost /\ x.valid => x.raw_inst = x.pc
          BY <1>1, <4>1
        <5> HIDE DEF x
        <5> QED BY <2>2, <2>8, <4>1, <5>1, <5>2 DEF SameWord
      <4> QED BY <4>2, <4>3
    <3> QED BY <3>1, <3>2
  <2> QED BY <2>3, <2>8 DEF WordsRight, t
<1> QED BY <1>0, <1>2, <1>3

(* Once fetching has ended the halt marker stays, until it commits.        *)
LEMMA HaltStep ==
    ASSUME PredictorTypes, QueueTypes, FetchTypes, HaltSeen,
           NEW squash, NEW issue, NEW commit, NEW fetch,
           StepOf(squash, issue, commit, fetch)
    PROVE  HaltSeen'
<1> DEFINE s == liveEntries
           t == liveEntries'
           d == IF commit THEN 1 ELSE 0
           n == Len(s) - d
           p == Len(Front) - d + (IF popConsume THEN 1 ELSE 0)
<1> SUFFICES ASSUME haltFetched', ~halted'
             PROVE  \E i \in DOMAIN t :
                      /\ t[i].valid /\ code'[t[i].raw_inst].kind = "HALT"
                      /\ i <= Len(Front') + 1
  BY DEF HaltSeen, isHalt, kind
<1>1. ~squash.needSquash /\ (haltFetched \/ haltSignal)
  BY DEF StepOf, Cycle, FetchUnitTick
<1>2. /\ n \in Nat /\ p \in 0 .. n
      /\ t \in Seq(Entry)
      /\ Len(t) = n + (IF fetch.valid THEN 1 ELSE 0)
      /\ Len(Front') = p
      /\ \A i \in 1 .. n :
           IF i = p + 1 /\ lineReturn /\ ~s[i + d].valid
             THEN t[i] = Filled(s[i + d])
             ELSE SameWord(s[i + d], t[i])
  BY <1>1, Flow
<1>3. /\ DOMAIN s = 1 .. Len(s) /\ Len(Front) \in Nat /\ Len(s) \in Nat
      /\ requestBuffer \in Seq(Entry) /\ Len(requestBuffer) \in Nat
      /\ Len(s) = Len(Front) + Len(requestBuffer)
      /\ \A i \in 1 .. Len(s) : s[i] = IF i <= Len(Front) THEN Front[i]
                                       ELSE requestBuffer[i - Len(Front)]
      /\ rob \in Seq(Entry) /\ Len(rob) \in Nat
      /\ \A i \in 1 .. Len(rob) : s[i] = rob[i]
  <2>1. /\ requestBuffer \in Seq(Entry) /\ rob \in Seq(Entry)
        /\ Len(s) = Len(Front) + Len(requestBuffer)
        /\ DOMAIN s = 1 .. Len(s) /\ Len(Front) \in Nat /\ Len(s) \in Nat
        /\ \A i \in 1 .. Len(s) : s[i] = IF i <= Len(Front) THEN Front[i]
                                         ELSE requestBuffer[i - Len(Front)]
        /\ \A i \in 1 .. Len(rob) : s[i] = rob[i]
    BY QueueFacts
  <2> QED BY <2>1, LenProperties
<1>4. DOMAIN t = 1 .. Len(t) /\ code' = code /\ d \in {0, 1}
  BY <1>2, LenProperties DEF StepOf, Cycle
<1>5. ~halted
  BY DEF StepOf
<1>6. \E k \in 1 .. Len(s) :
        isHalt(s[k]) /\ ((haltFetched /\ k <= Len(Front) + 1) \/ (haltSignal /\ k = Len(Front) + 1))
  <2>1. CASE haltFetched
    <3>1. PICK k \in DOMAIN s : isHalt(s[k]) /\ k <= Len(Front) + 1
      BY <1>5, <2>1 DEF HaltSeen
    <3>2. k \in 1 .. Len(s)
      BY <1>3, <3>1
    <3> QED BY <2>1, <3>1, <3>2
  <2>2. CASE haltSignal
    <3>1. requestBuffer # <<>> /\ isHalt(Head(requestBuffer))
      BY <2>2 DEF haltSignal, isReturnReady
    <3>2. Head(requestBuffer) = requestBuffer[1] /\ Len(requestBuffer) # 0
      BY <1>3, <3>1, HeadTailProperties, EmptySeq
    <3> DEFINE k == Len(Front) + 1
    <3>3. k \in 1 .. Len(s) /\ ~(k <= Len(Front)) /\ k - Len(Front) = 1
      BY <1>3, <3>2
    <3> HIDE DEF k
    <3>4. s[k] = requestBuffer[k - Len(Front)]
      BY <1>3, <3>3
    <3> QED BY <2>2, <3>1, <3>2, <3>3, <3>4 DEF k
  <2> QED BY <1>1, <2>1, <2>2
<1>7. PICK k \in 1 .. Len(s) :
        isHalt(s[k]) /\ ((haltFetched /\ k <= Len(Front) + 1) \/ (haltSignal /\ k = Len(Front) + 1))
  BY <1>6
<1>8. k - d >= 1
  <2>0. k \in Int /\ k >= 1 /\ d \in {0, 1}
    BY <1>4, <1>7
  <2> SUFFICES ASSUME d = 1, k = 1 PROVE FALSE
    <3> HIDE DEF d
    <3> QED BY <2>0
  <2>1. commit /\ rob # <<>>
    BY <1>1 DEF StepOf, Cycle, mayCommit
  <2>2. Head(rob) = rob[1] /\ 1 \in 1 .. Len(rob)
    BY <1>3, <2>1, HeadTailProperties, EmptySeq
  <2>3. isHalt(Head(rob))
    BY <1>3, <1>7, <2>2
  <2>4. halted' = (commit /\ isHalt(Head(rob)))
    BY DEF StepOf, Cycle, BackEndTick
  <2> QED BY <2>1, <2>3, <2>4
<1> DEFINE j == k - d
<1>9. j \in 1 .. n /\ j + d = k /\ j \in DOMAIN t /\ j <= p + 1
  <2>1. j \in 1 .. n /\ j + d = k
    <3>1. Len(s) \in Nat /\ k \in 1 .. Len(s) /\ d \in {0, 1}
      BY <1>3, <1>4
    <3> HIDE DEF s, d
    <3> QED BY <1>8, <3>1
  <2>2. k <= Len(Front) + 1
    BY <1>3, <1>7
  <2>3. j <= p + 1
    BY <1>3, <1>4, <2>2
  <2>4. n \in Nat /\ Len(t) >= n
    BY <1>2
  <2>5. j \in 1 .. Len(t)
    <3> HIDE DEF j, n, t
    <3>1. Len(t) \in Nat
      BY <1>2, LenProperties
    <3> QED BY <2>1, <2>4, <3>1
  <2> QED BY <1>4, <2>1, <2>3, <2>5
<1> HIDE DEF j, n, p, s, t, d
<1>10. SameWord(s[k], t[j])
  <2>1. s[j + d].valid
    BY <1>7, <1>9 DEF isHalt
  <2> QED BY <1>2, <1>9, <2>1
<1>11. t[j].valid /\ code'[t[j].raw_inst].kind = "HALT"
  BY <1>4, <1>7, <1>10 DEF isHalt, SameWord, kind
<1> QED BY <1>2, <1>9, <1>11

-----------------------------------------------------------------------------
(* The stream of instructions, in every run.                               *)

(* What is invariant of the stream by itself.                              *)
FlowInv ==
    /\ PredictorTypes /\ QueueTypes /\ FetchTypes
    /\ FoldsRight /\ StreamInv

(* It holds at first.                                                      *)
LEMMA FlowInit == Init => FlowInv
<1> SUFFICES ASSUME Init PROVE FlowInv
  OBVIOUS
<1>1. /\ CounterSpan \in Nat \ {0} /\ CkptCap \in Nat \ {0} /\ HistLen \in Nat
      /\ RasCap \in Nat \ {0} /\ AlignCap \in Nat \ {0}
  BY BpuAssumption
<1>2. FetchTypes
  <2>1. code \in Codes /\ programCounter = 0
    BY DEF Init
  <2>2. Cardinality(DOMAIN code) \in Nat \ {0}
        /\ DOMAIN code = 0 .. Cardinality(DOMAIN code) - 1
    BY <2>1, FrontEndAssumption
  <2> DEFINE w == Cardinality(DOMAIN code)
  <2>3. w \in Nat \ {0} /\ DOMAIN code = 0 .. w - 1
    BY <2>2
  <2> HIDE DEF w
  <2>4. 0 \in DOMAIN code
    BY <2>3
  <2>5. NoPush \in [valid : BOOLEAN, raw_inst : Int, pc : DOMAIN code]
    BY <2>4 DEF NoPush, NoWord
  <2> QED BY <2>1, <2>4, <2>5 DEF Init, FetchTypes
<1>3. 0 \in Counters /\ 0 \in CkptIds /\ 0 \in Bits
  BY <1>1 DEF Counters, CkptIds, Bits
<1>4. NoEntry \in RasEntry
  BY <1>2, <1>3, CodeFacts DEF NoEntry, RasEntry
<1>5. GHR \in History
  BY <1>3 DEF Init, BPUInit, History
<1>6. PredictorTypes
  <2>1. bpCkpt \in [CkptIds -> Checkpoint]
    BY <1>3, <1>5 DEF Init, BPUInit, Checkpoint
  <2>2. RAS \in [0 .. RasCap - 1 -> RasEntry]
    BY <1>4 DEF Init, BPUInit
  <2>3. alignQueue \in [0 .. AlignCap - 1 -> [index : 0 .. RasCap - 1, entry : RasEntry]]
    <3>1. 0 \in 0 .. RasCap - 1
      BY <1>1
    <3>2. [index |-> 0, entry |-> NoEntry] \in [index : 0 .. RasCap - 1, entry : RasEntry]
      BY <1>4, <3>1
    <3> QED BY <3>2 DEF Init, BPUInit
  <2> QED BY <1>3, <1>5, <2>1, <2>2, <2>3 DEF Init, BPUInit, PredictorTypes
<1>7. /\ requestBuffer = <<>> /\ fq = <<>> /\ iq = <<>> /\ rob = <<>>
      /\ IMEMreqs = <<>> /\ haltFetched = FALSE
      /\ blocks = [b \in 0 .. NumBlocks - 1 |-> NoLine]
  BY DEF Init, ICacheInit
<1>8. QueueTypes
  <2>1. /\ RobCap \in Nat /\ IqCap - 1 \in Nat /\ FqCap - 1 \in Nat /\ ReqCap \in Nat
    BY FrontEndAssumption, ICacheAssumption
  <2>2. /\ <<>> \in Seq(Entry) /\ <<>> \in Seq([line : Nat, remain : Nat])
        /\ Len(<<>>) = 0
    BY EmptySeq
  <2>3. blocks \in [0 .. NumBlocks - 1 -> Int]
    BY <1>7 DEF NoLine
  <2> QED BY <1>7, <2>1, <2>2, <2>3 DEF QueueTypes
<1>9. FoldsRight
  <2>1. ASSUME NEW v \in Views PROVE refoldView(GHR, v) = [j \in 0 .. v.w - 1 |-> 0]
    <3>1. \A k \in 0 .. v.h - 1 : GHR[k] = 0
      <4>1. v.h \in 1 .. HistLen
        BY BpuAssumption
      <4>2. GHR = [i \in 0 .. HistLen - 1 |-> 0]
        BY DEF Init, BPUInit
      <4> QED BY <1>1, <4>1, <4>2
    <3>2. \A j : {k \in 0 .. v.h - 1 : k % v.w = j /\ GHR[k] = 1} = {}
      BY <3>1
    <3>3. Cardinality({}) % 2 = 0
      <4>1. Cardinality({}) = 0
        BY FS_EmptySet
      <4> QED BY <4>1
    <3> QED BY <3>2, <3>3 DEF refoldView
  <2> QED BY <2>1 DEF Init, BPUInit, FoldsRight
<1>10. liveEntries = <<>> /\ DOMAIN liveEntries = {}
  <2>1. Len(liveEntries) = 0 /\ DOMAIN liveEntries = 1 .. Len(liveEntries)
        /\ liveEntries \in Seq(Entry)
    <3>1. Len(<<>>) = 0
      BY EmptySeq
    <3>2. /\ Len(Front) = Len(rob) + Len(iq) + Len(fq)
          /\ Len(liveEntries) = Len(Front) + Len(requestBuffer)
          /\ DOMAIN liveEntries = 1 .. Len(liveEntries)
          /\ liveEntries \in Seq(Entry)
      BY <1>8, QueueFacts
    <3> HIDE DEF Front, liveEntries
    <3> QED BY <1>7, <3>1, <3>2
  <2> QED BY <2>1, EmptySeq
<1>11. Matched
  <2>1. waiting = {}
    BY <1>7 DEF waiting
  <2>2. Cardinality({}) = 0 /\ Len(<<>>) = 0
    BY FS_EmptySet, EmptySeq
  <2> QED BY <1>7, <2>1, <2>2 DEF Matched
<1>12. StreamInv
  BY <1>7, <1>10, <1>11
     DEF StreamInv, IdsConsecutive, HistoryKept, Chained, WordsRight, HaltSeen,
         LinesMatched
<1> QED BY <1>2, <1>6, <1>8, <1>9, <1>12 DEF FlowInv

(* A cycle keeps it.                                                       *)
LEMMA FlowStep == FlowInv /\ [Next]_vars => FlowInv'
<1> SUFFICES ASSUME FlowInv, [Next]_vars PROVE FlowInv'
  OBVIOUS
<1>1. /\ PredictorTypes /\ QueueTypes /\ FetchTypes /\ FoldsRight
      /\ IdsConsecutive /\ HistoryKept /\ Chained /\ (lost \/ WordsRight)
      /\ HaltSeen /\ LinesMatched
  BY DEF FlowInv, StreamInv
<1>2. CASE UNCHANGED vars
  <2>1. UNCHANGED <<bpuVars, icacheVars, fetchVars, rob, halted, lost>>
    BY <1>2 DEF vars
  <2>2. PredictorTypes' /\ FoldsRight'
    BY <1>1, <2>1 DEF PredictorTypes, FoldsRight, RasEntry, bpuVars, fetchVars
  <2>3. QueueTypes' /\ FetchTypes'
    BY <1>1, <2>1
       DEF QueueTypes, FetchTypes, Entry, RasEntry, icacheVars, fetchVars
  <2>4. liveEntries' = liveEntries /\ Front' = Front
    BY <2>1 DEF liveEntries, Front, icacheVars, fetchVars
  <2>5. IdsConsecutive' /\ HistoryKept' /\ Chained' /\ (lost' \/ WordsRight')
    BY <1>1, <2>1, <2>4
       DEF IdsConsecutive, HistoryKept, Chained, WordsRight, bpuVars, fetchVars
  <2>6. HaltSeen'
    BY <1>1, <2>1, <2>4 DEF HaltSeen, isHalt, kind, fetchVars
  <2>7. LinesMatched'
    BY <1>1, <2>1
       DEF LinesMatched, Matched, waiting, turn, isReturnReady, icacheVars, fetchVars
  <2> QED BY <2>2, <2>3, <2>5, <2>6, <2>7 DEF FlowInv, StreamInv
<1>3. CASE \E squash, issue, commit, fetch : StepOf(squash, issue, commit, fetch)
  <2>1. PICK squash, issue, commit, fetch : StepOf(squash, issue, commit, fetch)
    BY <1>3
  <2>2. PredictorTypes' /\ FoldsRight'
    BY <1>1, <2>1, PredictorStep
  <2>3. QueueTypes' /\ FetchTypes'
    BY <1>1, <2>1, TypesStep
  <2>4. IdsConsecutive'
    BY <1>1, <2>1, IdsStep
  <2>5. HistoryKept'
    BY <1>1, <2>1, HistoryStep
  <2>6. Chained'
    BY <1>1, <2>1, ChainStep
  <2>7. lost' \/ WordsRight'
    BY <1>1, <2>1, WordsStep
  <2>8. HaltSeen'
    BY <1>1, <2>1, HaltStep
  <2>9. LinesMatched'
    BY <1>1, <2>1, LinesStep
  <2> QED BY <2>2, <2>3, <2>4, <2>5, <2>6, <2>7, <2>8, <2>9 DEF FlowInv, StreamInv
<1>4. Next => \/ UNCHANGED vars
              \/ \E squash, issue, commit, fetch : StepOf(squash, issue, commit, fetch)
  BY Zenon DEF Next, StepOf
<1> QED BY <1>2, <1>3, <1>4

(* The folded views of the history are always what refoldView makes of it  *)
(* (BPU.hpp: fh*[i] always equals refoldView(GHR, TAGE_HIST[i], W)).       *)
THEOREM FoldedViewsFollow == Spec => []FoldsMatch
<1>1. FlowInv => FoldsMatch
  BY DEF FlowInv, FoldsRight, FoldsMatch
<1> QED BY <1>1, FlowInit, FlowStep, PTL DEF Spec

(* The checkpoint ids in use are distinct, and each checkpoint has the     *)
(* history of its own fetch (BPU.cpp, the checkpoint ring).                *)
THEOREM CheckpointsStayIntact == Spec => []CheckpointsIntact
<1>1. FlowInv => CheckpointsIntact
  BY IdsDistinct DEF FlowInv, StreamInv, HistoryKept, CheckpointsIntact
<1> QED BY <1>1, FlowInit, FlowStep, PTL DEF Spec

(* From the back end to the program counter there is one stream of         *)
(* instructions, each with its own word (FetchUnit.cpp, InstructBuffer.cpp,*)
(* ICache.cpp, Decoder.cpp).                                               *)
THEOREM OneStream == Spec => []StreamFollowsPrediction
<1>1. FlowInv => StreamFollowsPrediction
  BY DEF FlowInv, StreamInv, Chained, WordsRight, HaltSeen, Front,
         StreamFollowsPrediction
<1> QED BY <1>1, FlowInit, FlowStep, PTL DEF Spec

(* Lines come back in the order of the placeholders, one for each, though  *)
(* nothing but the order ties a line to its fetch (ICache.cpp:58).         *)
THEOREM LinesFindTheirFetches == Spec => []RefillsMatched
<1>1. FlowInv => RefillsMatched
  BY DEF FlowInv, StreamInv, LinesMatched, Matched, RefillsMatched
<1> QED BY <1>1, FlowInit, FlowStep, PTL DEF Spec

-----------------------------------------------------------------------------
(***************************************************************************)
(* A squash gives back the return stack that its target's fetch saw        *)
(* (BPU.cpp, the journal alignQueue), for every size of stack, journal and *)
(* queues.                                                                 *)
(***************************************************************************)

-----------------------------------------------------------------------------
(* The inductive invariant.                                                *)

(* The records from counter base on.                                       *)
recordAt(q, base, k) == q[(base + k) % AlignCap]

(* What slot x of the stack held when the journal was at base, n records   *)
(* ago: its first record since then, or what it holds now.                 *)
Held(ras, q, base, n, x, v) ==
    \/ /\ \A k \in 0 .. n - 1 : recordAt(q, base, k).index # x
       /\ v = ras[x]
    \/ \E k \in 0 .. n - 1 :
         /\ recordAt(q, base, k).index = x
         /\ recordAt(q, base, k).entry = v
         /\ \A l \in 0 .. k - 1 : recordAt(q, base, l).index # x

since(base, tail) == (tail - base) % CounterSpan

(* The slot d below a top.                                                 *)
below(top, d) == (top - d) % RasCap

(* From the stack at (tail, top) there is a way back to checkpoint c: the  *)
(* journal has not run round, and either the top is above that of c by no  *)
(* more than the ring, or what was popped below it has been recorded.      *)
WayBack(q, c, tail, top) ==
    LET n == since(c.alignTail, tail)
        gap == since(top, c.RAS_top)
    IN  /\ n <= AlignCap
        /\ \/ since(c.RAS_top, top) <= RasCap
           \/ /\ gap <= n
              /\ \A d \in 1 .. gap : \E k \in 0 .. n - 1 :
                   recordAt(q, c.alignTail, k).index = below(c.RAS_top, d)

(* The journal and the top when instruction i of the stream was fetched;   *)
(* behind the last one, now.                                               *)
pointAt(i) ==
    IF i \in DOMAIN liveEntries
      THEN LET c == bpCkpt[liveEntries[i].ckptId]
           IN  [tail |-> c.alignTail, top |-> c.RAS_top]
      ELSE [tail |-> alignTail, top |-> RAS_top]

(* The stack seen by a fetch can be put together again.                    *)
StackKept(i) ==
    LET e == liveEntries[i]
        c == bpCkpt[e.ckptId]
    IN  /\ Len(e.stack) = sight(c.RAS_top)
        /\ \A d \in 1 .. sight(c.RAS_top) :
             Held(RAS, alignQueue, c.alignTail, since(c.alignTail, alignTail),
                  below(c.RAS_top, d), e.stack[d])

(* Later points are later, and there is a way back from each.              *)
PointsOrdered(i) ==
    LET c == bpCkpt[liveEntries[i].ckptId]
    IN  /\ \A j \in i .. Len(liveEntries) + 1 :
             WayBack(alignQueue, c, pointAt(j).tail, pointAt(j).top)
        /\ \A j, k \in i .. Len(liveEntries) + 1 :
             j <= k => since(c.alignTail, pointAt(j).tail)
                         <= since(c.alignTail, pointAt(k).tail)

StackInv ==
    \A i \in DOMAIN liveEntries :
      liveEntries[i].ckptId \notin spoiled => StackKept(i) /\ PointsOrdered(i)

-----------------------------------------------------------------------------
(* Counters and slots.                                                     *)

(* Numbers less than the divisor apart with one remainder are equal.       *)
LEMMA SameRemainder ==
    ASSUME NEW w \in Nat \ {0}, NEW a \in Int, NEW b \in Int,
           a % w = b % w, a - b \in 0 .. w - 1
    PROVE  a = b
<1>1. b % w \in 0 .. w - 1 /\ b \div w \in Int /\ b = w * (b \div w) + (b % w)
  OBVIOUS
<1>2. a \div w \in Int /\ a = w * (a \div w) + (a % w)
  OBVIOUS
<1>3. a - b = w * ((a \div w) - (b \div w)) + 0
  BY <1>1, <1>2
<1>4. (a - b) % w = 0
  <2> DEFINE d == (a \div w) - (b \div w)
  <2>1. d \in Int
    BY <1>1, <1>2
  <2> HIDE DEF d
  <2>2. a - b = w * d + 0
    BY <1>3 DEF d
  <2> QED BY <2>1, <2>2, DivisionUnique
<1>5. (a - b) % w = a - b
  <2>1. a - b = w * 0 + (a - b)
    OBVIOUS
  <2> QED BY <2>1, DivisionUnique
<1> QED BY <1>4, <1>5

(* The sizes, in one place.                                                *)
LEMMA SizeFacts ==
    /\ CounterSpan \in Nat /\ RasCap \in Nat /\ AlignCap \in Nat
    /\ RasCap >= 1 /\ AlignCap >= 1
    /\ 2 * (RasCap + 1) <= CounterSpan /\ 2 * AlignCap <= CounterSpan
    /\ 2 * (CounterSpan \div 2) <= CounterSpan /\ CounterSpan \div 2 \in Nat
    /\ AlignCap <= CounterSpan \div 2 /\ RasCap < CounterSpan \div 2
    /\ CounterSpan - AlignCap >= CounterSpan \div 2
<1>1. /\ CounterSpan \in Nat \ {0} /\ RasCap \in Nat \ {0} /\ AlignCap \in Nat \ {0}
      /\ RasCap < CounterSpan \div 2 /\ AlignCap <= CounterSpan \div 2
  BY BpuAssumption
<1>2. 2 * (CounterSpan \div 2) <= CounterSpan /\ CounterSpan \div 2 \in Nat
  BY <1>1
<1> QED BY <1>1, <1>2

(* How far it is from one counter to another.                              *)
LEMMA SinceFacts ==
    ASSUME NEW a \in Counters, NEW b \in Counters
    PROVE  /\ a \in Int /\ b \in Int
           /\ since(a, b) \in 0 .. CounterSpan - 1
           /\ since(a, b) = IF a <= b THEN b - a ELSE b - a + CounterSpan
<1>1. CounterSpan \in Nat \ {0} /\ a \in 0 .. CounterSpan - 1
      /\ b \in 0 .. CounterSpan - 1
  BY BpuAssumption DEF Counters
<1>2. CASE a <= b
  <2>1. b - a = CounterSpan * 0 + (b - a) /\ b - a \in 0 .. CounterSpan - 1
    BY <1>1, <1>2
  <2>2. b - a \in Int
    BY <1>1
  <2>3. (b - a) % CounterSpan = b - a
    BY <1>1, <2>1, <2>2, DivisionUnique
  <2> QED BY <1>1, <1>2, <2>1, <2>3 DEF since
<1>3. CASE ~(a <= b)
  <2> DEFINE r == b - a + CounterSpan
  <2>1. b - a = CounterSpan * (-1) + r /\ r \in 0 .. CounterSpan - 1
    BY <1>1, <1>3
  <2>2. b - a \in Int
    BY <1>1
  <2> HIDE DEF r
  <2>3. (b - a) % CounterSpan = r
    BY <1>1, <2>1, <2>2, DivisionUnique
  <2> QED BY <1>1, <1>3, <2>1, <2>3 DEF since, r
<1> QED BY <1>2, <1>3

(* The next counter.                                                       *)
LEMMA NextCounter ==
    ASSUME NEW a \in Counters
    PROVE  /\ wrap(a + 1) \in Counters
           /\ wrap(a + 1) = IF a = CounterSpan - 1 THEN 0 ELSE a + 1
<1>1. CounterSpan \in Nat \ {0} /\ a \in 0 .. CounterSpan - 1 /\ a \in Nat
  BY BpuAssumption DEF Counters
<1>2. wrap(a + 1) = (a + 1) % CounterSpan /\ wrap(a + 1) \in Counters
  <2>1. a + 1 \in Int
    BY <1>1
  <2> QED BY <2>1, WrapFacts
<1>3. a % CounterSpan = a
  BY <1>1
<1> QED BY <1>1, <1>2, <1>3, NextRemainder

(* A turn of the counters does not change the slot.                        *)
LEMMA SameSlot ==
    ASSUME NEW a \in Int, NEW b \in Int,
           a - b \in {0, CounterSpan, -CounterSpan}
    PROVE  a % RasCap = b % RasCap /\ a % AlignCap = b % AlignCap
<1>1. /\ CounterSpan \in Nat \ {0} /\ RasCap \in Nat \ {0} /\ AlignCap \in Nat \ {0}
      /\ CounterSpan % RasCap = 0 /\ CounterSpan % AlignCap = 0
  BY BpuAssumption
<1>2. ASSUME NEW w \in Nat \ {0}, CounterSpan % w = 0 PROVE a % w = b % w
  <2> DEFINE m == CounterSpan \div w
  <2>1. m \in Int /\ CounterSpan = w * m
    BY <1>1, <1>2
  <2> HIDE DEF m
  <2>2. a = b \/ a = b + w * m \/ b = a + w * m
    BY <1>1, <2>1
  <2>3. (b + w * m) % w = b % w /\ (a + w * m) % w = a % w
    BY <2>1, RemainderShift
  <2> QED BY <2>2, <2>3
<1> QED BY <1>1, <1>2

-----------------------------------------------------------------------------
(* What an event does to a way back.                                       *)

(* What a checkpoint is made of.                                           *)
LEMMA CheckpointFacts ==
    ASSUME NEW c \in Checkpoint
    PROVE  /\ c.alignTail \in Counters /\ c.RAS_top \in Counters
           /\ c.alignTail \in Int /\ c.RAS_top \in Nat
           /\ sight(c.RAS_top) \in 0 .. RasCap /\ sight(c.RAS_top) <= c.RAS_top
<1>1. /\ c.alignTail \in Counters /\ c.RAS_top \in Counters
  BY DEF Checkpoint
<1>2. CounterSpan \in Nat /\ RasCap \in Nat
  BY SizeFacts
<1>3. c.alignTail \in Int /\ c.RAS_top \in Nat
  BY <1>1, <1>2 DEF Counters
<1> QED BY <1>1, <1>2, <1>3 DEF sight

(* Two queues agree on the first n records from base on.                   *)
Agree(p, q, base, n) ==
    \A k \in 0 .. n - 1 : recordAt(p, base, k) = recordAt(q, base, k)

(* The journal with one more record: the top entry comes last.             *)
LEMMA RecordWrites ==
    ASSUME PredictorTypes, NEW c \in Checkpoint,
           since(c.alignTail, alignTail) < AlignCap
    PROVE  LET n == since(c.alignTail, alignTail)
               y == below(RAS_top, 1)
           IN  /\ since(c.alignTail, wrap(alignTail + 1)) = n + 1
               /\ Agree(journal, alignQueue, c.alignTail, n)
               /\ recordAt(journal, c.alignTail, n) = [index |-> y, entry |-> RAS[y]]
<1> DEFINE b == c.alignTail
           n == since(b, alignTail)
           y == below(RAS_top, 1)
           r == [index |-> y, entry |-> RAS[y]]
<1>1. /\ b \in Counters /\ alignTail \in Counters /\ b \in Int /\ alignTail \in Int
      /\ n \in 0 .. CounterSpan - 1
      /\ n = IF b <= alignTail THEN alignTail - b ELSE alignTail - b + CounterSpan
      /\ n < AlignCap
  BY CheckpointFacts, SinceFacts DEF PredictorTypes
<1>2. journal = [alignQueue EXCEPT ![alignTail % AlignCap] = r]
  <2>1. RAS_top - 1 \in Int
    <3>1. RAS_top \in Int
      BY SinceFacts DEF PredictorTypes
    <3> QED BY <3>1
  <2>2. rasSlot(RAS_top - 1) = y
    BY <2>1, WrapFacts DEF below
  <2> QED BY <2>2 DEF journal, rasHead
<1>3. alignTail % AlignCap \in DOMAIN alignQueue
  <2>1. DOMAIN alignQueue = 0 .. AlignCap - 1
    BY DEF PredictorTypes
  <2> QED BY <1>1, <2>1, WrapFacts
<1> HIDE DEF n, b, r
<1>4. (b + n) % AlignCap = alignTail % AlignCap
  <2>1. b + n \in Int /\ (b + n) - alignTail \in {0, CounterSpan, -CounterSpan}
    BY <1>1, SizeFacts
  <2> QED BY <1>1, <2>1, SameSlot
<1>5. ASSUME NEW k \in 0 .. n - 1 PROVE (b + k) % AlignCap # alignTail % AlignCap
  <2>1. b + n \in Int /\ b + k \in Int /\ (b + n) - (b + k) \in 0 .. AlignCap - 1
        /\ b + n # b + k /\ AlignCap \in Nat \ {0}
    BY <1>1, SizeFacts
  <2> DEFINE u == b + n
             w == b + k
  <2> HIDE DEF u, w
  <2>2. u % AlignCap # w % AlignCap
    BY <2>1, SameRemainder DEF u, w
  <2> QED BY <1>4, <2>2 DEF u, w
<1>6. Agree(journal, alignQueue, b, n)
  BY <1>2, <1>5 DEF Agree, recordAt
<1>7. recordAt(journal, b, n) = r
  BY <1>2, <1>3, <1>4 DEF recordAt
<1>8. since(b, wrap(alignTail + 1)) = n + 1
  <2>1. /\ wrap(alignTail + 1) \in Counters
        /\ wrap(alignTail + 1) =
             IF alignTail = CounterSpan - 1 THEN 0 ELSE alignTail + 1
    BY <1>1, NextCounter
  <2> DEFINE u == wrap(alignTail + 1)
  <2>2. since(b, u) = IF b <= u THEN u - b ELSE u - b + CounterSpan
    BY <1>1, <2>1, SinceFacts
  <2>3. b \in 0 .. CounterSpan - 1 /\ alignTail \in 0 .. CounterSpan - 1
    BY <1>1 DEF Counters
  <2> HIDE DEF u
  <2>4. since(b, u) = n + 1
    <3>1. u = IF alignTail = CounterSpan - 1 THEN 0 ELSE alignTail + 1
      BY <2>1 DEF u
    <3> QED BY <1>1, <2>2, <2>3, <3>1, SizeFacts
  <2> QED BY <2>4 DEF u
<1> QED BY <1>6, <1>7, <1>8 DEF b, n, r

(* A record of a slot holds what it was; other slots stay.                 *)
LEMMA HeldMore ==
    ASSUME NEW ras, NEW ras2, NEW p, NEW q, NEW base, NEW n \in Nat, NEW y,
           Agree(p, q, base, n),
           recordAt(p, base, n) = [index |-> y, entry |-> ras[y]],
           NEW x, x # y => ras2[x] = ras[x], NEW v,
           Held(ras, q, base, n, x, v)
    PROVE  Held(ras2, p, base, n + 1, x, v)
<1>1. /\ \A k \in 0 .. n - 1 : k \in 0 .. (n + 1) - 1
      /\ n \in 0 .. (n + 1) - 1
      /\ \A k \in 0 .. (n + 1) - 1 : k = n \/ k \in 0 .. n - 1
      /\ \A k \in 0 .. n - 1 : \A l \in 0 .. k - 1 : l \in 0 .. n - 1
  OBVIOUS
<1>2. CASE (\A k \in 0 .. n - 1 : recordAt(q, base, k).index # x) /\ v = ras[x]
  <2>1. \A k \in 0 .. n - 1 : recordAt(p, base, k).index # x
    BY <1>2 DEF Agree
  <2>2. CASE x = y
    <3>1. recordAt(p, base, n).index = x /\ recordAt(p, base, n).entry = v
      BY <1>2, <2>2
    <3> QED BY <1>1, <2>1, <3>1 DEF Held
  <2>3. CASE x # y
    <3>1. recordAt(p, base, n).index # x
      BY <2>3
    <3> QED BY <1>1, <1>2, <2>1, <2>3, <3>1 DEF Held
  <2> QED BY <2>2, <2>3
<1>3. CASE \E k \in 0 .. n - 1 :
             /\ recordAt(q, base, k).index = x
             /\ recordAt(q, base, k).entry = v
             /\ \A l \in 0 .. k - 1 : recordAt(q, base, l).index # x
  <2>1. PICK k \in 0 .. n - 1 :
          /\ recordAt(q, base, k).index = x
          /\ recordAt(q, base, k).entry = v
          /\ \A l \in 0 .. k - 1 : recordAt(q, base, l).index # x
    BY <1>3
  <2>2. /\ recordAt(p, base, k).index = x
        /\ recordAt(p, base, k).entry = v
        /\ \A l \in 0 .. k - 1 : recordAt(p, base, l).index # x
    BY <1>1, <2>1 DEF Agree
  <2> QED BY <1>1, <2>2 DEF Held
<1> QED BY <1>2, <1>3 DEF Held

(* Ways back to points the queues agree up to are the same.                *)
LEMMA WayBackAgrees ==
    ASSUME NEW p, NEW q, NEW c, NEW n, Agree(p, q, c.alignTail, n), n \in Nat,
           NEW tail, NEW top, since(c.alignTail, tail) \in Nat,
           since(c.alignTail, tail) <= n,
           WayBack(q, c, tail, top)
    PROVE  WayBack(p, c, tail, top)
<1>1. \A k \in 0 .. since(c.alignTail, tail) - 1 : k \in 0 .. n - 1
  OBVIOUS
<1> QED BY <1>1 DEF WayBack, Agree

(* Event e keeps the way back to checkpoint c and the stack seen there.    *)
Keeps(e, c) ==
    LET b == c.alignTail
        n == since(b, alignTail)
    IN  /\ Agree(e.queue, alignQueue, b, n)
        /\ n <= since(b, e.tail)
        /\ WayBack(e.queue, c, e.tail, e.top)
        /\ \A d \in 1 .. sight(c.RAS_top), v \in RasEntry :
             Held(RAS, alignQueue, b, n, below(c.RAS_top, d), v)
               => Held(e.ras, e.queue, b, since(b, e.tail), below(c.RAS_top, d), v)

(* An event that records: there is room in the journal.                    *)
LEMMA RecordRoom ==
    ASSUME PredictorTypes, NEW c \in Checkpoint, NEW squash,
           Records(rasEvent(scanJump)), ~spoils(c, scanJump, squash)
    PROVE  /\ since(c.alignTail, alignTail) < AlignCap
           /\ rasEvent(scanJump).tail # alignTail
<1> DEFINE e == rasEvent(scanJump)
<1>1. /\ alignTail \in Counters /\ c.alignTail \in Counters
      /\ alignTail \in Int /\ c.alignTail \in Int
      /\ alignTail \in 0 .. CounterSpan - 1
      /\ since(c.alignTail, alignTail) \in 0 .. CounterSpan - 1
  BY CheckpointFacts, SinceFacts DEF PredictorTypes, Counters
<1>2. e.tail # alignTail
  <2>1. wrap(alignTail + 1) = IF alignTail = CounterSpan - 1 THEN 0 ELSE alignTail + 1
    BY <1>1, NextCounter
  <2> DEFINE u == wrap(alignTail + 1)
  <2>2. e.tail = u
    BY DEF Records
  <2>3. u = IF alignTail = CounterSpan - 1 THEN 0 ELSE alignTail + 1
    BY <2>1
  <2> HIDE DEF u, e
  <2> QED BY <1>1, <2>2, <2>3, SizeFacts
<1>3. wrap(alignTail - c.alignTail) = since(c.alignTail, alignTail)
  <2>1. alignTail - c.alignTail \in Int
    BY <1>1
  <2> QED BY <2>1, WrapFacts DEF since
<1>4. ~(since(c.alignTail, alignTail) >= AlignCap)
  BY <1>2, <1>3 DEF spoils
<1> QED BY <1>1, <1>2, <1>4, SizeFacts

(* A record that leaves the slots but that of the top alone.               *)
LEMMA RecordKeeps ==
    ASSUME PredictorTypes, NEW c \in Checkpoint, NEW squash,
           Records(rasEvent(scanJump)), ~spoils(c, scanJump, squash),
           \A x \in 0 .. RasCap - 1 :
             x # below(RAS_top, 1) => rasEvent(scanJump).ras[x] = RAS[x],
           WayBack(rasEvent(scanJump).queue, c, rasEvent(scanJump).tail,
                   rasEvent(scanJump).top)
    PROVE  Keeps(rasEvent(scanJump), c)
<1> DEFINE e == rasEvent(scanJump)
           b == c.alignTail
           n == since(b, alignTail)
           y == below(RAS_top, 1)
<1>1. n < AlignCap
  BY RecordRoom
<1>2. /\ since(b, e.tail) = n + 1
      /\ Agree(e.queue, alignQueue, b, n)
      /\ recordAt(e.queue, b, n) = [index |-> y, entry |-> RAS[y]]
  BY <1>1, RecordWrites DEF Records
<1>3. n \in Nat
  <2>1. alignTail \in Counters /\ b \in Counters
    BY CheckpointFacts DEF PredictorTypes
  <2> QED BY <2>1, SinceFacts
<1>4. \A x \in 0 .. RasCap - 1 : x # y => e.ras[x] = RAS[x]
  OBVIOUS
<1>5. \A d \in Int : below(c.RAS_top, d) \in 0 .. RasCap - 1
  <2> TAKE d \in Int
  <2>1. c.RAS_top - d \in Int
    BY CheckpointFacts
  <2> QED BY <2>1, WrapFacts DEF below
<1>6. WayBack(e.queue, c, e.tail, e.top)
  OBVIOUS
<1> HIDE DEF e, n, y, b
<1>7. ASSUME NEW d \in Int, NEW v,
             Held(RAS, alignQueue, b, n, below(c.RAS_top, d), v)
      PROVE  Held(e.ras, e.queue, b, since(b, e.tail), below(c.RAS_top, d), v)
  <2> DEFINE x == below(c.RAS_top, d)
  <2>1. x \in 0 .. RasCap - 1
    BY <1>5
  <2> HIDE DEF x
  <2>2. x # y => e.ras[x] = RAS[x]
    BY <1>4, <2>1
  <2>3. Held(RAS, alignQueue, b, n, x, v)
    BY <1>7 DEF x
  <2>4. Held(e.ras, e.queue, b, n + 1, x, v)
    BY <1>2, <1>3, <2>2, <2>3, HeldMore
  <2> QED BY <1>2, <2>4 DEF x
<1>8. 1 .. sight(c.RAS_top) \subseteq Int
  OBVIOUS
<1>9. n <= since(b, e.tail)
  BY <1>2, <1>3
<1> QED BY <1>2, <1>6, <1>7, <1>8, <1>9 DEF Keeps, e, b, n

(* Counting up or down.                                                    *)
LEMMA CountKeeps ==
    ASSUME PredictorTypes, NEW c \in Checkpoint, NEW squash,
           Counts(rasEvent(scanJump)), ~spoils(c, scanJump, squash),
           WayBack(alignQueue, c, alignTail, RAS_top)
    PROVE  Keeps(rasEvent(scanJump), c)
<1> DEFINE e == rasEvent(scanJump)
           b == c.alignTail
           n == since(b, alignTail)
           gap == since(RAS_top, c.RAS_top)
<1>1. Records(e) /\ e.top = RAS_top /\ \E m \in Counters : e.ras = counted(m)
  BY DEF Counts
<1>2. \A x \in 0 .. RasCap - 1 : x # below(RAS_top, 1) => e.ras[x] = RAS[x]
  <2>1. rasSlot(RAS_top - 1) = below(RAS_top, 1)
    <3>1. RAS_top - 1 \in Int
      <4>1. RAS_top \in Int
        BY SinceFacts DEF PredictorTypes
      <4> QED BY <4>1
    <3> QED BY <3>1, WrapFacts DEF below
  <2>2. DOMAIN RAS = 0 .. RasCap - 1
    BY DEF PredictorTypes
  <2> QED BY <1>1, <2>1, <2>2 DEF counted
<1>3. n < AlignCap
  BY <1>1, RecordRoom
<1>4. /\ since(b, e.tail) = n + 1
      /\ Agree(e.queue, alignQueue, b, n)
  BY <1>1, <1>3, RecordWrites DEF Records
<1>5. n \in Nat /\ gap \in Nat
  <2>1. alignTail \in Counters /\ b \in Counters /\ RAS_top \in Counters
        /\ c.RAS_top \in Counters
    BY CheckpointFacts DEF PredictorTypes
  <2> QED BY <2>1, SinceFacts
<1>6. WayBack(e.queue, c, e.tail, e.top)
  <2>1. n + 1 <= AlignCap
    BY <1>3, <1>5, SizeFacts
  <2>2. CASE since(c.RAS_top, RAS_top) <= RasCap
    BY <1>1, <1>4, <2>1, <2>2 DEF WayBack
  <2>3. CASE ~(since(c.RAS_top, RAS_top) <= RasCap)
    <3>1. /\ gap <= n
          /\ \A d \in 1 .. gap : \E k \in 0 .. n - 1 :
               recordAt(alignQueue, b, k).index = below(c.RAS_top, d)
      BY <2>3 DEF WayBack
    <3>2. \A d \in 1 .. gap : \E k \in 0 .. (n + 1) - 1 :
            recordAt(e.queue, b, k).index = below(c.RAS_top, d)
      <4>1. \A k \in 0 .. n - 1 : k \in 0 .. (n + 1) - 1
        BY <1>5
      <4> HIDE DEF n, gap, e
      <4> QED BY <1>4, <3>1, <4>1 DEF Agree
    <3>3. gap <= n + 1
      BY <1>5, <3>1
    <3> QED BY <1>1, <1>4, <2>1, <3>2, <3>3 DEF WayBack
  <2> QED BY <2>2, <2>3
<1> QED BY <1>1, <1>2, <1>6, RecordKeeps

(* Popping.                                                                *)
LEMMA PopKeeps ==
    ASSUME PredictorTypes, NEW c \in Checkpoint, NEW squash,
           Pops(rasEvent(scanJump)), ~spoils(c, scanJump, squash),
           WayBack(alignQueue, c, alignTail, RAS_top)
    PROVE  Keeps(rasEvent(scanJump), c)
<1> DEFINE e == rasEvent(scanJump)
           b == c.alignTail
           n == since(b, alignTail)
           gap == since(RAS_top, c.RAS_top)
           ahead == since(c.RAS_top, RAS_top)
<1>1. Records(e) /\ RAS_top > 0 /\ e.top = RAS_top - 1 /\ e.ras = RAS
  BY DEF Pops
<1>2. n < AlignCap
  BY <1>1, RecordRoom
<1>3. /\ since(b, e.tail) = n + 1
      /\ Agree(e.queue, alignQueue, b, n)
      /\ recordAt(e.queue, b, n).index = below(RAS_top, 1)
  <2> DEFINE y == below(RAS_top, 1)
  <2>1. /\ since(b, e.tail) = n + 1
        /\ Agree(e.queue, alignQueue, b, n)
        /\ recordAt(e.queue, b, n) = [index |-> y, entry |-> RAS[y]]
    BY <1>1, <1>2, RecordWrites DEF Records
  <2> HIDE DEF y, e, n, b
  <2>2. recordAt(e.queue, b, n).index = y
    BY <2>1
  <2> QED BY <2>1, <2>2 DEF y
<1>4. /\ RAS_top \in 0 .. CounterSpan - 1 /\ c.RAS_top \in 0 .. CounterSpan - 1
      /\ e.top \in Counters
      /\ n \in Nat /\ gap \in Nat /\ ahead \in Nat
      /\ gap = IF RAS_top <= c.RAS_top THEN c.RAS_top - RAS_top
               ELSE c.RAS_top - RAS_top + CounterSpan
      /\ ahead = IF c.RAS_top <= RAS_top THEN RAS_top - c.RAS_top
                 ELSE RAS_top - c.RAS_top + CounterSpan
      /\ since(e.top, c.RAS_top) =
           IF e.top <= c.RAS_top THEN c.RAS_top - e.top
           ELSE c.RAS_top - e.top + CounterSpan
      /\ since(c.RAS_top, e.top) =
           IF c.RAS_top <= e.top THEN e.top - c.RAS_top
           ELSE e.top - c.RAS_top + CounterSpan
  <2>1. alignTail \in Counters /\ b \in Counters /\ RAS_top \in Counters
        /\ c.RAS_top \in Counters
    BY CheckpointFacts DEF PredictorTypes
  <2>2. RAS_top - 1 \in Counters
    BY <1>1, <2>1, SizeFacts DEF Counters
  <2>3. e.top \in Counters
    BY <1>1, <2>2
  <2> HIDE DEF e
  <2>4. /\ gap \in Nat
        /\ gap = IF RAS_top <= c.RAS_top THEN c.RAS_top - RAS_top
                 ELSE c.RAS_top - RAS_top + CounterSpan
    BY <2>1, SinceFacts
  <2>5. /\ ahead \in Nat
        /\ ahead = IF c.RAS_top <= RAS_top THEN RAS_top - c.RAS_top
                   ELSE RAS_top - c.RAS_top + CounterSpan
    BY <2>1, SinceFacts
  <2>6. n \in Nat
    BY <2>1, SinceFacts
  <2>7. since(e.top, c.RAS_top) =
          IF e.top <= c.RAS_top THEN c.RAS_top - e.top
          ELSE c.RAS_top - e.top + CounterSpan
    BY <2>1, <2>3, SinceFacts
  <2>8. since(c.RAS_top, e.top) =
          IF c.RAS_top <= e.top THEN e.top - c.RAS_top
          ELSE e.top - c.RAS_top + CounterSpan
    BY <2>1, <2>3, SinceFacts
  <2>9. RAS_top \in 0 .. CounterSpan - 1 /\ c.RAS_top \in 0 .. CounterSpan - 1
    BY <2>1 DEF Counters
  <2> QED BY <2>3, <2>4, <2>5, <2>6, <2>7, <2>8, <2>9
<1> DEFINE gap2 == since(e.top, c.RAS_top)
           ahead2 == since(c.RAS_top, e.top)
           top == RAS_top
           old == c.RAS_top
           new == e.top
<1>5. /\ new = top - 1 /\ top > 0
      /\ top \in 0 .. CounterSpan - 1 /\ old \in 0 .. CounterSpan - 1
      /\ gap = IF top <= old THEN old - top ELSE old - top + CounterSpan
      /\ ahead = IF old <= top THEN top - old ELSE top - old + CounterSpan
      /\ gap2 = IF new <= old THEN old - new ELSE old - new + CounterSpan
      /\ ahead2 = IF old <= new THEN new - old ELSE new - old + CounterSpan
  BY <1>1, <1>4
<1>6. n + 1 <= AlignCap /\ n \in Nat
  BY <1>2, <1>4, SizeFacts
<1>7. WayBack(alignQueue, c, alignTail, top)
  OBVIOUS
<1>8. WayBack(e.queue, c, e.tail, new)
  <2>1. CASE ahead \in 1 .. RasCap
    <3>1. ahead2 <= RasCap
      <4> HIDE DEF gap, ahead, gap2, ahead2, top, old, new, n
      <4> QED BY <1>5, <2>1, SizeFacts
    <3> QED BY <1>3, <1>6, <3>1 DEF WayBack
  <2>2. CASE ahead \notin 1 .. RasCap
    <3>1. /\ gap <= n
          /\ \A d \in 1 .. gap : \E k \in 0 .. n - 1 :
               recordAt(alignQueue, b, k).index = below(old, d)
      <4>1. CASE ahead = 0
        <5>1. gap = 0
          <6> HIDE DEF gap, ahead, gap2, ahead2, top, old, new, n
          <6> QED BY <1>5, <4>1, SizeFacts
        <5>2. 1 .. gap = {}
          <6> HIDE DEF gap
          <6> QED BY <5>1
        <5> HIDE DEF gap, n
        <5> QED BY <1>6, <5>1, <5>2
      <4>2. CASE ahead # 0
        <5>1. ~(ahead <= RasCap)
          BY <1>4, <2>2, <4>2, SizeFacts
        <5> QED BY <1>7, <5>1 DEF WayBack
      <4> QED BY <4>1, <4>2
    <3>2. gap2 = gap + 1 /\ gap2 <= n + 1 /\ gap \in Nat
      <4> HIDE DEF gap, ahead, gap2, ahead2, top, old, new, n
      <4> QED BY <1>5, <1>6, <3>1, SizeFacts
    <3>3. below(old, gap + 1) = below(top, 1)
      <4> DEFINE u == old - (gap + 1)
                 w == top - 1
      <4>1. u \in Int /\ w \in Int /\ u - w \in {0, CounterSpan, -CounterSpan}
        <5> HIDE DEF gap, ahead, gap2, ahead2, top, old, new, n
        <5> QED BY <1>5, <3>2, SizeFacts
      <4> HIDE DEF u, w
      <4>2. u % RasCap = w % RasCap
        BY <4>1, SameSlot
      <4> QED BY <4>2 DEF below, u, w
    <3>4. \A d \in 1 .. gap2 : \E k \in 0 .. (n + 1) - 1 :
            recordAt(e.queue, b, k).index = below(old, d)
      <4> TAKE d \in 1 .. gap2
      <4>1. CASE d = gap + 1
        <5>1. recordAt(e.queue, b, n).index = below(old, d)
          BY <1>3, <3>3, <4>1
        <5>2. n \in 0 .. (n + 1) - 1
          BY <1>6
        <5> QED BY <5>1, <5>2
      <4>2. CASE d # gap + 1
        <5>1. d \in 1 .. gap
          <6> HIDE DEF gap, gap2
          <6> QED BY <3>2, <4>2
        <5>2. PICK k \in 0 .. n - 1 : recordAt(alignQueue, b, k).index = below(old, d)
          BY <3>1, <5>1
        <5>3. recordAt(e.queue, b, k).index = below(old, d)
          BY <1>3, <5>2 DEF Agree
        <5>4. k \in 0 .. (n + 1) - 1
          BY <1>6
        <5> QED BY <5>3, <5>4
      <4> QED BY <4>1, <4>2
    <3> QED BY <1>3, <1>6, <3>2, <3>4 DEF WayBack
  <2> QED BY <2>1, <2>2
<1>9. \A x \in 0 .. RasCap - 1 : x # below(RAS_top, 1) => e.ras[x] = RAS[x]
  BY <1>1
<1> QED BY <1>1, <1>8, <1>9, RecordKeeps

(* The distances between a counter and the one a checkpoint has, before    *)
(* and after the counter moves up.                                         *)
LEMMA AheadFacts ==
    ASSUME PredictorTypes, NEW c \in Checkpoint
    PROVE  LET ahead == since(c.RAS_top, RAS_top)
               gap == since(RAS_top, c.RAS_top)
               up == wrap(RAS_top + 1)
           IN  /\ RAS_top \in Int /\ c.RAS_top \in Int
               /\ ahead \in Nat /\ gap \in Nat
               /\ ahead = 0 => gap = 0
               /\ ahead # 0 => gap = CounterSpan - ahead
               /\ ahead - (RAS_top - c.RAS_top) \in {0, CounterSpan}
               /\ gap - (c.RAS_top - RAS_top) \in {0, CounterSpan}
               /\ ahead < CounterSpan - 1 => since(c.RAS_top, up) = ahead + 1
               /\ gap > 0 => since(up, c.RAS_top) = gap - 1
<1> DEFINE top == RAS_top
           old == c.RAS_top
           ahead == since(old, top)
           gap == since(top, old)
           up == wrap(top + 1)
<1>1. /\ top \in Counters /\ old \in Counters /\ up \in Counters
      /\ up = IF top = CounterSpan - 1 THEN 0 ELSE top + 1
  BY CheckpointFacts, NextCounter DEF PredictorTypes
<1> HIDE DEF top, old, up
<1>2. /\ ahead \in Nat
      /\ ahead = IF old <= top THEN top - old ELSE top - old + CounterSpan
  BY <1>1, SinceFacts
<1>3. /\ gap \in Nat
      /\ gap = IF top <= old THEN old - top ELSE old - top + CounterSpan
  BY <1>1, SinceFacts
<1>4. since(old, up) = IF old <= up THEN up - old ELSE up - old + CounterSpan
  BY <1>1, SinceFacts
<1>5. since(up, old) = IF up <= old THEN old - up ELSE old - up + CounterSpan
  BY <1>1, SinceFacts
<1>6. top \in 0 .. CounterSpan - 1 /\ old \in 0 .. CounterSpan - 1
  BY <1>1 DEF Counters
<1> DEFINE ahead2 == since(old, up)
           gap2 == since(up, old)
<1> HIDE DEF ahead, gap, ahead2, gap2
<1>7. /\ top \in Int /\ old \in Int
      /\ ahead = 0 => gap = 0
      /\ ahead # 0 => gap = CounterSpan - ahead
      /\ ahead - (top - old) \in {0, CounterSpan}
      /\ gap - (old - top) \in {0, CounterSpan}
  BY <1>2, <1>3, <1>6, SizeFacts
<1>8. /\ ahead < CounterSpan - 1 => ahead2 = ahead + 1
      /\ gap > 0 => gap2 = gap - 1
  BY <1>1, <1>2, <1>3, <1>4, <1>5, <1>6, SizeFacts DEF ahead2, gap2
<1> QED BY <1>2, <1>3, <1>7, <1>8 DEF top, old, up, ahead, gap, ahead2, gap2

(* A push does not run over an address in sight, unless it was popped and  *)
(* so recorded.                                                            *)
LEMMA PushedOver ==
    ASSUME PredictorTypes, NEW c \in Checkpoint, NEW squash,
           Pushes(rasEvent(scanJump)), ~spoils(c, scanJump, squash),
           WayBack(alignQueue, c, alignTail, RAS_top),
           NEW d \in 1 .. sight(c.RAS_top),
           below(c.RAS_top, d) = RAS_top % RasCap
    PROVE  \E k \in 0 .. since(c.alignTail, alignTail) - 1 :
             recordAt(alignQueue, c.alignTail, k).index = below(c.RAS_top, d)
<1> DEFINE e == rasEvent(scanJump)
           ahead == since(c.RAS_top, RAS_top)
           gap == since(RAS_top, c.RAS_top)
           old == c.RAS_top
           top == RAS_top
<1>1. /\ top \in Int /\ old \in Int
      /\ ahead \in Nat /\ gap \in Nat
      /\ ahead = 0 => gap = 0
      /\ ahead - (top - old) \in {0, CounterSpan}
      /\ gap - (old - top) \in {0, CounterSpan}
  BY AheadFacts
<1>2. d \in 1 .. RasCap /\ sight(old) \in Nat /\ d <= sight(old)
  BY CheckpointFacts, SizeFacts
<1>3. CASE ahead <= RasCap
  <2>1. ahead + sight(old) < RasCap
    <3>1. e.top = wrap(RAS_top + 1)
      BY DEF Pushes
    <3>2. wrap(RAS_top - c.RAS_top) = ahead
      <4>1. RAS_top - c.RAS_top \in Int
        BY <1>1
      <4> QED BY <4>1, WrapFacts DEF since
    <3>3. ahead < CounterSpan \div 2
      <4> HIDE DEF ahead
      <4> QED BY <1>1, <1>3, SizeFacts
    <3>4. ~(ahead + sight(old) >= RasCap)
      BY <3>1, <3>2, <3>3 DEF spoils, sight
    <3> HIDE DEF ahead, old
    <3> QED BY <1>1, <1>2, <3>4, SizeFacts
  <2> DEFINE u == old + ahead
             w == old - d
  <2>2. u % RasCap = top % RasCap
    <3>1. u \in Int /\ u - top \in {0, CounterSpan, -CounterSpan}
      <4> HIDE DEF ahead, old, top
      <4> QED BY <1>1, SizeFacts
    <3> HIDE DEF u
    <3> QED BY <1>1, <3>1, SameSlot
  <2>3. w % RasCap = top % RasCap
    BY DEF below
  <2>4. u \in Int /\ w \in Int /\ u - w \in 0 .. RasCap - 1 /\ u # w
        /\ RasCap \in Nat \ {0}
    <3> HIDE DEF ahead, old, top
    <3> QED BY <1>1, <1>2, <2>1, SizeFacts
  <2> HIDE DEF u, w
  <2> QED BY <2>2, <2>3, <2>4, SameRemainder
<1>4. CASE ~(ahead <= RasCap)
  <2>1. /\ gap <= since(c.alignTail, alignTail)
        /\ \A g \in 1 .. gap : \E k \in 0 .. since(c.alignTail, alignTail) - 1 :
             recordAt(alignQueue, c.alignTail, k).index = below(old, g)
    BY <1>4 DEF WayBack
  <2>2. gap \in 1 .. gap
    <3>1. gap # 0
      <4>1. ahead # 0
        BY <1>4, SizeFacts
      <4>2. gap = CounterSpan - ahead /\ ahead \in 0 .. CounterSpan - 1
        <5>1. RAS_top \in Counters /\ c.RAS_top \in Counters
          BY CheckpointFacts DEF PredictorTypes
        <5> QED BY <4>1, <5>1, AheadFacts, SinceFacts
      <4> HIDE DEF gap, ahead
      <4> QED BY <4>2, SizeFacts
    <3> HIDE DEF gap
    <3> QED BY <1>1, <3>1
  <2>3. below(old, gap) = top % RasCap
    <3> DEFINE u == old - gap
    <3>1. u \in Int /\ u - top \in {0, CounterSpan, -CounterSpan}
      <4> HIDE DEF gap, old, top
      <4> QED BY <1>1, SizeFacts
    <3> HIDE DEF u
    <3>2. u % RasCap = top % RasCap
      BY <1>1, <3>1, SameSlot
    <3> QED BY <3>2 DEF u, below
  <2>4. PICK k \in 0 .. since(c.alignTail, alignTail) - 1 :
          recordAt(alignQueue, c.alignTail, k).index = below(old, gap)
    BY <2>1, <2>2
  <2> QED BY <2>3, <2>4
<1> QED BY <1>3, <1>4

(* Pushing.                                                                *)
LEMMA PushKeeps ==
    ASSUME PredictorTypes, NEW c \in Checkpoint, NEW squash,
           Pushes(rasEvent(scanJump)), ~spoils(c, scanJump, squash),
           WayBack(alignQueue, c, alignTail, RAS_top)
    PROVE  Keeps(rasEvent(scanJump), c)
<1> DEFINE e == rasEvent(scanJump)
           b == c.alignTail
           n == since(b, alignTail)
           gap == since(RAS_top, c.RAS_top)
           ahead == since(c.RAS_top, RAS_top)
           up == wrap(RAS_top + 1)
<1>1. /\ e.queue = alignQueue /\ e.tail = alignTail /\ e.top = up
      /\ \A x \in 0 .. RasCap - 1 : x # RAS_top % RasCap => e.ras[x] = RAS[x]
  <2>1. rasSlot(RAS_top) = RAS_top % RasCap
    <3>1. RAS_top \in Int
      BY SinceFacts DEF PredictorTypes
    <3> QED BY <3>1, WrapFacts
  <2>2. DOMAIN RAS = 0 .. RasCap - 1
    BY DEF PredictorTypes
  <2> QED BY <2>1, <2>2 DEF Pushes
<1>2. n \in Nat
  <2>1. alignTail \in Counters /\ b \in Counters
    BY CheckpointFacts DEF PredictorTypes
  <2> QED BY <2>1, SinceFacts
<1>3. /\ ahead \in Nat /\ gap \in Nat
      /\ ahead # 0 => gap = CounterSpan - ahead
      /\ ahead < CounterSpan - 1 => since(c.RAS_top, up) = ahead + 1
      /\ gap > 0 => since(up, c.RAS_top) = gap - 1
  BY AheadFacts
<1>4. WayBack(alignQueue, c, alignTail, up)
  <2>1. CASE ahead <= RasCap
    <3>1. since(c.RAS_top, up) <= RasCap
      <4>1. wrap(RAS_top - c.RAS_top) = ahead
        <5>1. RAS_top - c.RAS_top \in Int
          <6>1. RAS_top \in Int /\ c.RAS_top \in Int
            BY AheadFacts
          <6> QED BY <6>1
        <5> QED BY <5>1, WrapFacts DEF since
      <4>2. ahead < CounterSpan \div 2 /\ ahead < CounterSpan - 1
        <5> HIDE DEF ahead
        <5> QED BY <1>3, <2>1, SizeFacts
      <4>3. ~(ahead + sight(c.RAS_top) >= RasCap)
        BY <1>1, <4>1, <4>2 DEF spoils, sight
      <4>4. sight(c.RAS_top) \in Nat
        BY CheckpointFacts
      <4>5. since(c.RAS_top, up) = ahead + 1
        BY <1>3, <4>2
      <4> HIDE DEF ahead, up
      <4> QED BY <1>3, <4>3, <4>4, <4>5, SizeFacts
    <3> QED BY <3>1 DEF WayBack
  <2>2. CASE ~(ahead <= RasCap)
    <3>1. /\ gap <= n /\ n <= AlignCap
          /\ \A d \in 1 .. gap : \E k \in 0 .. n - 1 :
               recordAt(alignQueue, b, k).index = below(c.RAS_top, d)
      BY <2>2 DEF WayBack
    <3>2. gap > 0 /\ since(up, c.RAS_top) = gap - 1
      <4>1. ahead # 0 /\ ahead \in 0 .. CounterSpan - 1
        <5>1. RAS_top \in Counters /\ c.RAS_top \in Counters
          BY CheckpointFacts DEF PredictorTypes
        <5> QED BY <2>2, <5>1, SinceFacts, SizeFacts
      <4>2. gap > 0
        <5> HIDE DEF gap, ahead
        <5> QED BY <1>3, <4>1, SizeFacts
      <4> QED BY <1>3, <4>2
    <3>3. gap - 1 <= n /\ \A d \in 1 .. gap - 1 : d \in 1 .. gap
      <4> HIDE DEF gap, n
      <4> QED BY <1>2, <1>3, <3>1
    <3>4. /\ since(up, c.RAS_top) <= n
          /\ \A d \in 1 .. since(up, c.RAS_top) : \E k \in 0 .. n - 1 :
               recordAt(alignQueue, b, k).index = below(c.RAS_top, d)
      BY <3>1, <3>2, <3>3
    <3> QED BY <3>1, <3>4 DEF WayBack
  <2> QED BY <2>1, <2>2
<1>5. \A d \in Int : below(c.RAS_top, d) \in 0 .. RasCap - 1
  <2> TAKE d \in Int
  <2>1. c.RAS_top - d \in Int
    BY CheckpointFacts
  <2> QED BY <2>1, WrapFacts DEF below
<1>6. ASSUME NEW d \in 1 .. sight(c.RAS_top), NEW v,
             Held(RAS, alignQueue, b, n, below(c.RAS_top, d), v)
      PROVE  Held(e.ras, alignQueue, b, n, below(c.RAS_top, d), v)
  <2> DEFINE x == below(c.RAS_top, d)
  <2>1. CASE x = RAS_top % RasCap
    <3>1. \E k \in 0 .. n - 1 : recordAt(alignQueue, b, k).index = x
      BY <2>1, PushedOver
    <3> QED BY <1>6, <3>1 DEF Held
  <2>2. CASE x # RAS_top % RasCap
    <3>1. x \in 0 .. RasCap - 1
      BY <1>5
    <3>2. e.ras[x] = RAS[x]
      BY <1>1, <2>2, <3>1
    <3> QED BY <1>6, <3>2 DEF Held
  <2> QED BY <2>1, <2>2
<1> HIDE DEF e
<1>7. Agree(e.queue, alignQueue, b, n)
  BY <1>1 DEF Agree
<1> QED BY <1>1, <1>2, <1>4, <1>6, <1>7 DEF Keeps, e

(* The event of a cycle keeps the stack that a checkpoint sees, unless it  *)
(* is recorded that it does not; with a squash it also leaves alone what   *)
(* the journal has no record of.                                           *)
LEMMA EventKeeps ==
    ASSUME PredictorTypes, FetchTypes, NEW c \in Checkpoint, NEW squash,
           ~spoils(c, scanJump, squash),
           WayBack(alignQueue, c, alignTail, RAS_top)
    PROVE  /\ Keeps(rasEvent(scanJump), c)
           /\ squash.needSquash =>
                \A d \in 1 .. sight(c.RAS_top) :
                  \/ \E k \in 0 .. since(c.alignTail, alignTail) - 1 :
                       recordAt(alignQueue, c.alignTail, k).index
                         = below(c.RAS_top, d)
                  \/ rasEvent(scanJump).ras[below(c.RAS_top, d)]
                       = RAS[below(c.RAS_top, d)]
<1> DEFINE e == rasEvent(scanJump)
<1>1. Rests(e) \/ Counts(e) \/ Pops(e) \/ Pushes(e)
  BY EventCases
<1>2. CASE Rests(e)
  <2>1. since(c.alignTail, alignTail) \in Nat
    <3>1. alignTail \in Counters /\ c.alignTail \in Counters
      BY CheckpointFacts DEF PredictorTypes
    <3> QED BY <3>1, SinceFacts
  <2>2. e.ras = RAS /\ e.top = RAS_top /\ e.queue = alignQueue /\ e.tail = alignTail
    BY <1>2 DEF Rests
  <2> HIDE DEF e
  <2> QED BY <2>1, <2>2 DEF Keeps, Agree, e
<1>3. CASE Counts(e)
  <2>1. Keeps(e, c)
    BY <1>3, CountKeeps
  <2>2. ~squash.needSquash
    <3>1. e.tail # alignTail /\ e.top = RAS_top
      BY <1>3, RecordRoom DEF Counts
    <3> QED BY <3>1 DEF spoils
  <2> QED BY <2>1, <2>2
<1>4. CASE Pops(e)
  <2>1. Keeps(e, c)
    BY <1>4, PopKeeps
  <2>2. e.ras = RAS
    BY <1>4 DEF Pops
  <2> QED BY <2>1, <2>2
<1>5. CASE Pushes(e)
  <2>1. Keeps(e, c)
    BY <1>5, PushKeeps
  <2>2. ASSUME NEW d \in 1 .. sight(c.RAS_top)
        PROVE  \/ \E k \in 0 .. since(c.alignTail, alignTail) - 1 :
                    recordAt(alignQueue, c.alignTail, k).index = below(c.RAS_top, d)
               \/ e.ras[below(c.RAS_top, d)] = RAS[below(c.RAS_top, d)]
    <3> DEFINE x == below(c.RAS_top, d)
    <3>1. CASE x = RAS_top % RasCap
      BY <1>5, <3>1, PushedOver
    <3>2. CASE x # RAS_top % RasCap
      <4>1. RAS_top \in Int /\ c.RAS_top - d \in Int
        BY CheckpointFacts, SinceFacts DEF PredictorTypes
      <4>2. x \in DOMAIN RAS /\ rasSlot(RAS_top) = RAS_top % RasCap
        <5>1. x \in 0 .. RasCap - 1 /\ rasSlot(RAS_top) = RAS_top % RasCap
          BY <4>1, WrapFacts DEF below
        <5> QED BY <5>1 DEF PredictorTypes
      <4>3. PICK y \in RasEntry : e.ras = [RAS EXCEPT ![rasSlot(RAS_top)] = y]
        BY <1>5 DEF Pushes
      <4> HIDE DEF x, e
      <4>4. e.ras[x] = RAS[x]
        BY <3>2, <4>2, <4>3
      <4> QED BY <4>4 DEF x, e
    <3> QED BY <3>1, <3>2
  <2> QED BY <2>1, <2>2
<1> QED BY <1>1, <1>2, <1>3, <1>4, <1>5

-----------------------------------------------------------------------------
(* What a squash does to a way back.                                       *)

(* The undo loop goes over the records since the target's checkpoint, as   *)
(* seen from an older one.                                                 *)
LEMMA UndoneRecords ==
    ASSUME PredictorTypes, NEW c \in Checkpoint, NEW to \in Checkpoint,
           since(c.alignTail, to.alignTail) <= since(c.alignTail, alignTail),
           since(c.alignTail, alignTail) <= AlignCap
    PROVE  LET n == since(c.alignTail, alignTail)
               m == since(c.alignTail, to.alignTail)
           IN  /\ n \in Nat /\ m \in Nat
               /\ undone(to.alignTail) = 0 .. (n - m) - 1
               /\ \A k \in 0 .. (n - m) - 1 :
                    record(k) = recordAt(alignQueue, c.alignTail, (n - 1) - k)
<1> DEFINE b == c.alignTail
           a == to.alignTail
           t == alignTail
           n == since(b, t)
           m == since(b, a)
           o == since(a, t)
<1>1. b \in Counters /\ a \in Counters /\ t \in Counters
  BY CheckpointFacts DEF PredictorTypes
<1> HIDE DEF b, a
<1>2. b \in 0 .. CounterSpan - 1 /\ a \in 0 .. CounterSpan - 1 /\ t \in 0 .. CounterSpan - 1
  BY <1>1 DEF Counters
<1>3. n \in Nat /\ n = IF b <= t THEN t - b ELSE t - b + CounterSpan
  BY <1>1, SinceFacts
<1>4. m \in Nat /\ m = IF b <= a THEN a - b ELSE a - b + CounterSpan
  BY <1>1, SinceFacts
<1>5. o \in Nat /\ o = IF a <= t THEN t - a ELSE t - a + CounterSpan
  BY <1>1, SinceFacts
<1>6. m <= n /\ n <= AlignCap
  BY DEF a, b
<1>7. o = n - m
  <2> HIDE DEF n, m, o
  <2> QED BY <1>2, <1>3, <1>4, <1>5, <1>6, SizeFacts
<1>8. wrap(t - a) = o
  <2>1. t - a \in Int
    BY <1>2, SizeFacts
  <2> QED BY <2>1, WrapFacts DEF since
<1>9. undone(a) = 0 .. (n - m) - 1
  <2>1. undone(a) = {k \in 0 .. AlignCap - 1 : k < n - m}
    BY <1>7, <1>8 DEF undone
  <2> HIDE DEF n, m, o
  <2> QED BY <1>3, <1>4, <1>6, <2>1, SizeFacts
<1>10. ASSUME NEW k \in 0 .. (n - m) - 1
       PROVE  record(k) = recordAt(alignQueue, b, (n - 1) - k)
  <2> DEFINE u == t - 1 - k
             w == b + ((n - 1) - k)
  <2>1. u \in Int /\ w \in Int /\ u - w \in {0, CounterSpan, -CounterSpan}
    <3> HIDE DEF n, m, o
    <3> QED BY <1>2, <1>3, SizeFacts
  <2> HIDE DEF u, w
  <2>2. wrap(u) % AlignCap = u % AlignCap /\ u % AlignCap = w % AlignCap
    BY <2>1, WrapFacts, SameSlot
  <2>3. record(k) = alignQueue[wrap(u) % AlignCap]
    BY DEF record, u
  <2>4. recordAt(alignQueue, b, (n - 1) - k) = alignQueue[w % AlignCap]
    BY DEF recordAt, w
  <2> QED BY <2>2, <2>3, <2>4
<1> QED BY <1>3, <1>4, <1>9, <1>10 DEF a, b

(* After the undo loop the stack is as it was at the target.               *)
LEMMA SquashKeeps ==
    ASSUME PredictorTypes, NEW c \in Checkpoint, NEW to \in Checkpoint,
           since(c.alignTail, to.alignTail) <= since(c.alignTail, alignTail),
           since(c.alignTail, alignTail) <= AlignCap,
           NEW q, Agree(q, alignQueue, c.alignTail, since(c.alignTail, alignTail)),
           NEW ras, NEW x \in DOMAIN ras, NEW v,
           \/ \E k \in 0 .. since(c.alignTail, alignTail) - 1 :
                recordAt(alignQueue, c.alignTail, k).index = x
           \/ ras[x] = RAS[x],
           Held(RAS, alignQueue, c.alignTail, since(c.alignTail, alignTail), x, v)
    PROVE  Held(rewound(ras, to.alignTail), q, c.alignTail,
                since(c.alignTail, to.alignTail), x, v)
<1> DEFINE b == c.alignTail
           n == since(b, alignTail)
           m == since(b, to.alignTail)
           R == rewound(ras, to.alignTail)
           at(p) == recordAt(alignQueue, b, p)
<1>1. /\ n \in Nat /\ m \in Nat /\ m <= n
      /\ undone(to.alignTail) = 0 .. (n - m) - 1
      /\ \A k \in 0 .. (n - m) - 1 : record(k) = at((n - 1) - k)
  BY UndoneRecords
<1>2. Rewinds(to.alignTail, x, ras[x], R[x])
  <2>1. alignTail \in Counters /\ to.alignTail \in Counters
    BY CheckpointFacts DEF PredictorTypes
  <2> QED BY <2>1, RewoundIs
<1>3. \A k \in 0 .. n - 1 : recordAt(q, b, k) = at(k)
  BY DEF Agree
<1>4. \/ \E k \in 0 .. n - 1 : at(k).index = x
      \/ ras[x] = RAS[x]
  OBVIOUS
<1>5. Held(RAS, alignQueue, b, n, x, v)
  OBVIOUS
<1> HIDE DEF n, m, R, b
<1>6. /\ \A k \in 0 .. m - 1 : k \in 0 .. n - 1
      /\ \A k \in 0 .. (n - m) - 1 : (n - 1) - k \in 0 .. n - 1
  BY <1>1
<1>7. CASE (\A k \in 0 .. n - 1 : at(k).index # x) /\ v = RAS[x]
  <2>1. ras[x] = v
    BY <1>4, <1>7
  <2>2. \A k \in undone(to.alignTail) : record(k).index # x
    BY <1>1, <1>6, <1>7
  <2>3. R[x] = v
    BY <1>2, <2>1, <2>2 DEF Rewinds
  <2>4. \A k \in 0 .. m - 1 : recordAt(q, b, k).index # x
    BY <1>3, <1>6, <1>7
  <2> QED BY <2>3, <2>4 DEF Held, R, b, m
<1>8. CASE \E p \in 0 .. n - 1 :
             /\ at(p).index = x /\ at(p).entry = v
             /\ \A l \in 0 .. p - 1 : at(l).index # x
  <2>1. PICK p \in 0 .. n - 1 :
             /\ at(p).index = x /\ at(p).entry = v
             /\ \A l \in 0 .. p - 1 : at(l).index # x
    BY <1>8
  <2> HIDE DEF at
  <2>2. CASE p < m
    <3>1. p \in 0 .. m - 1
      BY <1>1, <2>2
    <3>2. \A l \in 0 .. p - 1 : l \in 0 .. n - 1
      BY <1>1
    <3>3. /\ recordAt(q, b, p).index = x /\ recordAt(q, b, p).entry = v
          /\ \A l \in 0 .. p - 1 : recordAt(q, b, l).index # x
      BY <1>3, <2>1, <3>2
    <3> QED BY <3>1, <3>3 DEF Held, R, b, m
  <2>3. CASE ~(p < m)
    <3> DEFINE k0 == (n - 1) - p
    <3>1. k0 \in 0 .. (n - m) - 1 /\ (n - 1) - k0 = p
      BY <1>1, <2>3
    <3>2. k0 \in undone(to.alignTail) /\ record(k0).index = x
      BY <1>1, <2>1, <3>1
    <3>3. PICK k \in undone(to.alignTail) :
            /\ record(k).index = x /\ R[x] = record(k).entry
            /\ \A l \in undone(to.alignTail) : record(l).index = x => l <= k
      BY <1>2, <3>2 DEF Rewinds
    <3> DEFINE p2 == (n - 1) - k
    <3>4. /\ k \in 0 .. (n - m) - 1 /\ record(k) = at(p2) /\ k0 <= k
      BY <1>1, <3>2, <3>3
    <3>5. p2 \in 0 .. p
      <4> HIDE DEF at, k0
      <4> QED BY <1>1, <3>1, <3>4
    <3>6. p2 = p
      <4>1. at(p2).index = x
        BY <3>3, <3>4
      <4> HIDE DEF p2
      <4>2. ~(p2 \in 0 .. p - 1)
        BY <2>1, <4>1
      <4> QED BY <3>5, <4>2
    <3>7. R[x] = v
      BY <2>1, <3>3, <3>4, <3>6
    <3>8. \A l \in 0 .. m - 1 : l \in 0 .. p - 1 /\ l \in 0 .. n - 1
      BY <1>1, <2>3
    <3>9. \A l \in 0 .. m - 1 : recordAt(q, b, l).index # x
      BY <1>3, <2>1, <3>8
    <3> QED BY <3>7, <3>9 DEF Held, R, b, m
  <2> QED BY <2>2, <2>3
<1>9. \/ (\A k \in 0 .. n - 1 : at(k).index # x) /\ v = RAS[x]
      \/ \E p \in 0 .. n - 1 :
           /\ at(p).index = x /\ at(p).entry = v
           /\ \A l \in 0 .. p - 1 : at(l).index # x
  BY <1>5 DEF Held
<1> QED BY <1>7, <1>8, <1>9

-----------------------------------------------------------------------------
(* What a cycle does to the points of the stream.                          *)

(* The points after the cycle.                                             *)
pointNext(i) ==
    IF i \in DOMAIN liveEntries'
      THEN LET c == bpCkpt'[liveEntries'[i].ckptId]
           IN  [tail |-> c.alignTail, top |-> c.RAS_top]
      ELSE [tail |-> alignTail', top |-> RAS_top']

(* A squash takes the machine back to the point of its target; otherwise   *)
(* the points stay, and an event makes a new last one.                     *)
PointsMoved(squash, fetch, d, n) ==
    LET e == rasEvent(scanJump)
        last == Len(liveEntries')
    IN  /\ d \in {0, 1} /\ n \in Nat /\ n + d <= Len(liveEntries)
        /\ Len(liveEntries) \in Nat
        /\ last = n + (IF fetch.valid THEN 1 ELSE 0)
        /\ alignQueue' = e.queue
        /\ \A j \in 1 .. n : pointNext(j) = pointAt(j + d)
        /\ squash.needSquash =>
             /\ n > 0 /\ ~fetch.valid
             /\ pointNext(last + 1) = pointAt(n + d)
             /\ RAS' = rewound(e.ras, pointAt(n + d).tail)
        /\ ~squash.needSquash =>
             /\ n + d = Len(liveEntries)
             /\ fetch.valid => pointNext(n + 1) = pointAt(n + 1 + d)
             /\ pointNext(last + 1) = [tail |-> e.tail, top |-> e.top]
             /\ RAS' = e.ras
        /\ pointNext(last + 1).tail = alignTail'

(* Who it is now has been there before, or is the fetch; whoever is not    *)
(* spoiled was not, and the event does not spoil it.                       *)
EntriesMoved(squash, fetch, d, n) ==
    \A i \in 1 .. Len(liveEntries') :
      LET y == liveEntries'[i]
      IN  /\ y.ckptId \notin spoiled' => ~spoils(bpCkpt'[y.ckptId], scanJump, squash)
          /\ i \in 1 .. n =>
               LET x == liveEntries[i + d]
               IN  /\ y.stack = x.stack
                   /\ bpCkpt'[y.ckptId] = bpCkpt[x.ckptId]
                   /\ y.ckptId \notin spoiled' => x.ckptId \notin spoiled
          /\ i \notin 1 .. n =>
               /\ fetch.valid /\ i = n + 1
               /\ y.stack = stackOf(RAS, RAS_top)
               /\ bpCkpt'[y.ckptId] = snapshotCheckPoint

(* Points are typed, and the last one is now.                              *)
LEMMA PointFacts ==
    ASSUME PredictorTypes, QueueTypes
    PROVE  /\ Len(liveEntries) \in Nat
           /\ DOMAIN liveEntries = 1 .. Len(liveEntries)
           /\ \A i \in DOMAIN liveEntries :
                /\ bpCkpt[liveEntries[i].ckptId] \in Checkpoint
                /\ liveEntries[i].stack \in Seq(RasEntry)
                /\ pointAt(i).tail = bpCkpt[liveEntries[i].ckptId].alignTail
                /\ pointAt(i).top = bpCkpt[liveEntries[i].ckptId].RAS_top
           /\ \A i : pointAt(i).tail \in Counters /\ pointAt(i).top \in Counters
           /\ pointAt(Len(liveEntries) + 1) = [tail |-> alignTail, top |-> RAS_top]
<1> DEFINE s == liveEntries
<1>1. /\ Len(s) \in Nat /\ DOMAIN s = 1 .. Len(s)
      /\ \A i \in DOMAIN s : s[i] \in Entry
  BY QueueFacts
<1> HIDE DEF s
<1>2. \A i \in DOMAIN s :
        bpCkpt[s[i].ckptId] \in Checkpoint /\ s[i].stack \in Seq(RasEntry)
  BY <1>1 DEF Entry, PredictorTypes
<1>3. \A i \in DOMAIN s : pointAt(i) = [tail |-> bpCkpt[s[i].ckptId].alignTail,
                                       top |-> bpCkpt[s[i].ckptId].RAS_top]
  BY DEF pointAt, s
<1>4. \A i : i \notin DOMAIN s => pointAt(i) = [tail |-> alignTail, top |-> RAS_top]
  BY DEF pointAt, s
<1>5. \A i : pointAt(i).tail \in Counters /\ pointAt(i).top \in Counters
  <2> TAKE i
  <2>1. CASE i \in DOMAIN s
    BY <1>2, <1>3, <2>1 DEF Checkpoint
  <2>2. CASE i \notin DOMAIN s
    BY <1>4, <2>2 DEF PredictorTypes
  <2> QED BY <2>1, <2>2
<1>6. Len(s) + 1 \notin DOMAIN s
  BY <1>1
<1> QED BY <1>1, <1>2, <1>3, <1>4, <1>5, <1>6 DEF s

(* The checkpoints and stacks of the instructions that stay (BPU::tick).   *)
LEMMA EntriesMove ==
    ASSUME PredictorTypes, QueueTypes, FetchTypes, IdsConsecutive,
           NEW squash, NEW issue, NEW commit, NEW fetch,
           StepOf(squash, issue, commit, fetch),
           NEW d, NEW n, Moved(squash, fetch, d, n)
    PROVE  EntriesMoved(squash, fetch, d, n)
<1> DEFINE s == liveEntries
           t == liveEntries'
<1>1. /\ d \in {0, 1} /\ n \in Nat /\ n + d <= Len(s) /\ Len(s) \in Nat
      /\ DOMAIN s = 1 .. Len(s)
      /\ DOMAIN t = 1 .. Len(t)
      /\ Len(t) = n + (IF fetch.valid THEN 1 ELSE 0)
      /\ \A i \in 1 .. n : t[i].ckptId = s[i + d].ckptId /\ t[i].stack = s[i + d].stack
      /\ fetch.valid => t[n + 1].ckptId = nextCkptId
                          /\ t[n + 1].stack = stackOf(RAS, RAS_top)
  <2>1. fetch.valid => entered(fetch).ckptId = nextCkptId
                         /\ entered(fetch).stack = stackOf(RAS, RAS_top)
    <3>1. fetch.valid => /\ fetch.entry \in Entry
                         /\ fetch.entry.ckptId = nextCkptId
                         /\ fetch.entry.stack = stackOf(RAS, RAS_top)
      BY FetchFacts DEF StepOf
    <3> QED BY <3>1 DEF entered, Entry
  <2>2. t \in Seq(Entry) => DOMAIN t = 1 .. Len(t)
    BY LenProperties
  <2>3. DOMAIN s = 1 .. Len(s) /\ Len(s) \in Nat
    BY QueueFacts
  <2> QED BY <2>1, <2>2, <2>3 DEF Moved, Same
<1>2. /\ bpCkpt' = IF fetch.valid
                     THEN [bpCkpt EXCEPT ![nextCkptId] = snapshotCheckPoint]
                     ELSE bpCkpt
      /\ bpCkpt \in [CkptIds -> Checkpoint] /\ nextCkptId \in CkptIds
  BY DEF StepOf, Cycle, BPUtick, PredictorTypes
<1>3. \A i \in DOMAIN s : fetch.valid => s[i].ckptId # nextCkptId
  <2>1. fetch.valid => ~isRequestFull
    BY FetchFacts DEF StepOf
  <2> QED BY <2>1, IdsDistinct
<1>4. \A i \in DOMAIN t : t[i].ckptId \in liveIds'
  BY DEF liveIds
<1>5. spoiled' = {c \in liveIds' :
                    \/ c \in spoiled /\ ~(fetch.valid /\ c = nextCkptId)
                    \/ spoils(bpCkpt'[c], scanJump, squash)}
  BY DEF StepOf, Cycle, Spoiled
<1>6. ASSUME NEW i \in 1 .. Len(t), t[i].ckptId \notin spoiled'
      PROVE  /\ ~spoils(bpCkpt'[t[i].ckptId], scanJump, squash)
             /\ t[i].ckptId \in spoiled => fetch.valid /\ t[i].ckptId = nextCkptId
  <2>1. t[i].ckptId \in liveIds'
    BY <1>1, <1>4
  <2> HIDE DEF t
  <2> QED BY <1>5, <1>6, <2>1
<1> HIDE DEF s, t
<1>7. ASSUME NEW i \in 1 .. n
      PROVE  /\ t[i].stack = s[i + d].stack
             /\ bpCkpt'[t[i].ckptId] = bpCkpt[s[i + d].ckptId]
             /\ fetch.valid => t[i].ckptId # nextCkptId
             /\ t[i].ckptId = s[i + d].ckptId
  <2>1. i + d \in DOMAIN s
    BY <1>1
  <2> QED BY <1>1, <1>2, <1>3, <2>1
<1>8. ASSUME NEW i \in 1 .. Len(t), i \notin 1 .. n
      PROVE  /\ fetch.valid /\ i = n + 1
             /\ t[i].stack = stackOf(RAS, RAS_top)
             /\ bpCkpt'[t[i].ckptId] = snapshotCheckPoint
  <2>1. fetch.valid /\ i = n + 1
    BY <1>1, <1>8
  <2> QED BY <1>1, <1>2, <2>1
<1> QED BY <1>6, <1>7, <1>8 DEF EntriesMoved, s, t

(* The points (BPU::tick).                                                 *)
LEMMA PointsMove ==
    ASSUME PredictorTypes, QueueTypes, FetchTypes, IdsConsecutive,
           NEW squash, NEW issue, NEW commit, NEW fetch,
           StepOf(squash, issue, commit, fetch),
           NEW d, NEW n, Moved(squash, fetch, d, n)
    PROVE  PointsMoved(squash, fetch, d, n)
<1> DEFINE s == liveEntries
           t == liveEntries'
           e == rasEvent(scanJump)
           to == bpCkpt[squash.CkptId]
           last == Len(t)
<1>1. DOMAIN s = 1 .. Len(s) /\ DOMAIN t = 1 .. last
  <2>1. t \in Seq(Entry) => DOMAIN t = 1 .. Len(t)
    BY LenProperties
  <2> QED BY <2>1, QueueFacts DEF Moved
<1>2. /\ d \in {0, 1} /\ n \in Nat /\ n + d <= Len(s) /\ Len(s) \in Nat
      /\ last = n + (IF fetch.valid THEN 1 ELSE 0)
      /\ squash.needSquash => n > 0 /\ ~fetch.valid
                                /\ squash.CkptId = s[n + d].ckptId
      /\ ~squash.needSquash => n + d = Len(s)
  BY QueueFacts DEF Moved
<1>3. EntriesMoved(squash, fetch, d, n)
  BY EntriesMove
<1>4. /\ alignQueue' = e.queue
      /\ squash.needSquash =>
           /\ RAS' = rewound(e.ras, to.alignTail)
           /\ RAS_top' = to.RAS_top /\ alignTail' = to.alignTail
      /\ ~squash.needSquash => RAS' = e.ras /\ RAS_top' = e.top /\ alignTail' = e.tail
  BY DEF StepOf, Cycle, BPUtick
<1>5. \A i : pointAt(i) =
               IF i \in DOMAIN s THEN [tail |-> bpCkpt[s[i].ckptId].alignTail,
                                      top |-> bpCkpt[s[i].ckptId].RAS_top]
               ELSE [tail |-> alignTail, top |-> RAS_top]
  BY DEF pointAt
<1>6. \A i : pointNext(i) =
               IF i \in DOMAIN t THEN [tail |-> bpCkpt'[t[i].ckptId].alignTail,
                                      top |-> bpCkpt'[t[i].ckptId].RAS_top]
               ELSE [tail |-> alignTail', top |-> RAS_top']
  BY DEF pointNext
<1> HIDE DEF s, t, e, to, last
<1>7. ASSUME NEW j \in 1 .. n PROVE pointNext(j) = pointAt(j + d)
  <2>1. j \in 1 .. last /\ j + d \in 1 .. Len(s)
    BY <1>2
  <2>2. j \in DOMAIN t /\ j + d \in DOMAIN s
    BY <1>1, <2>1
  <2>3. bpCkpt'[t[j].ckptId] = bpCkpt[s[j + d].ckptId]
    BY <1>3, <2>1 DEF EntriesMoved, s, t, last
  <2> QED BY <1>5, <1>6, <2>2, <2>3
<1>8. pointNext(last + 1) = [tail |-> alignTail', top |-> RAS_top']
  <2>1. last \in Nat
    BY <1>2
  <2>2. last + 1 \notin 1 .. last
    BY <2>1
  <2> QED BY <1>1, <1>6, <2>2
<1>9. ASSUME squash.needSquash
      PROVE  /\ pointNext(last + 1) = pointAt(n + d)
             /\ RAS' = rewound(e.ras, pointAt(n + d).tail)
  <2>1. n + d \in 1 .. Len(s)
    BY <1>2, <1>9
  <2>2. n + d \in DOMAIN s
    BY <1>1, <2>1
  <2>3. pointAt(n + d) = [tail |-> to.alignTail, top |-> to.RAS_top]
    BY <1>2, <1>5, <1>9, <2>2 DEF to
  <2> QED BY <1>4, <1>8, <1>9, <2>3
<1>10. ASSUME fetch.valid, ~squash.needSquash
      PROVE  pointNext(n + 1) = pointAt(n + 1 + d)
  <2>1. /\ n \in Nat /\ last = n + 1 /\ n + 1 + d = Len(s) + 1 /\ Len(s) \in Nat
    BY <1>2, <1>10
  <2>2. n + 1 \in 1 .. last /\ n + 1 \notin 1 .. n /\ Len(s) + 1 \notin 1 .. Len(s)
    BY <2>1
  <2>3. n + 1 \in DOMAIN t /\ n + 1 \in 1 .. last /\ n + 1 \notin 1 .. n
        /\ n + 1 + d \notin DOMAIN s
    BY <1>1, <2>1, <2>2
  <2>4. bpCkpt'[t[n + 1].ckptId] = snapshotCheckPoint
    BY <1>3, <2>3 DEF EntriesMoved, t, last
  <2> QED BY <1>5, <1>6, <2>3, <2>4 DEF snapshotCheckPoint
<1>11. ASSUME ~squash.needSquash
       PROVE  pointNext(last + 1) = [tail |-> e.tail, top |-> e.top] /\ RAS' = e.ras
  BY <1>4, <1>8, <1>11
<1>12. pointNext(last + 1).tail = alignTail'
  BY <1>8
<1> QED BY <1>2, <1>4, <1>7, <1>9, <1>10, <1>11, <1>12 DEF PointsMoved, s, t, e, last

(* What is kept of checkpoint c, the stack seen there and the points from  *)
(* the i-th on, is kept by a cycle that does not spoil c.                  *)
LEMMA WayKept ==
    ASSUME PredictorTypes, QueueTypes, FetchTypes,
           NEW squash, NEW fetch, NEW d, NEW n, PointsMoved(squash, fetch, d, n),
           NEW i \in 1 .. Len(liveEntries'),
           NEW c \in Checkpoint, ~spoils(c, scanJump, squash),
           NEW stack \in Seq(RasEntry), Len(stack) = sight(c.RAS_top),
           \A k \in 1 .. sight(c.RAS_top) :
             Held(RAS, alignQueue, c.alignTail, since(c.alignTail, alignTail),
                  below(c.RAS_top, k), stack[k]),
           \A j \in i + d .. Len(liveEntries) + 1 :
             WayBack(alignQueue, c, pointAt(j).tail, pointAt(j).top),
           \A j, k \in i + d .. Len(liveEntries) + 1 :
             j <= k => since(c.alignTail, pointAt(j).tail)
                         <= since(c.alignTail, pointAt(k).tail)
    PROVE  /\ \A k \in 1 .. sight(c.RAS_top) :
                Held(RAS', alignQueue', c.alignTail, since(c.alignTail, alignTail'),
                     below(c.RAS_top, k), stack[k])
           /\ \A j \in i .. Len(liveEntries') + 1 :
                WayBack(alignQueue', c, pointNext(j).tail, pointNext(j).top)
           /\ \A j, k \in i .. Len(liveEntries') + 1 :
                j <= k => since(c.alignTail, pointNext(j).tail)
                            <= since(c.alignTail, pointNext(k).tail)
<1> DEFINE e == rasEvent(scanJump)
           b == c.alignTail
           L == Len(liveEntries)
           last == Len(liveEntries')
           N == since(b, alignTail)
           far(j) == since(b, pointAt(j).tail)
           far2(j) == since(b, pointNext(j).tail)
           S == sight(c.RAS_top)
           x(k) == below(c.RAS_top, k)
<1>1. /\ d \in {0, 1} /\ n \in Nat /\ n + d <= L /\ L \in Nat
      /\ last = n + (IF fetch.valid THEN 1 ELSE 0)
      /\ i \in 1 .. last
      /\ squash.needSquash => n > 0 /\ ~fetch.valid
      /\ ~squash.needSquash => n + d = L
  BY DEF PointsMoved
<1>2. /\ alignQueue' = e.queue
      /\ \A j \in 1 .. n : pointNext(j) = pointAt(j + d)
      /\ squash.needSquash => /\ pointNext(last + 1) = pointAt(n + d)
                              /\ RAS' = rewound(e.ras, pointAt(n + d).tail)
      /\ ~squash.needSquash =>
           /\ fetch.valid => pointNext(n + 1) = pointAt(n + 1 + d)
           /\ pointNext(last + 1) = [tail |-> e.tail, top |-> e.top]
           /\ RAS' = e.ras
      /\ pointNext(last + 1).tail = alignTail'
  BY DEF PointsMoved
<1>3. /\ \A j : far(j) \in Nat /\ far(L + 1) = N
      /\ b \in Counters
      /\ pointAt(L + 1) = [tail |-> alignTail, top |-> RAS_top]
  <2>1. b \in Counters
    BY CheckpointFacts
  <2>2. /\ \A j : pointAt(j).tail \in Counters
        /\ pointAt(L + 1) = [tail |-> alignTail, top |-> RAS_top]
    BY PointFacts
  <2>3. \A j : far(j) \in Nat
    BY <2>1, <2>2, SinceFacts
  <2> QED BY <2>1, <2>2, <2>3
<1>4. /\ i + d \in Nat /\ i + d <= L + 1 /\ L + 1 \in i + d .. L + 1
  BY <1>1
<1>5. /\ \A j \in i + d .. L + 1 : WayBack(alignQueue, c, pointAt(j).tail, pointAt(j).top)
      /\ \A j \in i + d .. L + 1 : far(j) <= N
      /\ \A j, k \in i + d .. L + 1 : j <= k => far(j) <= far(k)
      /\ WayBack(alignQueue, c, alignTail, RAS_top)
      /\ N \in Nat
  <2>1. /\ \A j \in i + d .. L + 1 : WayBack(alignQueue, c, pointAt(j).tail, pointAt(j).top)
        /\ \A j, k \in i + d .. L + 1 : j <= k => far(j) <= far(k)
    OBVIOUS
  <2>2. \A j \in i + d .. L + 1 : j <= L + 1
    OBVIOUS
  <2>3. \A j \in i + d .. L + 1 : far(j) <= far(L + 1)
    BY <1>4, <2>1, <2>2
  <2>4. WayBack(alignQueue, c, pointAt(L + 1).tail, pointAt(L + 1).top)
    BY <1>4, <2>1
  <2> QED BY <1>3, <2>1, <2>3, <2>4
<1>6. /\ Keeps(e, c)
      /\ squash.needSquash =>
           \A k \in 1 .. S :
             \/ \E l \in 0 .. N - 1 : recordAt(alignQueue, b, l).index = x(k)
             \/ e.ras[x(k)] = RAS[x(k)]
  BY <1>5, EventKeeps
<1>7. /\ Agree(e.queue, alignQueue, b, N)
      /\ N <= since(b, e.tail) /\ since(b, e.tail) \in Nat
      /\ WayBack(e.queue, c, e.tail, e.top)
  <2>1. e.tail \in Counters
    BY EventTypes
  <2> QED BY <1>3, <1>6, <2>1, SinceFacts DEF Keeps
<1>8. N <= AlignCap
  BY <1>5 DEF WayBack
<1>9. \A k \in 1 .. S : /\ Held(RAS, alignQueue, b, N, x(k), stack[k])
                        /\ stack[k] \in RasEntry
                        /\ x(k) \in 0 .. RasCap - 1
  <2> TAKE k \in 1 .. S
  <2>1. stack[k] \in RasEntry
    BY ElementOfSeq
  <2>2. c.RAS_top - k \in Int
    BY CheckpointFacts
  <2> QED BY <2>1, <2>2, WrapFacts DEF below
<1>10. \A j \in i + d .. L + 1 : WayBack(e.queue, c, pointAt(j).tail, pointAt(j).top)
  <2> TAKE j \in i + d .. L + 1
  <2> DEFINE tail == pointAt(j).tail
             top == pointAt(j).top
  <2>1. since(b, tail) \in Nat /\ since(b, tail) <= N /\ WayBack(alignQueue, c, tail, top)
    BY <1>3, <1>5
  <2> HIDE DEF tail, top, N, e
  <2>2. WayBack(e.queue, c, tail, top)
    BY <1>5, <1>7, <2>1, WayBackAgrees
  <2> QED BY <2>2 DEF tail, top
<1> HIDE DEF e, N, L, last
<1>11. CASE squash.needSquash
  <2> DEFINE o(j) == IF j <= n THEN j + d ELSE n + d
  <2>1. last = n /\ i <= n /\ n \in Nat /\ n + d \in i + d .. L + 1 /\ i \in Nat
    BY <1>1, <1>11
  <2>2. \A j \in i .. last + 1 : j = last + 1 \/ j \in 1 .. n
    BY <2>1
  <2>3. \A j \in i .. last + 1 : o(j) \in i + d .. L + 1 /\ pointNext(j) = pointAt(o(j))
    <3> TAKE j \in i .. last + 1
    <3>1. CASE j \in 1 .. n
      <4>1. o(j) = j + d /\ j + d \in i + d .. L + 1
        BY <1>1, <2>1, <3>1
      <4> QED BY <1>2, <3>1, <4>1
    <3>2. CASE j = last + 1
      <4>1. o(j) = n + d
        BY <2>1, <3>2
      <4> QED BY <1>2, <1>11, <2>1, <3>2, <4>1
    <3> QED BY <2>2, <3>1, <3>2
  <2>4. \A j, k \in i .. last + 1 : j <= k => o(j) <= o(k)
    BY <1>1, <2>1
  <2> HIDE DEF o
  <2>5. \A j \in i .. last + 1 :
          WayBack(alignQueue', c, pointNext(j).tail, pointNext(j).top)
    BY <1>2, <1>10, <2>3
  <2>6. \A j, k \in i .. last + 1 : j <= k => far2(j) <= far2(k)
    BY <1>5, <2>3, <2>4
  <2>7. ASSUME NEW k \in 1 .. S
        PROVE  Held(RAS', alignQueue', b, since(b, alignTail'), x(k), stack[k])
    <3> DEFINE to == bpCkpt[liveEntries[n + d].ckptId]
               y == x(k)
               v == stack[k]
               ras == e.ras
               q == e.queue
    <3>1. /\ to \in Checkpoint /\ pointAt(n + d).tail = to.alignTail
      <4>1. n + d \in 1 .. L
        BY <1>1, <1>11
      <4> QED BY <4>1, PointFacts DEF L
    <3>2. alignTail' = to.alignTail /\ RAS' = rewound(ras, to.alignTail)
          /\ alignQueue' = q
      BY <1>2, <1>11, <3>1
    <3>3. since(b, to.alignTail) <= N
      BY <1>5, <2>1, <3>1
    <3>4. y \in DOMAIN ras
      <4>1. ras \in [0 .. RasCap - 1 -> RasEntry]
        BY EventTypes DEF e
      <4> QED BY <1>9, <4>1
    <3>5. /\ Held(RAS, alignQueue, b, N, y, v)
          /\ \/ \E l \in 0 .. N - 1 : recordAt(alignQueue, b, l).index = y
             \/ ras[y] = RAS[y]
      BY <1>6, <1>9, <1>11
    <3>6. Agree(q, alignQueue, b, N)
      BY <1>7
    <3> HIDE DEF to, y, v, ras, q
    <3>7. Held(rewound(ras, to.alignTail), q, b, since(b, to.alignTail), y, v)
      BY <1>8, <3>1, <3>3, <3>4, <3>5, <3>6, SquashKeeps DEF N
    <3> QED BY <3>2, <3>7 DEF y, v
  <2> QED BY <2>5, <2>6, <2>7 DEF last
<1>12. CASE ~squash.needSquash
  <2>1. \A j \in i .. last + 1 : j = last + 1 \/ j \in i .. last
    BY <1>1
  <2>2. \A j \in i .. last : pointNext(j) = pointAt(j + d) /\ j + d \in i + d .. L + 1
    <3> TAKE j \in i .. last
    <3>1. j + d \in i + d .. L + 1
      BY <1>1, <1>12
    <3>2. j \in 1 .. n \/ (fetch.valid /\ j = n + 1)
      BY <1>1
    <3> QED BY <1>2, <1>12, <3>1, <3>2
  <2>3. far2(last + 1) = since(b, e.tail) /\ alignTail' = e.tail
    BY <1>2, <1>12
  <2>4. \A j \in i .. last + 1 :
          WayBack(alignQueue', c, pointNext(j).tail, pointNext(j).top)
    BY <1>2, <1>7, <1>10, <1>12, <2>1, <2>2
  <2>5. ASSUME NEW j \in i .. last + 1, NEW k \in i .. last + 1, j <= k
        PROVE  far2(j) <= far2(k)
    <3>1. CASE k = last + 1 /\ j = last + 1
      BY <1>7, <2>3, <3>1
    <3>2. CASE k = last + 1 /\ j \in i .. last
      <4>1. far2(j) \in Nat /\ far2(j) <= N
        BY <1>3, <1>5, <2>2, <3>2
      <4>2. far2(k) \in Nat /\ N <= far2(k)
        BY <1>7, <2>3, <3>2
      <4> HIDE DEF far2
      <4> QED BY <1>5, <4>1, <4>2
    <3>3. CASE k \in i .. last
      <4>1. j \in i .. last /\ j + d <= k + d
        BY <1>1, <2>5, <3>3
      <4> QED BY <1>5, <2>2, <3>3, <4>1
    <3> QED BY <2>1, <3>1, <3>2, <3>3
  <2>6. \A k \in 1 .. S : Held(RAS', alignQueue', b, since(b, alignTail'), x(k), stack[k])
    <3> TAKE k \in 1 .. S
    <3>1. Held(e.ras, e.queue, b, since(b, e.tail), x(k), stack[k])
      BY <1>6, <1>9 DEF Keeps, N
    <3> QED BY <1>2, <1>12, <2>3, <3>1
  <2> QED BY <2>4, <2>5, <2>6 DEF last
<1> QED BY <1>11, <1>12

(* A cycle keeps it.                                                       *)
LEMMA StackStep ==
    ASSUME PredictorTypes, QueueTypes, FetchTypes, IdsConsecutive, StackInv,
           NEW squash, NEW issue, NEW commit, NEW fetch,
           StepOf(squash, issue, commit, fetch)
    PROVE  StackInv'
<1> DEFINE s == liveEntries
           t == liveEntries'
           L == Len(s)
           last == Len(t)
<1>1. PICK d, n : Moved(squash, fetch, d, n)
  BY Moves
<1>2. EntriesMoved(squash, fetch, d, n) /\ PointsMoved(squash, fetch, d, n)
  BY <1>1, EntriesMove, PointsMove
<1>3. DOMAIN t = 1 .. last
  BY <1>1, LenProperties DEF Moved
<1>4. /\ d \in {0, 1} /\ n \in Nat /\ L \in Nat /\ n + d <= L
      /\ ~squash.needSquash => n + d = L
      /\ fetch.valid => ~squash.needSquash
  BY <1>2 DEF PointsMoved
<1>5. ASSUME NEW i \in 1 .. last, t[i].ckptId \notin spoiled'
      PROVE  StackKept(i)' /\ PointsOrdered(i)'
  <2> DEFINE y == t[i]
             c == bpCkpt'[y.ckptId]
             stack == y.stack
  <2>1. ~spoils(c, scanJump, squash)
    BY <1>2, <1>5 DEF EntriesMoved
  <2>2. /\ c \in Checkpoint /\ stack \in Seq(RasEntry)
        /\ Len(stack) = sight(c.RAS_top)
        /\ \A k \in 1 .. sight(c.RAS_top) :
             Held(RAS, alignQueue, c.alignTail, since(c.alignTail, alignTail),
                  below(c.RAS_top, k), stack[k])
        /\ \A j \in i + d .. L + 1 :
             WayBack(alignQueue, c, pointAt(j).tail, pointAt(j).top)
        /\ \A j, k \in i + d .. L + 1 :
             j <= k => since(c.alignTail, pointAt(j).tail)
                         <= since(c.alignTail, pointAt(k).tail)
    <3>1. CASE i \in 1 .. n
      <4> DEFINE x == s[i + d]
      <4>1. /\ stack = x.stack /\ c = bpCkpt[x.ckptId] /\ x.ckptId \notin spoiled
        BY <1>2, <1>5, <3>1 DEF EntriesMoved
      <4>2. i + d \in DOMAIN s
        <5>1. i + d \in 1 .. L
          BY <1>4, <3>1
        <5> QED BY <5>1, PointFacts
      <4>3. StackKept(i + d) /\ PointsOrdered(i + d)
        BY <4>1, <4>2 DEF StackInv
      <4>4. bpCkpt[x.ckptId] \in Checkpoint /\ x.stack \in Seq(RasEntry)
        BY <4>2, PointFacts
      <4> QED BY <4>1, <4>3, <4>4 DEF StackKept, PointsOrdered
    <3>2. CASE i \notin 1 .. n
      <4>1. /\ fetch.valid /\ i = n + 1
            /\ stack = stackOf(RAS, RAS_top) /\ c = snapshotCheckPoint
        BY <1>2, <3>2 DEF EntriesMoved
      <4>2. /\ c \in Checkpoint /\ c.alignTail = alignTail /\ c.RAS_top = RAS_top
        BY <4>1 DEF snapshotCheckPoint, Checkpoint, PredictorTypes
      <4>3. /\ RAS \in [0 .. RasCap - 1 -> RasEntry] /\ RAS_top \in Counters
            /\ alignTail \in Counters
        BY DEF PredictorTypes
      <4>4. since(alignTail, alignTail) = 0 /\ since(RAS_top, RAS_top) = 0
        <5>1. \A a \in Counters : since(a, a) = 0
          BY SinceFacts
        <5> QED BY <4>3, <5>1
      <4>5. /\ stack \in Seq(RasEntry) /\ Len(stack) = sight(c.RAS_top)
            /\ \A k \in 1 .. sight(c.RAS_top) :
                 stack[k] = RAS[below(c.RAS_top, k)]
        <5> DEFINE p == stackOf(RAS, RAS_top)
        <5>1. /\ p \in Seq(RasEntry) /\ Len(p) = sight(RAS_top)
              /\ \A k \in 1 .. sight(RAS_top) : p[k] = RAS[below(RAS_top, k)]
          BY <4>3, StackFacts DEF below
        <5>2. stack = p
          BY <4>1
        <5> HIDE DEF p, stack, c
        <5> QED BY <4>2, <5>1, <5>2
      <4>6. \A k \in 1 .. sight(c.RAS_top) :
              Held(RAS, alignQueue, c.alignTail, since(c.alignTail, alignTail),
                   below(c.RAS_top, k), stack[k])
        BY <4>2, <4>4, <4>5 DEF Held
      <4>7. i + d = L + 1 /\ \A j \in i + d .. L + 1 : j = L + 1
        BY <1>4, <4>1
      <4>8. pointAt(L + 1) = [tail |-> alignTail, top |-> RAS_top]
        BY PointFacts
      <4>9. WayBack(alignQueue, c, alignTail, RAS_top)
        BY <4>2, <4>4, SizeFacts DEF WayBack
      <4>10. \A j \in i + d .. L + 1 :
               WayBack(alignQueue, c, pointAt(j).tail, pointAt(j).top)
        BY <4>7, <4>8, <4>9
      <4>11. \A j, k \in i + d .. L + 1 :
               since(c.alignTail, pointAt(j).tail) <= since(c.alignTail, pointAt(k).tail)
        BY <4>2, <4>4, <4>7, <4>8
      <4> QED BY <4>2, <4>5, <4>6, <4>10, <4>11
    <3> QED BY <3>1, <3>2
  <2>3. PICK c0, stack0 : c0 = c /\ stack0 = stack
    OBVIOUS
  <2> HIDE DEF c, stack
  <2>4. /\ \A k \in 1 .. sight(c0.RAS_top) :
             Held(RAS', alignQueue', c0.alignTail, since(c0.alignTail, alignTail'),
                  below(c0.RAS_top, k), stack0[k])
        /\ \A j \in i .. last + 1 :
             WayBack(alignQueue', c0, pointNext(j).tail, pointNext(j).top)
        /\ \A j, k \in i .. last + 1 :
             j <= k => since(c0.alignTail, pointNext(j).tail)
                         <= since(c0.alignTail, pointNext(k).tail)
    BY <1>2, <2>1, <2>2, <2>3, WayKept
  <2>5. \A j : pointAt(j)' = pointNext(j)
    BY DEF pointAt, pointNext
  <2>6. StackKept(i)'
    BY <2>2, <2>3, <2>4 DEF StackKept, c, stack
  <2>7. PointsOrdered(i)'
    BY <2>3, <2>4, <2>5 DEF PointsOrdered, c
  <2> QED BY <2>6, <2>7
<1> QED BY <1>3, <1>5 DEF StackInv

-----------------------------------------------------------------------------
(* The return stack, in every run.                                         *)

(* The invariant of the front end with its return stack.                   *)
RewindInv == FlowInv /\ StackInv

(* It holds at first.                                                      *)
LEMMA RewindInit == Init => RewindInv
<1> SUFFICES ASSUME Init PROVE RewindInv
  OBVIOUS
<1>1. FlowInv
  BY FlowInit
<1>2. DOMAIN liveEntries = {}
  <2>1. requestBuffer = <<>> /\ fq = <<>> /\ iq = <<>> /\ rob = <<>>
    BY DEF Init, ICacheInit
  <2>2. Len(liveEntries) = 0
    <3>1. /\ Len(Front) = Len(rob) + Len(iq) + Len(fq)
          /\ Len(liveEntries) = Len(Front) + Len(requestBuffer)
      BY <1>1, QueueFacts DEF FlowInv
    <3>2. Len(<<>>) = 0
      BY EmptySeq
    <3> HIDE DEF Front, liveEntries
    <3> QED BY <2>1, <3>1, <3>2
  <2>3. DOMAIN liveEntries = 1 .. Len(liveEntries)
    BY <1>1, QueueFacts DEF FlowInv
  <2>4. 1 .. 0 = {}
    OBVIOUS
  <2> QED BY <2>2, <2>3, <2>4
<1> QED BY <1>1, <1>2 DEF RewindInv, StackInv

(* A cycle keeps it.                                                       *)
LEMMA RewindStep == RewindInv /\ [Next]_vars => RewindInv'
<1> SUFFICES ASSUME RewindInv, [Next]_vars PROVE RewindInv'
  OBVIOUS
<1>1. FlowInv' /\ FlowInv /\ StackInv
  BY FlowStep DEF RewindInv
<1>2. CASE UNCHANGED vars
  <2>1. /\ liveEntries' = liveEntries /\ bpCkpt' = bpCkpt /\ spoiled' = spoiled
        /\ RAS' = RAS /\ RAS_top' = RAS_top /\ alignQueue' = alignQueue
        /\ alignTail' = alignTail
    BY <1>2 DEF vars, bpuVars, icacheVars, fetchVars, liveEntries
  <2>2. \A j : pointAt(j)' = pointAt(j)
    BY <2>1 DEF pointAt
  <2>3. StackInv'
    BY <1>1, <2>1, <2>2 DEF StackInv, StackKept, PointsOrdered
  <2> QED BY <1>1, <2>3 DEF RewindInv
<1>3. CASE \E squash, issue, commit, fetch : StepOf(squash, issue, commit, fetch)
  <2>1. PICK squash, issue, commit, fetch : StepOf(squash, issue, commit, fetch)
    BY <1>3
  <2>2. StackInv'
    BY <1>1, <2>1, StackStep DEF FlowInv, StreamInv
  <2> QED BY <1>1, <2>2 DEF RewindInv
<1>4. Next => \/ UNCHANGED vars
              \/ \E squash, issue, commit, fetch : StepOf(squash, issue, commit, fetch)
  BY Zenon DEF Next, StepOf
<1> QED BY <1>2, <1>3, <1>4

(* The invariant gives back each stack.                                    *)
LEMMA RewindInvRewinds ==
    ASSUME RewindInv
    PROVE  RasRewound
<1>1. PredictorTypes /\ QueueTypes /\ FetchTypes /\ StackInv
  BY DEF RewindInv, FlowInv
<1> SUFFICES ASSUME NEW i \in DOMAIN liveEntries,
                    liveEntries[i].ckptId \notin spoiled
             PROVE  LET c == bpCkpt[liveEntries[i].ckptId]
                    IN  stackOf(rewound(RAS, c.alignTail), c.RAS_top)
                          = liveEntries[i].stack
  BY DEF RasRewound
<1> DEFINE c == bpCkpt[liveEntries[i].ckptId]
           stack == liveEntries[i].stack
           n == since(c.alignTail, alignTail)
           ras == rewound(RAS, c.alignTail)
<1>2. /\ c \in Checkpoint /\ stack \in Seq(RasEntry)
      /\ StackKept(i) /\ PointsOrdered(i)
      /\ Len(liveEntries) \in Nat /\ DOMAIN liveEntries = 1 .. Len(liveEntries)
      /\ pointAt(Len(liveEntries) + 1) = [tail |-> alignTail, top |-> RAS_top]
  BY <1>1, PointFacts DEF StackInv
<1>3. WayBack(alignQueue, c, alignTail, RAS_top)
  <2>1. Len(liveEntries) + 1 \in i .. Len(liveEntries) + 1
    BY <1>2
  <2> QED BY <1>2, <2>1 DEF PointsOrdered
<1>4. /\ n <= AlignCap /\ n \in Nat
      /\ since(c.alignTail, c.alignTail) = 0
      /\ c.alignTail \in Counters /\ c.RAS_top \in Counters
  <2>1. c.alignTail \in Counters /\ c.RAS_top \in Counters /\ alignTail \in Counters
    BY <1>1, <1>2, CheckpointFacts DEF PredictorTypes
  <2>2. \A a \in Counters : since(a, a) = 0
    BY SinceFacts
  <2> QED BY <1>3, <2>1, <2>2, SinceFacts DEF WayBack
<1>5. ras \in [0 .. RasCap - 1 -> RasEntry]
  BY <1>1, <1>4, RewoundType DEF PredictorTypes
<1>6. /\ Len(stack) = sight(c.RAS_top)
      /\ \A d \in 1 .. sight(c.RAS_top) :
           Held(RAS, alignQueue, c.alignTail, n, below(c.RAS_top, d), stack[d])
  BY <1>2 DEF StackKept
<1>7. Agree(alignQueue, alignQueue, c.alignTail, n)
  BY DEF Agree
<1> HIDE DEF ras, stack, c
<1>8. ASSUME NEW d \in 1 .. sight(c.RAS_top)
      PROVE  ras[below(c.RAS_top, d)] = stack[d]
  <2> DEFINE x == below(c.RAS_top, d)
             v == stack[d]
  <2>1. x \in DOMAIN RAS
    <3>1. c.RAS_top - d \in Int
      BY <1>2, CheckpointFacts
    <3>2. x \in 0 .. RasCap - 1
      BY <3>1, WrapFacts DEF below
    <3> QED BY <1>1, <3>2 DEF PredictorTypes
  <2>2. Held(RAS, alignQueue, c.alignTail, n, x, v)
    BY <1>6
  <2> HIDE DEF x, v
  <2>3. Held(ras, alignQueue, c.alignTail, since(c.alignTail, c.alignTail), x, v)
    <3>1. since(c.alignTail, c.alignTail) <= n
      BY <1>4
    <3>2. c \in Checkpoint /\ n <= AlignCap
      BY <1>2, <1>4
    <3> QED BY <1>1, <1>7, <2>1, <2>2, <3>1, <3>2, SquashKeeps DEF ras
  <2>4. v = ras[x]
    BY <1>4, <2>3 DEF Held
  <2> QED BY <2>4 DEF x, v
<1>9. /\ stackOf(ras, c.RAS_top) \in Seq(RasEntry)
      /\ Len(stackOf(ras, c.RAS_top)) = sight(c.RAS_top)
      /\ sight(c.RAS_top) \in 0 .. RasCap
      /\ \A d \in 1 .. sight(c.RAS_top) :
           stackOf(ras, c.RAS_top)[d] = ras[below(c.RAS_top, d)]
  BY <1>4, <1>5, StackFacts, ZenonT(30) DEF below
<1>10. stackOf(ras, c.RAS_top) = stack
  <2> DEFINE p == stackOf(ras, c.RAS_top)
             m == sight(c.RAS_top)
  <2>1. p \in Seq(RasEntry) /\ stack \in Seq(RasEntry) /\ Len(p) = m /\ Len(stack) = m
    BY <1>2, <1>6, <1>9
  <2>2. \A d \in 1 .. m : p[d] = stack[d]
    BY <1>8, <1>9
  <2> HIDE DEF p, m
  <2>3. p = stack
    BY <2>1, <2>2, SeqEqual
  <2> QED BY <2>3 DEF p
<1> QED BY <1>10 DEF ras, stack, c

(* Whatever instruction a squash goes back to, undoing the journal gives   *)
(* the return stack its fetch saw, unless it is recorded in spoiled that   *)
(* it cannot (BPU.cpp, the loop over alignQueue).                          *)
THEOREM StackRewinds == Spec => []RasRewound
<1>1. RewindInv => RasRewound
  BY RewindInvRewinds
<1> QED BY <1>1, RewindInit, RewindStep, PTL DEF Spec

=============================================================================
