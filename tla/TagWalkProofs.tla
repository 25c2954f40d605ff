--------------------------- MODULE TagWalkProofs ---------------------------
(***************************************************************************)
(* The packed ring algebra of common.hpp is right for every capacity: what *)
(* TagWalk.cfg checks for PRF_CAP = 48 holds for all Cap >= 2 and every    *)
(* index field wide enough for it.                                         *)
(***************************************************************************)
EXTENDS TagWalk, EpochRingLemmas

(* The inductive invariant: the walk is on allocated codes and the packed  *)
(* distance equals the number of steps taken (prfSeqNext against           *)
(* prfSeqDistance).                                                        *)
WalkInv == TypeOK /\ DistanceCountsSteps

(* Every walk stays on allocated codes and prfSeqDistance counts its       *)
(* prfSeqNext steps.                                                       *)
THEOREM DistanceTheorem == Spec => [](TypeOK /\ DistanceCountsSteps)
<1>1. Init => WalkInv
  BY RingAssumption
  DEF Init, WalkInv, TypeOK, DistanceCountsSteps, Codes, RingDistance,
      SlotOf, EpochOf
<1>2. WalkInv /\ [Next]_vars => WalkInv'
  <2> SUFFICES ASSUME WalkInv, [Next]_vars PROVE WalkInv'
    OBVIOUS
  <2>1. CASE Advance
    <3>1. TypeOK'
      BY <2>1, NextIsCode, RingAssumption DEF Advance, WalkInv, TypeOK
    <3>2. DistanceCountsSteps'
      BY <2>1, NextAddsOne, RingAssumption
      DEF Advance, WalkInv, TypeOK, DistanceCountsSteps
    <3> QED BY <3>1, <3>2 DEF WalkInv
  <2>2. CASE UNCHANGED vars
    BY <2>2 DEF vars, WalkInv, TypeOK, DistanceCountsSteps
  <2> QED BY <2>1, <2>2 DEF Next
<1> QED BY <1>1, <1>2, PTL DEF Spec, WalkInv

(* ROB::isOlder orders exactly the tags less than one capacity apart.      *)
THEOREM AgeWindowTheorem == Spec => []AgeWindow
<1>1. TypeOK /\ DistanceCountsSteps => AgeWindow
  BY OlderIsNear, RingAssumption DEF TypeOK, DistanceCountsSteps, AgeWindow
<1> QED BY <1>1, DistanceTheorem, PTL

=============================================================================
