-------------------------------- MODULE RAT --------------------------------
(***************************************************************************)
(* The register alias table (src/src/RAT/RAT.cpp): the speculative map     *)
(* from architectural to physical registers and one checkpoint of it per   *)
(* checkpoint id, taken after the issuing instruction's own rename.        *)
(***************************************************************************)
EXTENDS ROB

VARIABLES
    RAT_PRF,    \* architectural register -> physical register
    ratCkpt     \* checkpoint id -> saved RAT_PRF

ratVars == <<RAT_PRF, ratCkpt>>

Regs == 0 .. RegCap - 1

Ckpts == 0 .. CkptCap - 1

(* P1 .. bind to x1 .. at reset, x0 is never renamed.  The checkpoint      *)
(* array has no initial value in the code; zeroes stand for it, and        *)
(* CheckpointsReplay shows that no entry is restored before it is written. *)
RATInit ==
    /\ RAT_PRF = [r \in Regs |-> r]
    /\ ratCkpt = [c \in Ckpts |-> [r \in Regs |-> InvalidPhy]]

(* The map after the issued instruction's own rename.                      *)
renamed(pkt) ==
    IF pkt.allocDest
      THEN [RAT_PRF EXCEPT ![pkt.robEntry.dest] = pkt.phy]
      ELSE RAT_PRF

(* Mutant: the checkpoint is taken before the instruction's own rename.    *)
RATtick_earlyCkpt(pkt, squash) ==
    /\ RAT_PRF' =
         IF pkt.valid THEN renamed(pkt)
         ELSE IF squash.needSquash THEN ratCkpt[squash.CkptId]
         ELSE RAT_PRF
    /\ ratCkpt' = IF pkt.valid
                    THEN [ratCkpt EXCEPT ![pkt.robEntry.ckptId] = RAT_PRF]
                    ELSE ratCkpt

(* RAT::tick.  No packet is valid in a squash cycle, so at most one of the *)
(* two writers of RAT_PRF acts.                                            *)
RATtick(pkt, squash) ==
    /\ RAT_PRF' =
         IF pkt.valid THEN renamed(pkt)
         ELSE IF squash.needSquash THEN ratCkpt[squash.CkptId]
         ELSE RAT_PRF
    /\ ratCkpt' = IF pkt.valid
                    THEN [ratCkpt EXCEPT ![pkt.robEntry.ckptId] = renamed(pkt)]
                    ELSE ratCkpt

=============================================================================
