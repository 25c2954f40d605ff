---------------------------- MODULE IssueArbiter ----------------------------
(***************************************************************************)
(* The issue arbiter (src/src/StaticArbiter/StaticArbiter.cpp): from the   *)
(* micro-operation at the head of the decode queue and the snapshots of    *)
(* the ROB, the RAT and the PRF it builds the issue packet, or no packet.  *)
(*                                                                         *)
(* A micro-operation is [kind, rd, rs1, rs2]: the kinds are the paths of   *)
(* IssueArbiter::build, register 0 stands for x0 and for a missing source. *)
(***************************************************************************)
EXTENDS PRF

Kinds == {"ALU", "MUL", "DIV", "LOAD", "STORE", "BRANCH", "LINK", "HALT",
          "INVALID"}

Uop == [kind : Kinds, rd : Regs, rs1 : Regs, rs2 : Regs]

NoUop == [kind |-> "INVALID", rd |-> 0, rs1 |-> 0, rs2 |-> 0]

(* The decoder's allocDest: the kinds that write a register, unless it is  *)
(* x0.                                                                     *)
allocates(u) ==
    u.rd # 0 /\ u.kind \in {"ALU", "MUL", "DIV", "LOAD", "LINK"}

(* Mutant: the ROB is not asked for a free entry.                          *)
canIssue_ignoresRob(u) == allocates(u) => ~isFreeListEmpty

(* The guards of the issue_* functions.  The halt marker and an invalid    *)
(* instruction pass none of them.  The free slots of the reservation       *)
(* stations and of the LQ and SQ are left to the choice of not issuing.    *)
canIssue(u) ==
    \/ u.kind \in {"HALT", "INVALID"}
    \/ ~isFull /\ (allocates(u) => ~isFreeListEmpty)

(* resolveSrc: a source register is read through the RAT, x0 is a constant.*)
resolveSrc(r) == IF r = 0 THEN {} ELSE {<<r, RAT_PRF[r]>>}

(* The ROB entry of each path.                                             *)
entryType(u) ==
    IF u.kind = "STORE" THEN "STORE"
    ELSE IF u.kind = "BRANCH" THEN "BRANCH"
    ELSE IF u.kind = "LINK" THEN "LINK"
    ELSE "REGISTER"

robEntryOf(u, ckpt) ==
    IF u.kind = "INVALID" THEN DefaultEntry
    ELSE [DefaultEntry EXCEPT
            !.type = entryType(u),
            !.isCommitReady = (u.kind = "HALT"),
            !.halt = (u.kind = "HALT"),
            !.dest = IF u.kind \in {"STORE", "BRANCH"} THEN 0 ELSE u.rd,
            !.ckptId = ckpt,
            !.newPhy = IF allocates(u) THEN freeListHead ELSE InvalidPhy,
            !.oldPhy = IF allocates(u) THEN RAT_PRF[u.rd] ELSE InvalidPhy]

IssuePacket(u, ckpt) ==
    [valid |-> TRUE,
     allocDest |-> allocates(u),
     phy |-> IF allocates(u) THEN freeListHead ELSE InvalidPhy,
     isControl |-> u.kind = "LINK",
     robEntry |-> robEntryOf(u, ckpt)]

NoPacket ==
    [valid |-> FALSE, allocDest |-> FALSE, phy |-> InvalidPhy,
     isControl |-> FALSE, robEntry |-> DefaultEntry]

(* The reservation-station entries an issued micro-operation fills: one,   *)
(* or an address and a value entry for a store.  An entry holds the tag,   *)
(* the unit it is dispatched to and its register sources.                  *)
stations(u) ==
    LET rs(unit, ops) == [tag |-> next_tag, unit |-> unit, ops |-> ops]
        both == resolveSrc(u.rs1) \cup resolveSrc(u.rs2)
    IN  IF u.kind = "STORE"
          THEN {rs("STADDR", resolveSrc(u.rs1)), rs("STVAL", resolveSrc(u.rs2))}
        ELSE IF u.kind = "LINK" THEN {rs("ALU", resolveSrc(u.rs1))}
        ELSE IF u.kind = "LOAD" THEN {rs("LOAD", resolveSrc(u.rs1))}
        ELSE IF u.kind \in {"HALT", "INVALID"} THEN {}
        ELSE {rs(u.kind, both)}

=============================================================================
