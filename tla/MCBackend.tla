----------------------------- MODULE MCBackend -----------------------------
(***************************************************************************)
(* Instances of Backend for TLC: the instructions the program may present. *)
(***************************************************************************)
EXTENDS Backend

uop(k, d, s1, s2) == [kind |-> k, rd |-> d, rs1 |-> s1, rs2 |-> s2]

(* One renamed register, one instruction of every kind that follows its    *)
(* own path through the back end.                                          *)
MixedUops ==
    {uop("ALU", 1, 1, 0), uop("LOAD", 1, 1, 0), uop("STORE", 0, 1, 1),
     uop("BRANCH", 0, 1, 0), uop("LINK", 1, 0, 0), uop("HALT", 1, 0, 0)}

(* Two kinds that squash and one that waits for its source: enough for a   *)
(* ROB of three entries, where a squash can fall between two other         *)
(* instructions and two squashes can be raised in one cycle.               *)
SquashUops ==
    {uop("ALU", 1, 1, 0), uop("LINK", 1, 1, 0), uop("BRANCH", 0, 1, 0)}

(* A program that reaches the halt marker behind a slow instruction.       *)
HaltUops == {uop("ALU", 1, 1, 0), uop("HALT", 1, 0, 0)}

(* A program whose wrong path runs into words that are no instructions.    *)
WrongPathUops ==
    {uop("ALU", 1, 1, 0), uop("BRANCH", 0, 1, 0), uop("INVALID", 0, 0, 0)}

=============================================================================
