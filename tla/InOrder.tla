------------------------------- MODULE InOrder -------------------------------
(***************************************************************************)
(* What the processor promises to the program that runs on it: memory      *)
(* changes as if the instructions were executed one after the other.  The  *)
(* values loads return are left out; LSQ.tla states what they are and when *)
(* they are not.                                                           *)
(***************************************************************************)
EXTENDS Integers, Sequences

CONSTANTS
    Addrs,      \* data addresses
    Programs    \* the programs that may be run, as in LSQ.tla

VARIABLES
    program,    \* the program that is run
    at,         \* the instruction to execute next
    mem         \* the memory, per address the store that wrote it

inOrderVars == <<program, at, mem>>

here == program[at]

Init ==
    /\ program \in Programs
    /\ at = 1
    /\ mem = [a \in Addrs |-> -1 - a]

Load ==
    /\ here.kind = "LOAD"
    /\ at' = at + 1
    /\ UNCHANGED mem

Store ==
    /\ here.kind = "STORE"
    /\ mem' = [mem EXCEPT ![here.addr] = at]
    /\ at' = at + 1

Branch ==
    /\ here.kind = "BRANCH"
    /\ at' = here.next
    /\ UNCHANGED mem

(* The halt marker leaves the program, whatever follows it in memory.      *)
Halt ==
    /\ here.kind = "HALT"
    /\ at' = Len(program) + 1
    /\ UNCHANGED mem

Execute ==
    /\ at \in DOMAIN program
    /\ Load \/ Store \/ Branch \/ Halt
    /\ UNCHANGED program

Spec == Init /\ [][Execute]_inOrderVars

=============================================================================
