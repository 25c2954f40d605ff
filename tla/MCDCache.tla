------------------------------ MODULE MCDCache ------------------------------
(***************************************************************************)
(* Data of the cache's runs: two sets, five lines that compete for the     *)
(* four ways of set 1, the last of them beyond the end of the memory.      *)
(***************************************************************************)
EXTENDS DCache

load(b, off, n) ==
    [op |-> "Load", block |-> b, off |-> off, n_bytes |-> n,
     val |-> [i \in 0 .. n - 1 |-> 0], id |-> b]

storing(b, off, n, byte) ==
    [op |-> "Store", block |-> b, off |-> off, n_bytes |-> n,
     val |-> [i \in 0 .. n - 1 |-> byte], id |-> b]

(* Every line is loaded; line 1 is stored to as a whole and in part, line  *)
(* 9, beyond MEM_SIZE, in part.                                            *)
MCProgram ==
    {load(b, 0, 2) : b \in {1, 3, 5, 7, 9}}
      \cup {storing(1, 0, 2, 1), storing(1, 1, 1, 0), storing(9, 0, 1, 1)}

MCImage == [b \in Blocks |-> [o \in Offsets |-> IF o = 1 THEN b % 2 ELSE 0]]

=============================================================================
