----------------------------- MODULE CarrySave -----------------------------
(***************************************************************************)
(* The 3:2 compression of natural numbers, bit by bit, that the multiplier *)
(* (src/src/MUL/MUL.cpp, csa3) and the divider (src/src/DIV/DIV.cpp, loop) *)
(* share: a ^ b ^ c and (a & b) | (a & c) | (b & c).                       *)
(***************************************************************************)
EXTENDS Integers

(* a ^ b ^ c.                                                              *)
parity[a, b, c \in Nat] ==
    IF a + b + c = 0 THEN 0
    ELSE ((a + b + c) % 2) + 2 * parity[a \div 2, b \div 2, c \div 2]

(* (a & b) | (a & c) | (b & c).                                            *)
majority[a, b, c \in Nat] ==
    IF a + b + c = 0 THEN 0
    ELSE (((a % 2) + (b % 2) + (c % 2)) \div 2)
           + 2 * majority[a \div 2, b \div 2, c \div 2]

=============================================================================
