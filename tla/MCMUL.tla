------------------------------- MODULE MCMUL -------------------------------
(* Values of the constants of MUL for model checking: every product of     *)
(* 4-bit words under one tag, one product under each of its neighbours:    *)
(* the younger tag 1, and the older tags 5 and 6 of the other epoch.       *)
EXTENDS MUL

Words == 0 .. 15

WorkMUL ==
    [tag : {0}, op : Ops, x : Words, y : Words]
      \cup [tag : {1, 5, 6}, op : {"MULHSU"}, x : {9}, y : {14}]

(* The tree adds every one of the 19 rows exactly once, those beyond the   *)
(* digits of a 4-bit word included.                                        *)
ASSUME TreeAddsEveryRow ==
    \A i \in Rows, v \in {1, 5, 128} :
        LET SC == calculateSC([k \in Rows |-> IF k = i THEN v ELSE 0])
        IN  SC[1] + SC[2] = v

=============================================================================
