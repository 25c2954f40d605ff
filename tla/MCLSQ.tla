------------------------------- MODULE MCLSQ -------------------------------
(***************************************************************************)
(* The programs of the load/store runs.                                    *)
(***************************************************************************)
EXTENDS LSQ

ld(a) == [kind |-> "LOAD", addr |-> a]
st(a) == [kind |-> "STORE", addr |-> a]
br(p, n) == [kind |-> "BRANCH", pred |-> p, next |-> n]
halt == [kind |-> "HALT"]

Ops == {ld(0), ld(1), st(0), st(1)}

(* Three accesses in every order, up to the naming of addresses.           *)
Triples == {<<x, y, z, halt>> : x \in {ld(0), st(0)}, y \in Ops, z \in Ops}

(* A mispredicted branch with stores and loads on the wrong path and after *)
(* the join.                                                               *)
Branches ==
    {<<br(3, 2), ld(0), ld(1), halt>>, <<br(2, 3), st(0), ld(0), halt>>,
     <<st(0), br(3, 4), st(0), ld(0), halt>>,
     <<br(2, 4), st(1), ld(0), ld(1), halt>>}

(* A halt marker on the wrong path, and one with code behind it.           *)
Halts == {<<br(2, 3), halt, st(0), ld(0), halt>>, <<st(0), halt, st(0), halt>>}

(* Two and three stores in front of loads.                                 *)
Longer ==
    {<<st(0), st(1), st(0), ld(0), halt>>, <<st(0), ld(0), st(0), ld(0), halt>>}

MixedPrograms == Triples \cup Branches \cup Halts \cup Longer

OneStoreOneLoad == {<<st(0), ld(0), halt>>}

=============================================================================
