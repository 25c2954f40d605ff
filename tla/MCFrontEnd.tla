---------------------------- MODULE MCFrontEnd -----------------------------
(***************************************************************************)
(* The codes of the front-end runs.                                        *)
(***************************************************************************)
EXTENDS FrontEnd

i(k) == [kind |-> k, target |-> 0]
to(k, a) == [kind |-> k, target |-> a]

(* An address is one less than the position.                               *)
listing(s) == [a \in 0 .. Len(s) - 1 |-> s[a + 1]]

(* Lines in a row, with a load that may be fetched again.                  *)
Straight ==
    listing(<<i("PLAIN"), i("LOAD"), i("PLAIN"), i("PLAIN"), i("PLAIN"),
              i("PLAIN"), i("PLAIN"), i("HALT")>>)

(* A branch over the halt marker.                                          *)
Forward ==
    listing(<<to("BRANCH", 2), i("HALT"), i("PLAIN"), i("HALT")>>)

(* Two calls of one routine, in a loop.                                    *)
CallLoop ==
    listing(<<to("CALL", 4), to("CALL", 4), to("BRANCH", 0), i("HALT"),
              i("PLAIN"), i("RET")>>)

(* The same call again and again: it is counted, not pushed.               *)
Repeated ==
    listing(<<to("CALL", 1), i("PLAIN"), i("PLAIN"), i("LOAD"), to("BRANCH", 0),
              i("HALT")>>)

(* Nothing but calls: the journal overruns.                                *)
Recursion == listing(<<to("CALL", 0), i("HALT")>>)

(* A call through a register, of itself or of what is behind it.           *)
Indirect == listing(<<i("ICALL"), i("HALT")>>)

(* A jump over the halt marker, and one that may go anywhere.              *)
Jumps ==
    listing(<<to("JUMP", 2), i("HALT"), i("PLAIN"), i("INDIRECT")>>)

SmallCodes ==
    {Straight, Forward, CallLoop, Repeated, Recursion, Indirect, Jumps}

StraightOnly == {Straight}

TwoViews == {[h |-> 3, w |-> 2], [h |-> 2, w |-> 2]}

=============================================================================
