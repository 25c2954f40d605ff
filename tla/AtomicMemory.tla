---------------------------- MODULE AtomicMemory ----------------------------
(***************************************************************************)
(* What the data cache and the main memory promise together to the load    *)
(* and store queues: a memory without a cache.  A request is accepted when *)
(* none is pending and is served later, or in the cycle it is accepted; a  *)
(* load is answered for one cycle with the bytes last stored.              *)
(***************************************************************************)
EXTENDS MemLine

VARIABLES
    store,      \* the content of every line
    pending,    \* the accepted requests not yet served, at most one
    answer      \* the load response of the cycle

memoryVars == <<store, pending, answer>>

Init ==
    /\ store \in [Blocks -> Line]
    /\ \A b \in Blocks : b >= MemBlocks => store[b] = ZeroLine
    /\ pending = {}
    /\ answer = NoResponse

Quiet ==
    /\ answer' = NoResponse
    /\ UNCHANGED <<store, pending>>

Accept(r) ==
    /\ pending = {}
    /\ pending' = {r}
    /\ answer' = NoResponse
    /\ UNCHANGED store

Serve(r) ==
    /\ pending \in {{}, {r}}
    /\ pending' = {}
    /\ IF r.op = "Load"
         THEN /\ answer' = LoadResponse(r, store[r.block])
              /\ UNCHANGED store
         ELSE /\ answer' = NoResponse
              /\ store' = [store EXCEPT ![r.block] = merge(@, r)]

Next ==
    \/ Quiet
    \/ \E r \in Program : Accept(r) \/ Serve(r)

Spec == Init /\ [][Next]_memoryVars

(* Every accepted request is served.                                       *)
Served == (pending # {}) ~> (pending = {})

=============================================================================
