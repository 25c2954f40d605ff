------------------------------ MODULE MemLine ------------------------------
(***************************************************************************)
(* Lines of data memory and the requests on them, shared by the data       *)
(* cache, the main memory behind it and the memory they implement.         *)
(* An address is a line number (addr >> 4) and an offset in the line; a    *)
(* value is the function from 0 .. n_bytes - 1 to its bytes.  The sign     *)
(* extension of short loads, a function of these bytes, is left out.       *)
(***************************************************************************)
EXTENDS Integers

CONSTANTS
    BlockCap,   \* DCACHE_BLOCK_CAP, bytes of a line
    NumBlocks,  \* line numbers an address can name
    MemBlocks,  \* the lines below MEM_SIZE
    Bytes,      \* the values of a byte, 0 among them
    Program     \* the requests the memory arbiter may present

Offsets == 0 .. BlockCap - 1

Blocks == 0 .. NumBlocks - 1

Line == [Offsets -> Bytes]

ZeroLine == [o \in Offsets |-> 0]

(* MemRequest; id stands for memIndex and robTag, val is unused by a load. *)
(* No request straddles a line, which PrRd and PrWr assert.                *)
Request ==
    {r \in [op : {"Load", "Store"}, block : Blocks, off : Offsets,
            n_bytes : 1 .. BlockCap,
            val : UNION {[0 .. n - 1 -> Bytes] : n \in 1 .. BlockCap},
            id : Nat] :
        /\ r.off + r.n_bytes <= BlockCap
        /\ DOMAIN r.val = 0 .. r.n_bytes - 1}

ASSUME MemLineAssumption ==
    /\ BlockCap \in Nat \ {0}
    /\ NumBlocks \in Nat \ {0}
    /\ MemBlocks \in 0 .. NumBlocks
    /\ 0 \in Bytes
    /\ Program \subseteq Request

DefaultRequest ==
    [op |-> "Load", block |-> 0, off |-> 0, n_bytes |-> 1,
     val |-> [i \in {0} |-> 0], id |-> 0]

(* The bytes a load extracts from a line.                                  *)
extract(line, r) == [i \in 0 .. r.n_bytes - 1 |-> line[r.off + i]]

(* The line after a store; bytes beyond MEM_SIZE are not written.          *)
merge(line, r) ==
    IF r.block < MemBlocks
      THEN [o \in Offsets |->
              IF o \in r.off .. r.off + r.n_bytes - 1
                THEN r.val[o - r.off] ELSE line[o]]
      ELSE line

(* LoadResponse.                                                           *)
NoResponse == [valid |-> FALSE, id |-> 0, value |-> [i \in {} |-> 0]]

LoadResponse(r, line) ==
    [valid |-> TRUE, id |-> r.id, value |-> extract(line, r)]

=============================================================================
