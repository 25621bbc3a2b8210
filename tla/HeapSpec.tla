------------------------------ MODULE HeapSpec ------------------------------
(***************************************************************************)
(* What kmalloc.h promises its callers, without blocks, headers or lists:  *)
(* a set of live allocations, each an interval of bytes that belongs to    *)
(* one caller.  An allocation never overlaps another and arrives zeroed; a *)
(* byte of a live allocation changes only when its owner writes it; a      *)
(* resize keeps the common prefix, wherever the allocation ends up.        *)
(***************************************************************************)
EXTENDS Integers

CONSTANTS
    Space,      \* the addresses of the heap
    ZERO        \* the value of a cleared byte

VARIABLES
    live,       \* the pointers callers hold
    req,        \* how many bytes the caller of each pointer asked for
    mem         \* the bytes of the heap

vars == <<live, req, mem>>

Owned(p, n) == p .. p + n - 1

Init == live = {}

(* A place for n bytes that no allocation of `others` overlaps. *)
Placed(p, n, others) ==
    /\ Owned(p, n) \subseteq Space
    /\ \A q \in others : Owned(p, n) \cap Owned(q, req[q]) = {}

(* The callers of `others` see no byte and no length change. *)
Preserved(others) ==
    \A q \in others : /\ req'[q] = req[q]
                      /\ \A a \in Owned(q, req[q]) : mem'[a] = mem[a]

Alloc(p, n) ==
    /\ p \notin live
    /\ Placed(p, n, live)
    /\ live' = live \cup {p}
    /\ req'[p] = n
    /\ \A a \in Owned(p, n) : mem'[a] = ZERO
    /\ Preserved(live)

Free(p) ==
    /\ live' = live \ {p}
    /\ Preserved(live \ {p})

(* p may stay where it is (q = p) or move. *)
Resize(p, q, n) ==
    /\ q \notin live \ {p}
    /\ Placed(q, n, live \ {p})
    /\ live' = (live \ {p}) \cup {q}
    /\ req'[q] = n
    /\ \A i \in 0 .. n - 1 : i < req[p] => mem'[q + i] = mem[p + i]
    /\ Preserved(live \ {p})

(* The owner of p stores into its own bytes. *)
Write(p) ==
    /\ UNCHANGED <<live, req>>
    /\ Preserved(live \ {p})

(* Bookkeeping of the allocator, in bytes that belong to nobody. *)
Internal ==
    /\ live' = live
    /\ Preserved(live)

Next ==
    \/ \E p \in Space : Alloc(p, req'[p])
    \/ \E p \in live : Free(p) \/ Write(p)
    \/ \E p \in live, q \in Space : Resize(p, q, req'[q])
    \/ Internal

Spec == Init /\ [][Next]_vars
=============================================================================
