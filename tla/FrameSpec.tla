------------------------------ MODULE FrameSpec ------------------------------
(***************************************************************************)
(* What memory.h promises the callers of the physical memory manager,      *)
(* without bitmap, indices or counters: a pool of page addresses fixed at  *)
(* boot.  A request for n pages gets n consecutive pages of the pool that  *)
(* nobody holds, or is refused, and only when the pool has no such run.    *)
(***************************************************************************)
EXTENDS Integers

CONSTANT PAGE

VARIABLES
    open,       \* the manager has been initialised
    pool,       \* addresses of the pages nobody holds
    held,       \* addresses of the pages callers hold
    asked,      \* pages asked for by the call in progress, 0 if none
    answer      \* address the last call returned, 0 for a refusal

vars == <<open, pool, held, asked, answer>>

Run(a, n) == {a + k * PAGE : k \in 0 .. n - 1}

Init == ~open /\ pool = {} /\ held = {} /\ asked = 0 /\ answer = 0

Open ==
    /\ ~open /\ open'
    /\ UNCHANGED <<held, asked, answer>>

Ask(n) ==
    /\ open /\ asked = 0 /\ n # 0
    /\ asked' = n
    /\ UNCHANGED <<open, pool, held, answer>>

Grant(a) ==
    /\ asked # 0 /\ a # 0
    /\ Run(a, asked) \subseteq pool
    /\ pool' = pool \ Run(a, asked)
    /\ held' = held \cup Run(a, asked)
    /\ answer' = a /\ asked' = 0
    /\ UNCHANGED open

Refuse ==
    /\ asked # 0
    /\ \A a \in pool : ~(Run(a, asked) \subseteq pool)
    /\ answer' = 0 /\ asked' = 0
    /\ UNCHANGED <<open, pool, held>>

(* Asking for no pages at all. *)
RefuseZero == answer' = 0 /\ UNCHANGED <<open, pool, held, asked>>

Release(pages) ==
    /\ asked = 0 /\ pages \subseteq held
    /\ held' = held \ pages
    /\ pool' = pool \cup pages
    /\ UNCHANGED <<open, asked, answer>>

Next ==
    \/ Open
    \/ asked' # asked /\ Ask(asked')
    \/ Grant(answer')
    \/ Refuse
    \/ RefuseZero
    \/ Release(held \ held')

Spec == Init /\ [][Next]_vars
=============================================================================
