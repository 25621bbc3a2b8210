------------------------------- MODULE Kmalloc -------------------------------
(***************************************************************************)
(* The kernel heap of kmalloc.c: one region of HEAP_SIZE bytes tiled by    *)
(* blocks, each a packed header followed by its payload, doubly linked in  *)
(* address order.  Pointers are addresses, headers are fields stored AT an *)
(* address, and a list loop of the code is a sequence of steps: one per    *)
(* iteration of find_free_block, one per block that coalesce_blocks        *)
(* absorbs and one per call it makes to itself.                            *)
(*                                                                         *)
(* Only kernel_main's thread calls the heap (no interrupt handler does),   *)
(* so one call is in progress at a time: pc, current, want, request and    *)
(* old are that call's locals.  live, req and mem are seen by callers.     *)
(*                                                                         *)
(* A size that align_up truncates makes a block smaller than its caller    *)
(* was promised; memcpy in krealloc and the caller's own stores then run   *)
(* over the headers behind it.  The model follows the heap up to and       *)
(* including the first such step (pc = "corrupt"): from there the code     *)
(* reads links and sizes out of overwritten memory.                        *)
(***************************************************************************)
EXTENDS Integers, FiniteSets, FiniteSetsExt

CONSTANTS
    HEAP_START,        \* address of the first header
    HEAP_SIZE,         \* bytes of the heap
    HDR,               \* sizeof(heap_block_t): packed, 29 in the code
    HEAP_ALIGNMENT,    \* default alignment of a size
    MIN_PAYLOAD,       \* least payload split_block leaves in the rest (16)
    SIZE_MOD,          \* 2^64: the range of size_t
    MASK_MOD,          \* 2^32: the range of the uint32_t mask in align_up
    Requests,          \* sizes callers ask for
    Alignments,        \* alignments passed to kmalloc_aligned
    CallocArgs,        \* <<nmemb, size>> pairs passed to kcalloc
    Garbage,           \* what the fields of an overwritten header may read as
    VALIDATE_LIMIT,    \* blocks heap_validate looks at (10000)
    MaxAllocations,    \* bound: calls start while fewer have succeeded
    MaxFailed          \* bound: calls start while fewer have failed

NULL == 0
HEAP_END == HEAP_START + HEAP_SIZE
Addr == HEAP_START .. HEAP_END - 1

(* What a byte holds, as far as a caller can tell. *)
ZERO == "zero"        \* cleared by memset
DATA == "data"        \* stored by a caller, or whatever RAM held at boot
LINK == "link"        \* part of a block header
Byte == {ZERO, DATA, LINK}

ASSUME HeapAssumption ==
    /\ HEAP_START \in Nat \ {0} /\ HDR \in Nat \ {0}
    /\ HEAP_SIZE \in Nat /\ HEAP_SIZE > HDR
    /\ HEAP_ALIGNMENT \in Nat \ {0} /\ MIN_PAYLOAD \in Nat \ {0}
    /\ MASK_MOD \in Nat \ {0} /\ SIZE_MOD \in Nat \ {0}
    /\ Requests \subseteq Nat /\ Alignments \subseteq Nat
    /\ CallocArgs \subseteq Nat \X Nat
    /\ MaxAllocations \in Nat /\ MaxFailed \in Nat

ASSUME OverrunAssumption ==
    /\ Garbage \subseteq [size : Nat, is_free : BOOLEAN, next : Nat, prev : Nat]
    /\ Garbage # {}

ASSUME LimitAssumption == VALIDATE_LIMIT \in Nat \ {0}

VARIABLES
    heap_initialized, heap_head,
    magic,             \* the addresses where the HEAP_MAGIC word stands
    size, is_free, next, prev,   \* the other header fields, by header address
    total_allocations, total_frees, failed_allocations,
    pc, current, want, request, old,
    live, req, mem

fields == <<size, is_free, next, prev>>
stats == <<total_allocations, total_frees, failed_allocations>>
locals == <<pc, current, want, request, old>>
caller == <<live, req, mem>>
vars == <<heap_initialized, heap_head, magic, fields, stats, locals, caller>>

-----------------------------------------------------------------------------
(* Helpers of the code. *)

block_to_ptr(b) == b + HDR
ptr_to_block(p) == p - HDR

(* The word at b is HEAP_MAGIC and b lies in the heap (so b is not NULL). *)
is_valid_block(b) == b \in magic

(* (value + alignment - 1) & ~(alignment - 1): the sum wraps at size_t, and *)
(* the complement is taken in uint32_t, so the mask clears bits 32 and up.  *)
align_up(v, al) ==
    LET sum == (v + al - 1) % SIZE_MOD IN (sum - (sum % al)) % MASK_MOD

(* alignment == 0 or not a power of two: the default instead. *)
IsPowerOfTwo(al) == al # 0 /\ \E k \in 0 .. al : 2^k = al
EffectiveAlignment(al) == IF IsPowerOfTwo(al) THEN al ELSE HEAP_ALIGNMENT

Payload(b, n) == block_to_ptr(b) .. block_to_ptr(b) + n - 1
Header(b) == b .. b + HDR - 1

Store(addrs, byte) == [a \in Addr |-> IF a \in addrs THEN byte ELSE mem[a]]

-----------------------------------------------------------------------------
Init ==
    /\ heap_initialized = FALSE /\ heap_head = NULL
    /\ magic = {}
    /\ size = [a \in Addr |-> 0] /\ is_free = [a \in Addr |-> FALSE]
    /\ next = [a \in Addr |-> NULL] /\ prev = [a \in Addr |-> NULL]
    /\ total_allocations = 0 /\ total_frees = 0 /\ failed_allocations = 0
    /\ pc = "idle" /\ current = NULL /\ want = 0 /\ request = 0 /\ old = NULL
    /\ live = {} /\ req = [a \in Addr |-> 0] /\ mem = [a \in Addr |-> DATA]

heap_init ==
    /\ pc = "idle" /\ ~heap_initialized
    /\ heap_initialized' = TRUE /\ heap_head' = HEAP_START
    /\ magic' = magic \cup {HEAP_START}
    /\ size' = [size EXCEPT ![HEAP_START] = HEAP_SIZE - HDR]
    /\ is_free' = [is_free EXCEPT ![HEAP_START] = TRUE]
    /\ next' = [next EXCEPT ![HEAP_START] = NULL]
    /\ prev' = [prev EXCEPT ![HEAP_START] = NULL]
    /\ total_allocations' = 0 /\ total_frees' = 0 /\ failed_allocations' = 0
    /\ mem' = Store(Header(HEAP_START), LINK)
    /\ UNCHANGED <<locals, live, req>>

-----------------------------------------------------------------------------
(* Entry of kmalloc_aligned(n, al); asked is what the caller meant to get, *)
(* p the block krealloc is to move (NULL for every other caller).          *)
kmalloc_aligned(n, al, asked, p) ==
    /\ UNCHANGED <<heap_initialized, heap_head, magic, fields, caller>>
    /\ UNCHANGED <<total_allocations, total_frees>>
    /\ \/ /\ ~heap_initialized
          /\ failed_allocations' = failed_allocations + 1
          /\ UNCHANGED locals
       \/ /\ heap_initialized /\ n = 0
          /\ UNCHANGED <<failed_allocations, locals>>
       \/ /\ heap_initialized /\ n # 0
          /\ pc' = "find" /\ current' = heap_head
          /\ want' = align_up(n, EffectiveAlignment(al))
          /\ request' = asked /\ old' = p
          /\ UNCHANGED failed_allocations

(* The call returns: its locals are gone. *)
Return ==
    /\ pc' = "idle" /\ current' = NULL /\ want' = 0 /\ request' = 0
    /\ old' = NULL

(* Bounds on the counters, for the model checker. *)
WithinBounds ==
    /\ total_allocations < MaxAllocations
    /\ failed_allocations < MaxFailed

kmalloc(n, al) ==
    /\ pc = "idle" /\ WithinBounds
    /\ kmalloc_aligned(n, al, n, NULL)

total_size(nmemb, n) == (nmemb * n) % SIZE_MOD

Overflows_Unchecked(nmemb, n) == FALSE
Overflows(nmemb, n) == nmemb # 0 /\ total_size(nmemb, n) \div nmemb # n

kcalloc(nmemb, n) ==
    /\ pc = "idle" /\ WithinBounds
    /\ \/ /\ Overflows(nmemb, n)
          /\ failed_allocations' = failed_allocations + 1
          /\ UNCHANGED <<heap_initialized, heap_head, magic, fields>>
          /\ UNCHANGED <<total_allocations, total_frees, locals, caller>>
       \/ /\ ~Overflows(nmemb, n)
          /\ kmalloc_aligned(total_size(nmemb, n), HEAP_ALIGNMENT, nmemb * n, NULL)

(* One iteration of the loop in find_free_block. *)
Fits(b) == is_free[b] /\ size[b] >= want

(* Mutant: `while (current->next)`, which never looks at the last block. *)
Advance_StopsEarly(b) ==
    IF next[b] # NULL /\ next[next[b]] = NULL THEN NULL ELSE next[b]
Advance(b) == next[b]

FindNext ==
    /\ pc = "find" /\ current # NULL /\ ~Fits(current)
    /\ current' = Advance(current)
    /\ UNCHANGED <<heap_initialized, heap_head, magic, fields, stats, caller>>
    /\ UNCHANGED <<pc, want, request, old>>

FindFail ==
    /\ pc = "find" /\ current = NULL
    /\ failed_allocations' = failed_allocations + 1
    /\ Return
    /\ UNCHANGED <<heap_initialized, heap_head, magic, fields, caller>>
    /\ UNCHANGED <<total_allocations, total_frees>>

(* The rest of kmalloc_aligned once block b is found: split_block, mark,   *)
(* memset, count.  The caller of kmalloc and kcalloc gets the pointer;     *)
(* krealloc goes on to copy.                                               *)
(* Mutants of the split: the new header is not paid for; the two assignments *)
(* of next in the other order; block->next->prev forgotten.                  *)
WorthSplitting_NoHeader(b) == size[b] >= want + MIN_PAYLOAD
WorthSplitting(b) == size[b] >= want + HDR + MIN_PAYLOAD

SplitNext_Swapped(b, n) == [next EXCEPT ![n] = n, ![b] = n]
SplitNext(b, n) == [next EXCEPT ![n] = next[b], ![b] = n]

SplitPrev_Stale(b, n) == [prev EXCEPT ![n] = b]
SplitPrev(b, n) ==
    [a \in Addr |-> IF a = n THEN b ELSE IF a = next[b] THEN n ELSE prev[a]]

split_block(b) ==
    LET new_block == block_to_ptr(b) + want IN
    /\ magic' = (magic \cup {new_block}) \ Payload(b, want)
    /\ size' = [size EXCEPT ![new_block] = size[b] - want - HDR, ![b] = want]
    /\ is_free' = [is_free EXCEPT ![new_block] = TRUE, ![b] = FALSE]
    /\ next' = SplitNext(b, new_block)
    /\ prev' = SplitPrev(b, new_block)
    /\ mem' = [a \in Addr |-> IF a \in Payload(b, want) THEN ZERO
                              ELSE IF a \in Header(new_block) THEN LINK
                              ELSE mem[a]]

(* Mutants: without memset; a block too small to split is left free. *)
TakeWhole_Dirty(b) ==
    /\ is_free' = [is_free EXCEPT ![b] = FALSE]
    /\ UNCHANGED <<magic, size, next, prev, mem>>
TakeWhole_StaysFree(b) ==
    /\ magic' = magic \ Payload(b, want)
    /\ mem' = Store(Payload(b, want), ZERO)
    /\ UNCHANGED <<is_free, size, next, prev>>
TakeWhole(b) ==
    /\ is_free' = [is_free EXCEPT ![b] = FALSE]
    /\ magic' = magic \ Payload(b, want)
    /\ mem' = Store(Payload(b, want), ZERO)
    /\ UNCHANGED <<size, next, prev>>

Grant(p) ==
    \/ /\ old = NULL
       /\ live' = live \cup {p} /\ req' = [req EXCEPT ![p] = request]
       /\ Return
    \/ /\ old # NULL
       /\ pc' = "copy"
       /\ UNCHANGED <<current, want, request, old, live, req>>

FindHit ==
    /\ pc = "find" /\ current # NULL /\ Fits(current)
    /\ \/ WorthSplitting(current) /\ split_block(current)
       \/ ~WorthSplitting(current) /\ TakeWhole(current)
    /\ total_allocations' = total_allocations + 1
    /\ Grant(block_to_ptr(current))
    /\ UNCHANGED <<heap_initialized, heap_head, total_frees, failed_allocations>>

-----------------------------------------------------------------------------
(* kfree(p) up to its call of coalesce_blocks, and its early returns: NULL, *)
(* no heap yet, no valid header, or already free (the mutant frees twice).  *)
Releasable_Twice(p) ==
    p # NULL /\ heap_initialized /\ is_valid_block(ptr_to_block(p))
Releasable(p) ==
    /\ p # NULL /\ heap_initialized
    /\ is_valid_block(ptr_to_block(p)) /\ ~is_free[ptr_to_block(p)]

ReleaseBlock(p) ==
    \/ /\ Releasable(p)
       /\ is_free' = [is_free EXCEPT ![ptr_to_block(p)] = TRUE]
       /\ pc' = "coalesce" /\ current' = ptr_to_block(p)
       /\ want' = 0 /\ request' = 0 /\ old' = NULL
    \/ /\ ~Releasable(p)
       /\ Return /\ UNCHANGED is_free

kfree(p) ==
    /\ pc = "idle"
    /\ ReleaseBlock(p)
    /\ live' = live \ {p}
    /\ req' = [a \in Addr |-> IF a = p THEN 0 ELSE req[a]]
    /\ UNCHANGED <<heap_initialized, heap_head, magic, size, next, prev>>
    /\ UNCHANGED <<stats, mem>>

(* One iteration of the while loop of coalesce_blocks(current). *)
Absorbable(b) ==
    next[b] # NULL /\ is_free[next[b]] /\ is_valid_block(next[b])

(* Mutant: the absorbed header is not counted into the block. *)
MergedSize_LosesHeader(b, n) == size[b] + size[n]
MergedSize(b, n) == size[b] + HDR + size[n]

AbsorbNext ==
    LET b == current
        n == next[current]
    IN  /\ pc = "coalesce" /\ Absorbable(b)
        /\ size' = [size EXCEPT ![b] = MergedSize(b, n)]
        /\ next' = [next EXCEPT ![b] = next[n]]
        /\ prev' = [a \in Addr |-> IF a = next[n] THEN b ELSE prev[a]]
        /\ magic' = magic \ {n}
        /\ UNCHANGED <<heap_initialized, heap_head, is_free, stats, locals, caller>>

(* Mutant: coalesce_blocks merges forwards only. *)
FreePrev_Ignored(b) == FALSE
FreePrev(b) == prev[b] # NULL /\ is_free[prev[b]]

(* coalesce_blocks(block->prev): nothing is left to do after that call. *)
CoalescePrev ==
    /\ pc = "coalesce" /\ ~Absorbable(current) /\ FreePrev(current)
    /\ current' = prev[current]
    /\ UNCHANGED <<heap_initialized, heap_head, magic, fields, stats, caller>>
    /\ UNCHANGED <<pc, want, request, old>>

FreeDone ==
    /\ pc = "coalesce" /\ ~Absorbable(current) /\ ~FreePrev(current)
    /\ total_frees' = total_frees + 1
    /\ Return
    /\ UNCHANGED <<heap_initialized, heap_head, magic, fields, caller>>
    /\ UNCHANGED <<total_allocations, failed_allocations>>

-----------------------------------------------------------------------------
(* krealloc has no is_free check: its callers pass NULL, a live pointer, or *)
(* one whose header is gone.                                                *)
krealloc(p, n) ==
    LET b == ptr_to_block(p) IN
    /\ pc = "idle" /\ WithinBounds
    /\ \/ /\ p = NULL
          /\ kmalloc_aligned(n, HEAP_ALIGNMENT, n, NULL)
       \/ /\ p # NULL /\ n = 0
          /\ kfree(p)
       \/ /\ p # NULL /\ n # 0 /\ ~is_valid_block(b)
          /\ UNCHANGED vars
       \/ /\ p # NULL /\ n # 0 /\ is_valid_block(b) /\ n <= size[b]
          /\ req' = [req EXCEPT ![p] = n]
          /\ UNCHANGED <<heap_initialized, heap_head, magic, fields, stats>>
          /\ UNCHANGED <<locals, live, mem>>
       \/ /\ p # NULL /\ n # 0 /\ is_valid_block(b) /\ n > size[b]
          /\ kmalloc_aligned(n, HEAP_ALIGNMENT, n, p)

(* The headers that stores into bytes run over.  A run of bytes enters a    *)
(* header at its first field, the magic word.                               *)
Reached(bytes) == {b \in magic : Header(b) \cap bytes # {}}

Overwritten(f, g) == [a \in Addr |-> IF a \in DOMAIN g THEN g[a] ELSE f[a]]

Corrupt(bytes) ==
    LET gone == Reached(bytes) IN
    /\ magic' = magic \ gone
    /\ \E g \in [gone -> Garbage] :
          /\ size' = Overwritten(size, [b \in gone |-> g[b].size])
          /\ is_free' = Overwritten(is_free, [b \in gone |-> g[b].is_free])
          /\ next' = Overwritten(next, [b \in gone |-> g[b].next])
          /\ prev' = Overwritten(prev, [b \in gone |-> g[b].prev])
    /\ pc' = "corrupt"
    /\ UNCHANGED <<current, want, request, old>>

(* memcpy(new_ptr, ptr, block->size), then kfree(ptr).  The length is the   *)
(* OLD block's: a truncated new block is overrun.                           *)
new_ptr == block_to_ptr(current)
Moved == new_ptr .. new_ptr + size[ptr_to_block(old)] - 1

CopyAndFree ==
    /\ pc = "copy"
    /\ mem' = [a \in Addr |-> IF a \in Moved THEN mem[old + (a - new_ptr)]
                              ELSE mem[a]]
    /\ live' = (live \ {old}) \cup {new_ptr}
    /\ req' = [req EXCEPT ![old] = 0, ![new_ptr] = request]
    /\ IF Reached(Moved) = {}
       THEN ReleaseBlock(old) /\ UNCHANGED <<magic, size, next, prev>>
       ELSE Corrupt(Moved)
    /\ UNCHANGED <<heap_initialized, heap_head, stats>>

-----------------------------------------------------------------------------
(* A caller fills the bytes it asked for, granted or not. *)
Asked(p) == p .. p + req[p] - 1

CallerWrite(p) ==
    /\ pc = "idle" /\ p \in live
    /\ mem' = Store(Asked(p), DATA)
    /\ IF Reached(Asked(p)) = {}
       THEN UNCHANGED <<magic, fields, locals>>
       ELSE Corrupt(Asked(p))
    /\ UNCHANGED <<heap_initialized, heap_head, stats, live, req>>

Step == FindNext \/ FindFail \/ FindHit \/ CopyAndFree \/ AbsorbNext
        \/ CoalescePrev \/ FreeDone

Call ==
    \/ \E n \in Requests, al \in Alignments : kmalloc(n, al)
    \/ \E a \in CallocArgs : kcalloc(a[1], a[2])
    \/ \E p \in live \cup {NULL}, n \in Requests : krealloc(p, n)
    \/ \E p \in Addr \ live, n \in Requests :
          ~is_valid_block(ptr_to_block(p)) /\ krealloc(p, n)
    \/ \E p \in Addr \cup {NULL} : kfree(p)

Next ==
    \/ heap_init
    \/ Call
    \/ Step
    \/ \E p \in live : CallerWrite(p)

Spec == Init /\ [][Next]_vars

(* A call runs to its return: the processor executes it. *)
FairSpec == Spec /\ WF_vars(Step)

-----------------------------------------------------------------------------
(* Properties. *)

(* Every variable has its type, and only a call in progress has locals. *)
TypeOK ==
    /\ heap_initialized \in BOOLEAN
    /\ heap_head = IF heap_initialized THEN HEAP_START ELSE NULL
    /\ magic \subseteq Addr
    /\ size \in [Addr -> Nat] /\ is_free \in [Addr -> BOOLEAN]
    /\ next \in [Addr -> Addr \cup {NULL}] /\ prev \in [Addr -> Addr \cup {NULL}]
    /\ total_allocations \in Nat /\ total_frees \in Nat
    /\ failed_allocations \in Nat
    /\ pc \in {"idle", "find", "copy", "coalesce", "corrupt"}
    /\ current \in Addr \cup {NULL} /\ old \in Addr \cup {NULL}
    /\ want \in Nat /\ request \in Nat
    /\ live \subseteq Addr /\ req \in [Addr -> Nat] /\ mem \in [Addr -> Byte]

(* kmalloc.h:12, "Alineacion a 16 bytes (mejor para 64-bit)": what callers  *)
(* get is aligned.  (align_up rounds the SIZE; the payload starts HDR bytes *)
(* after a header.)                                                         *)
PayloadAligned == \A p \in live : p % HEAP_ALIGNMENT = 0

(* kmalloc.c:18, "Alinear un valor al multiplo superior mas cercano": the   *)
(* size searched for is never below the size asked for.                     *)
WantCoversRequest == pc = "find" => want >= request

(* The blocks tile the heap: after every step of every call, the addresses  *)
(* that hold HEAP_MAGIC are exactly the headers of consecutive blocks from  *)
(* HEAP_START to HEAP_END, no header stands inside another block, and the   *)
(* two links of each block name its neighbours (split_block and             *)
(* coalesce_blocks rewrite four fields in three headers to keep this).      *)
BlockEnd(b) == b + HDR + size[b]
StartsAtHead == heap_initialized <=> HEAP_START \in magic
InsideHeap ==
    \A b \in magic : block_to_ptr(b) < HEAP_END /\ BlockEnd(b) <= HEAP_END
NoOverlap == \A b, c \in magic : b < c => BlockEnd(b) <= c
NextIsAdjacent ==
    \A b \in magic :
        /\ BlockEnd(b) = HEAP_END => next[b] = NULL
        /\ BlockEnd(b) # HEAP_END => next[b] = BlockEnd(b) /\ next[b] \in magic
PrevIsInverse ==
    \A b \in magic :
        /\ b = HEAP_START => prev[b] = NULL
        /\ b # HEAP_START => prev[b] \in magic /\ next[prev[b]] = b
HeapTiling ==
    StartsAtHead /\ InsideHeap /\ NoOverlap /\ NextIsAdjacent /\ PrevIsInverse

(* What a call in progress knows about its locals: the search stands on a   *)
(* header or past the last one, the block of a krealloc under way is used   *)
(* and not yet its caller's, coalesce_blocks works on a free block.         *)
CallState ==
    /\ ~heap_initialized => magic = {} /\ live = {} /\ pc = "idle"
    /\ pc \in {"find", "copy"} => old = NULL \/ old \in live
    /\ pc = "find" => current = NULL \/ current \in magic
    /\ pc = "copy" => current \in magic /\ ~is_free[current] /\ old # NULL
    /\ pc = "coalesce" => current \in magic /\ is_free[current]

(* Two neighbours are both free only while coalesce_blocks works on one of  *)
(* them: fragmentation is gone when the call returns.                       *)
NoAdjacentFree ==
    \A b \in magic :
        next[b] # NULL /\ is_free[b] /\ is_free[next[b]]
            => pc = "coalesce" /\ current \in {b, next[b]}

(* find_free_block skips no block that fits, so a request fails only when   *)
(* no free block can hold it, and first fit takes the lowest one.           *)
NothingSkipped ==
    pc = "find" =>
        \A b \in magic : Fits(b) => current # NULL /\ current <= b

(* A used block belongs to one caller (or is the new block of a krealloc    *)
(* that has not copied yet), and every caller's block is used: no leak, no  *)
(* pointer to a block that was merged or handed to somebody else.           *)
Used == {b \in magic : ~is_free[b]}
InTransit == IF pc = "copy" THEN {current} ELSE {}
LiveIsUsed ==
    /\ {ptr_to_block(p) : p \in live} \cup InTransit = Used
    /\ \A p \in live : ptr_to_block(p) \notin InTransit

(* The block behind a pointer is at least as large as the caller asked,     *)
(* kcalloc's product included, and stays so while krealloc resizes it.      *)
GrantedEnough == \A p \in live : req[p] <= size[ptr_to_block(p)]

(* heap_get_stats: the walk from heap_head that adds up the sizes and stops *)
(* at NULL or at a header without the magic word.                           *)
Walk[n \in 0 .. HEAP_SIZE] ==
    IF n = 0 THEN heap_head
    ELSE LET b == Walk[n - 1] IN IF is_valid_block(b) THEN next[b] ELSE NULL
Visited == {Walk[n] : n \in 0 .. HEAP_SIZE \div HDR} \cap magic
Total(blocks) == MapThenSumSet(LAMBDA b : size[b], blocks)
heap_get_stats ==
    LET used == {b \in Visited : ~is_free[b]} IN
    [used_size |-> Total(used), free_size |-> Total(Visited \ used),
     block_count |-> Cardinality(Visited), used_block_count |-> Cardinality(used)]

(* The same walk, true if the headers it meets before its limit are valid. *)
heap_validate ==
    heap_initialized /\ \A n \in 0 .. HEAP_SIZE \div HDR :
        n < VALIDATE_LIMIT /\ Walk[n] # NULL => is_valid_block(Walk[n])

(* Between calls heap_validate says yes, the statistics account for every   *)
(* byte of the heap, headers included, and used blocks = allocations -      *)
(* frees (the leak report of `memtest` compares them before and after).     *)
StatsBalance ==
    heap_initialized /\ pc = "idle" =>
        LET s == heap_get_stats IN
        /\ heap_validate
        /\ s.used_size + s.free_size + HDR * s.block_count = HEAP_SIZE
        /\ s.used_block_count = total_allocations - total_frees

(* kfree of a pointer its caller does not hold (freed already, merged away, *)
(* or never returned) leaves the heap as it is.                             *)
StaleFreeIgnored ==
    [][\A p \in Addr \ live : kfree(p) => UNCHANGED <<magic, fields, stats, pc>>]_vars

(* Callers see the allocator of HeapSpec: disjoint zeroed allocations whose *)
(* bytes nobody else touches, through krealloc's move as well.              *)
Abstract == INSTANCE HeapSpec WITH Space <- Addr
ImplementsHeapSpec == Abstract!Spec

(* Every call returns: neither list walk can run in a circle. *)
CallReturns == (pc # "idle") ~> (pc = "idle")
=============================================================================
