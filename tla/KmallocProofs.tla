---------------------------- MODULE KmallocProofs ----------------------------
(***************************************************************************)
(* Proofs about the heap of Kmalloc, for every size of the heap and of a   *)
(* header, and every set of requests that align_up does not truncate       *)
(* (NoTruncation).  Layout is the types, the tiling of the heap by linked  *)
(* blocks and what a call in progress knows about its locals.  Only        *)
(* heap_init, a split and an absorbed block change the list, unless a copy *)
(* or a caller's store runs over a header: that no grant is too small for  *)
(* what is stored into it (Grants) has to be part of the inductive         *)
(* invariant HeapInv.  The statistics add up because adjacent blocks fill  *)
(* the heap, the walk along next meets each of them, and UsedCounted       *)
(* counts the used ones.                                                   *)
(***************************************************************************)
EXTENDS Kmalloc, Extrema, FiniteSetTheorems, TLAPS

Layout == TypeOK /\ HeapTiling /\ CallState

shape == <<heap_initialized, heap_head, magic, size, next, prev>>

(* The size searched for is a number, whatever alignment was passed. *)
LEMMA AlignUpNat ==
    ASSUME NEW n \in Nat, NEW al \in Nat
    PROVE  align_up(n, EffectiveAlignment(al)) \in Nat
<1>1. EffectiveAlignment(al) \in Nat \ {0}
  BY HeapAssumption DEF EffectiveAlignment, IsPowerOfTwo
<1> DEFINE e == EffectiveAlignment(al)
           sum == (n + e - 1) % SIZE_MOD
<1>2. sum \in Int
  BY <1>1, HeapAssumption
<1>3. sum - (sum % e) \in Int
  BY <1>1, <1>2
<1>4. (sum - (sum % e)) % MASK_MOD \in Nat
  BY <1>3, HeapAssumption
<1> QED
  BY <1>4 DEF align_up

(* Before heap_init there is no block. *)
LEMMA InitLayout == Init => Layout
<1> SUFFICES ASSUME Init PROVE Layout
  OBVIOUS
<1>1. TypeOK
  BY HeapAssumption DEF Init, TypeOK, Addr, HEAP_END, NULL, Byte, DATA
<1>2. HeapTiling
  BY DEF Init, HeapTiling, StartsAtHead, InsideHeap, NoOverlap, NextIsAdjacent,
         PrevIsInverse
<1>3. CallState
  BY DEF Init, CallState
<1> QED
  BY <1>1, <1>2, <1>3 DEF Layout

(* An action that leaves the list alone leaves the tiling alone. *)
LEMMA SameShape ==
    ASSUME HeapTiling, UNCHANGED shape
    PROVE  HeapTiling'
BY DEF shape, HeapTiling, StartsAtHead, InsideHeap, NoOverlap, NextIsAdjacent,
       PrevIsInverse, BlockEnd

(* heap_init makes one free block of the whole heap. *)
LEMMA HeapInitLayout ==
    ASSUME Layout, heap_init
    PROVE  Layout'
<1> USE HeapAssumption
<1>0. HEAP_START \in Addr /\ magic = {} /\ pc = "idle"
  BY DEF Layout, heap_init, CallState, Addr, HEAP_END
<1>1. TypeOK'
  <2>1. size' \in [Addr -> Nat] /\ is_free' \in [Addr -> BOOLEAN]
    BY <1>0 DEF Layout, TypeOK, heap_init
  <2>2. /\ next' \in [Addr -> Addr \cup {NULL}]
        /\ prev' \in [Addr -> Addr \cup {NULL}]
    BY <1>0 DEF Layout, TypeOK, heap_init
  <2>3. mem' \in [Addr -> Byte]
    BY DEF Layout, TypeOK, heap_init, Store, Byte
  <2> QED
    BY <1>0, <2>1, <2>2, <2>3 DEF Layout, TypeOK, heap_init, locals
<1>2. /\ magic' = {HEAP_START}
      /\ size'[HEAP_START] = HEAP_SIZE - HDR
      /\ next'[HEAP_START] = NULL /\ prev'[HEAP_START] = NULL
      /\ is_free'[HEAP_START]
  BY <1>0 DEF Layout, TypeOK, heap_init
<1>3. HeapTiling'
  BY <1>2 DEF heap_init, HeapTiling, StartsAtHead, InsideHeap, NoOverlap,
              NextIsAdjacent, PrevIsInverse, BlockEnd, HEAP_END, block_to_ptr
<1>4. CallState'
  BY <1>0 DEF heap_init, CallState, locals
<1> QED
  BY <1>1, <1>3, <1>4 DEF Layout

(* The entry of kmalloc_aligned only sets up the search. *)
LEMMA AlignedLayout ==
    ASSUME Layout, pc = "idle",
           NEW n \in Nat, NEW al \in Nat, NEW asked \in Nat,
           NEW p \in live \cup {NULL},
           kmalloc_aligned(n, al, asked, p)
    PROVE  Layout'
<1>1. want' \in Nat
  BY AlignUpNat DEF Layout, TypeOK, kmalloc_aligned, locals
<1>2. TypeOK'
  <2>1. HEAP_START \in Addr
    BY HeapAssumption DEF Addr, HEAP_END
  <2>2. current' \in Addr \cup {NULL} /\ old' \in Addr \cup {NULL}
    BY <2>1 DEF Layout, TypeOK, kmalloc_aligned, locals
  <2>3. /\ pc' \in {"idle", "find", "copy", "coalesce"} /\ request' \in Nat
        /\ failed_allocations' \in Nat
    BY DEF Layout, TypeOK, kmalloc_aligned, locals
  <2> QED
    BY <1>1, <2>2, <2>3 DEF Layout, TypeOK, kmalloc_aligned, fields, caller
<1>3. HeapTiling'
  BY SameShape DEF Layout, kmalloc_aligned, shape, fields
<1>4. CallState'
  BY DEF Layout, TypeOK, HeapTiling, StartsAtHead, CallState, kmalloc_aligned, fields,
         caller, locals
<1> QED
  BY <1>2, <1>3, <1>4 DEF Layout

(* The end of a call keeps the types of the locals. *)
LEMMA ReturnLocals ==
    ASSUME Return
    PROVE  /\ pc' = "idle" /\ current' \in Addr \cup {NULL}
           /\ old' \in Addr \cup {NULL} /\ want' \in Nat /\ request' \in Nat
BY DEF Return, NULL

(* kfree marks a valid block free and goes on to coalesce it, or returns. *)
LEMMA ReleaseLayout ==
    ASSUME Layout, NEW p \in Addr \cup {NULL}, ReleaseBlock(p),
           UNCHANGED <<heap_initialized, heap_head, magic, size, next, prev, stats>>,
           live' \subseteq Addr, req' \in [Addr -> Nat], mem' \in [Addr -> Byte],
           ~heap_initialized => live' = {}
    PROVE  Layout'
<1>1. CASE Releasable(p)
  <2>1. ptr_to_block(p) \in magic /\ ptr_to_block(p) \in Addr /\ heap_initialized
    BY <1>1 DEF Releasable, is_valid_block, Layout, TypeOK
  <2>2. /\ is_free' = [is_free EXCEPT ![ptr_to_block(p)] = TRUE]
        /\ pc' = "coalesce" /\ current' = ptr_to_block(p)
        /\ want' = 0 /\ request' = 0 /\ old' = NULL
    BY <1>1 DEF ReleaseBlock
  <2>3. TypeOK'
    BY <2>1, <2>2 DEF Layout, TypeOK, stats
  <2>4. HeapTiling'
    BY SameShape DEF Layout, shape
  <2>5. CallState'
    BY <2>1, <2>2 DEF Layout, TypeOK, CallState
  <2> QED
    BY <2>3, <2>4, <2>5 DEF Layout
<1>2. CASE ~Releasable(p)
  <2>1. Return /\ is_free' = is_free
    BY <1>2 DEF ReleaseBlock
  <2>2. TypeOK'
    BY <2>1, ReturnLocals DEF Layout, TypeOK, stats
  <2>3. HeapTiling'
    BY SameShape DEF Layout, shape
  <2>4. CallState'
    BY <2>1, ReturnLocals DEF Layout, CallState
  <2> QED
    BY <2>2, <2>3, <2>4 DEF Layout
<1> QED
  BY <1>1, <1>2

(* kfree changes no block but the free flag of its own. *)
LEMMA KfreeLayout ==
    ASSUME Layout, NEW p \in Addr \cup {NULL}, kfree(p)
    PROVE  Layout'
<1>1. live' \subseteq Addr /\ req' \in [Addr -> Nat] /\ mem' \in [Addr -> Byte]
  BY DEF Layout, TypeOK, kfree
<1>2. ~heap_initialized => live' = {}
  BY DEF Layout, CallState, kfree
<1> QED
  BY <1>1, <1>2, ReleaseLayout DEF kfree, stats

(* kcalloc refuses a product that overflows, or is kmalloc. *)
LEMMA KcallocLayout ==
    ASSUME Layout, NEW m \in Nat, NEW n \in Nat, kcalloc(m, n)
    PROVE  Layout'
<1>1. CASE Overflows(m, n)
  <2>1. UNCHANGED <<heap_initialized, heap_head, magic, fields, locals, caller>>
        /\ UNCHANGED <<total_allocations, total_frees>>
        /\ failed_allocations' = failed_allocations + 1
    BY <1>1 DEF kcalloc
  <2>2. TypeOK'
    BY <2>1 DEF Layout, TypeOK, fields, locals, caller
  <2>3. HeapTiling'
    BY <2>1, SameShape DEF Layout, shape, fields
  <2>4. CallState'
    BY <2>1 DEF Layout, CallState, fields, locals, caller
  <2> QED
    BY <2>2, <2>3, <2>4 DEF Layout
<1>2. CASE ~Overflows(m, n)
  <2>1. m * n \in Nat
    OBVIOUS
  <2>2. total_size(m, n) \in Nat
    BY <2>1, HeapAssumption DEF total_size
  <2>3. kmalloc_aligned(total_size(m, n), HEAP_ALIGNMENT, m * n, NULL) /\ pc = "idle"
    BY <1>2 DEF kcalloc
  <2> QED
    BY <2>1, <2>2, <2>3, AlignedLayout, HeapAssumption
<1> QED
  BY <1>1, <1>2

(* krealloc is kmalloc, kfree, a block that is large enough, or a search. *)
LEMMA KreallocLayout ==
    ASSUME Layout, NEW p \in Addr \cup {NULL}, NEW n \in Nat, krealloc(p, n),
           p \in live \cup {NULL} \/ ~is_valid_block(ptr_to_block(p))
    PROVE  Layout'
<1>1. CASE kmalloc_aligned(n, HEAP_ALIGNMENT, n, NULL)
  BY <1>1, AlignedLayout, HeapAssumption DEF krealloc
<1>2. CASE kfree(p)
  BY <1>2, KfreeLayout
<1>3. CASE UNCHANGED vars
  <2>1. HeapTiling'
    BY <1>3, SameShape DEF Layout, vars, shape, fields
  <2>2. TypeOK' /\ CallState'
    BY <1>3 DEF Layout, TypeOK, CallState, vars, fields, stats, locals, caller
  <2> QED
    BY <2>1, <2>2 DEF Layout
<1>4. CASE /\ req' = [req EXCEPT ![p] = n]
           /\ UNCHANGED <<heap_initialized, heap_head, magic, fields, stats>>
           /\ UNCHANGED <<locals, live, mem>>
  <2>1. HeapTiling'
    BY <1>4, SameShape DEF Layout, shape, fields
  <2>2. TypeOK'
    BY <1>4 DEF Layout, TypeOK, fields, stats, locals
  <2>3. CallState'
    BY <1>4 DEF Layout, CallState, fields, locals
  <2> QED
    BY <2>1, <2>2, <2>3 DEF Layout
<1>5. CASE p # NULL /\ is_valid_block(ptr_to_block(p))
           /\ kmalloc_aligned(n, HEAP_ALIGNMENT, n, p)
  BY <1>5, AlignedLayout, HeapAssumption DEF krealloc
<1> QED
  BY <1>1, <1>2, <1>3, <1>4, <1>5 DEF krealloc

-----------------------------------------------------------------------------
(* The search moves along the list or gives up. *)
LEMMA FindNextLayout ==
    ASSUME Layout, FindNext
    PROVE  Layout'
<1>1. current \in magic /\ current \in Addr
  BY DEF Layout, TypeOK, CallState, FindNext
<1>2. current' = NULL \/ current' \in magic
  BY <1>1 DEF Layout, HeapTiling, NextIsAdjacent, FindNext, Advance
<1>3. TypeOK'
  BY <1>2 DEF Layout, TypeOK, FindNext, fields, stats, caller
<1>4. HeapTiling'
  BY SameShape DEF Layout, FindNext, shape, fields
<1>5. CallState'
  BY <1>2 DEF Layout, CallState, FindNext, fields, caller
<1> QED
  BY <1>3, <1>4, <1>5 DEF Layout

(* The search that has reached the end of the list gives up. *)
LEMMA FindFailLayout ==
    ASSUME Layout, FindFail
    PROVE  Layout'
<1>1. TypeOK'
  BY ReturnLocals DEF Layout, TypeOK, FindFail, fields, caller
<1>2. HeapTiling'
  BY SameShape DEF Layout, FindFail, shape, fields
<1>3. CallState'
  BY ReturnLocals DEF Layout, CallState, FindFail, fields, caller
<1> QED
  BY <1>1, <1>2, <1>3 DEF Layout

(* No header stands strictly inside a block. *)
LEMMA NothingInside ==
    ASSUME Layout, NEW b \in magic, NEW a \in Int, b < a, a < BlockEnd(b)
    PROVE  a \notin magic
<1>1. BlockEnd(b) \in Int
  BY HeapAssumption DEF Layout, TypeOK, BlockEnd, Addr, HEAP_END
<1> QED
  BY <1>1 DEF Layout, HeapTiling, NoOverlap

(* The two pieces of a split: the front keeps its header and shrinks to     *)
(* want, the rest has a header of its own and ends where the block ended.   *)
LEMMA SplitPieces ==
    ASSUME Layout, NEW b \in magic, WorthSplitting(b), split_block(b),
           NEW n, n = block_to_ptr(b) + want
    PROVE  /\ n \in Addr \ magic /\ b < n /\ n < BlockEnd(b)
           /\ magic' = magic \cup {n}
           /\ size' = [size EXCEPT ![n] = size[b] - want - HDR, ![b] = want]
           /\ size[b] - want - HDR \in Nat \ {0}
<1> USE HeapAssumption
<1>1. /\ b \in Addr /\ b \in Int /\ size[b] \in Nat /\ want \in Nat
      /\ BlockEnd(b) <= HEAP_END /\ BlockEnd(b) \in Int
  BY DEF Layout, TypeOK, HeapTiling, InsideHeap, Addr, HEAP_END, BlockEnd
<1>2. n \in Int /\ b < n /\ n < BlockEnd(b) /\ size[b] - want - HDR \in Nat \ {0}
  BY <1>1 DEF WorthSplitting, block_to_ptr, BlockEnd
<1>3. n \in Addr
  BY <1>1, <1>2 DEF Addr, HEAP_END
<1>4. n \notin magic
  BY <1>2, NothingInside
<1>5. \A a \in Payload(b, want) : a \notin magic /\ a # n
  <2> SUFFICES ASSUME NEW a \in Payload(b, want) PROVE a \notin magic /\ a # n
    OBVIOUS
  <2>1. a \in Int /\ b < a /\ a < n
    BY <1>1 DEF Payload, block_to_ptr
  <2>2. a < BlockEnd(b)
    BY <1>1, <1>2, <2>1 DEF BlockEnd
  <2> QED
    BY <2>1, <2>2, NothingInside, <1>2
<1>6. magic' = magic \cup {n}
  BY <1>5 DEF split_block
<1>7. size' = [size EXCEPT ![n] = size[b] - want - HDR, ![b] = want]
  BY DEF split_block
<1> QED
  BY <1>2, <1>3, <1>4, <1>6, <1>7

(* split_block makes two blocks of one and links both neighbours. *)
LEMMA SplitTiling ==
    ASSUME Layout, NEW b \in magic, heap_initialized' = heap_initialized,
           WorthSplitting(b), split_block(b)
    PROVE  HeapTiling'
<1> USE HeapAssumption
<1>0. PICK n : n = block_to_ptr(b) + want
  OBVIOUS
<1>1. /\ n \in Addr \ magic /\ b < n /\ n < BlockEnd(b)
      /\ magic' = magic \cup {n}
      /\ size' = [size EXCEPT ![n] = size[b] - want - HDR, ![b] = want]
      /\ size[b] - want - HDR \in Nat \ {0}
  BY <1>0, SplitPieces
<1>2. b \in Addr /\ magic \subseteq Addr /\ Addr \subseteq Int
      /\ size \in [Addr -> Nat] /\ want \in Nat /\ NULL \notin Addr
      /\ HEAP_START <= b
  BY DEF Layout, TypeOK, Addr, HEAP_END, NULL
<1>3. /\ BlockEnd(b)' = n /\ BlockEnd(n)' = BlockEnd(b)
      /\ \A c \in magic \ {b} : BlockEnd(c)' = BlockEnd(c)
  <2>1. /\ size'[b] = want /\ size'[n] = size[b] - want - HDR
        /\ \A c \in magic \ {b} : size'[c] = size[c]
    BY <1>1, <1>2
  <2> QED
    BY <1>0, <1>1, <1>2, <2>1 DEF BlockEnd, block_to_ptr
<1>4. /\ next'[n] = next[b] /\ next'[b] = n
      /\ \A c \in magic \ {b} : next'[c] = next[c]
  <2>1. next' = [next EXCEPT ![n] = next[b], ![b] = n]
    BY <1>0 DEF split_block, SplitNext
  <2> QED
    BY <2>1, <1>1, <1>2 DEF Layout, TypeOK
<1>5. \A a \in Addr : prev'[a] = IF a = n THEN b ELSE IF a = next[b] THEN n ELSE prev[a]
  BY <1>0 DEF split_block, SplitPrev
<1>6. StartsAtHead'
  BY <1>1, <1>2 DEF Layout, HeapTiling, StartsAtHead
<1>7. InsideHeap'
  <2>1. BlockEnd(b) <= HEAP_END /\ BlockEnd(b) = n + HDR + (size[b] - want - HDR)
    BY <1>0, <1>2 DEF Layout, HeapTiling, InsideHeap, BlockEnd, block_to_ptr
  <2>2. block_to_ptr(n) < HEAP_END
    BY <2>1, <1>1, <1>2 DEF block_to_ptr, HEAP_END, BlockEnd
  <2> QED
    BY <2>1, <2>2, <1>1, <1>2, <1>3
    DEF Layout, HeapTiling, InsideHeap, HEAP_END, BlockEnd, block_to_ptr
<1>8. NoOverlap'
  <2> SUFFICES ASSUME NEW c \in magic', NEW d \in magic', c < d
               PROVE  BlockEnd(c)' <= d
    BY DEF NoOverlap
  <2>1. \A c1, d1 \in magic : c1 < d1 => BlockEnd(c1) <= d1
    BY DEF Layout, HeapTiling, NoOverlap
  <2>2. BlockEnd(b) \in Int /\ b \in Int /\ n \in Int /\ c \in Int /\ d \in Int
    BY <1>1, <1>2 DEF BlockEnd
  <2>3. CASE c = n
    <3>1. d \in magic /\ b < d
      BY <1>1, <2>2, <2>3
    <3>2. BlockEnd(c)' = BlockEnd(b)
      BY <2>3, <1>3
    <3> QED
      BY <2>1, <3>1, <3>2
  <2>4. CASE c = b
    BY <2>1, <2>2, <2>4, <1>1, <1>3
  <2>5. CASE c \in magic \ {b} /\ d = n
    <3>1. c < b
      <4>1. CASE b < c
        <5>1. BlockEnd(b) <= c
          BY <2>1, <2>5, <4>1
        <5> QED
          BY <5>1, <1>1, <2>2, <2>5
      <4> QED
        BY <4>1, <2>2, <2>5
    <3>2. BlockEnd(c) <= b /\ BlockEnd(c) \in Int
      BY <2>1, <2>5, <3>1, <1>2, <2>2 DEF BlockEnd
    <3> QED
      BY <3>2, <1>1, <1>3, <2>2, <2>5
  <2>6. CASE c \in magic \ {b} /\ d \in magic
    BY <2>1, <2>6, <1>3
  <2> QED
    BY <2>3, <2>4, <2>5, <2>6, <1>1
<1>9. NextIsAdjacent'
  <2>1. \A c \in magic : /\ BlockEnd(c) = HEAP_END => next[c] = NULL
                         /\ BlockEnd(c) # HEAP_END =>
                               next[c] = BlockEnd(c) /\ next[c] \in magic
    BY DEF Layout, HeapTiling, NextIsAdjacent
  <2>2. n # HEAP_END
    BY <1>1, <1>2 DEF Addr, HEAP_END
  <2> QED
    <3> SUFFICES ASSUME NEW c \in magic'
                 PROVE  /\ BlockEnd(c)' = HEAP_END => next'[c] = NULL
                        /\ BlockEnd(c)' # HEAP_END =>
                              next'[c] = BlockEnd(c)' /\ next'[c] \in magic'
      BY DEF NextIsAdjacent, HEAP_END
    <3>1. CASE c = n
      BY <3>1, <2>1, <1>1, <1>3, <1>4
    <3>2. CASE c = b
      BY <3>2, <2>2, <1>1, <1>3, <1>4
    <3>3. CASE c \in magic \ {b}
      BY <3>3, <2>1, <1>1, <1>3, <1>4
    <3> QED
      BY <3>1, <3>2, <3>3, <1>1
<1>10. PrevIsInverse'
  <2>1. \A c \in magic : /\ c = HEAP_START => prev[c] = NULL
                         /\ c # HEAP_START =>
                               prev[c] \in magic /\ next[prev[c]] = c
    BY DEF Layout, HeapTiling, PrevIsInverse
  <2> SUFFICES ASSUME NEW c \in magic'
               PROVE  /\ c = HEAP_START => prev'[c] = NULL
                      /\ c # HEAP_START => prev'[c] \in magic' /\ next'[prev'[c]] = c
    BY DEF PrevIsInverse
  <2>2. CASE c = n
    BY <2>2, <1>1, <1>2, <1>4, <1>5
  <2>3. CASE c \in magic /\ c = next[b]
    <3>1. c # HEAP_START
      BY <2>3, <1>2, <1>1 DEF Layout, HeapTiling, NextIsAdjacent, BlockEnd
    <3>2. prev'[c] = n
      BY <2>3, <1>1, <1>2, <1>5
    <3> QED
      BY <2>3, <3>1, <3>2, <1>1, <1>4
  <2>4. CASE c \in magic /\ c # next[b]
    <3>1. prev'[c] = prev[c]
      BY <2>4, <1>1, <1>2, <1>5
    <3>2. c # HEAP_START => prev[c] # b
      BY <2>1, <2>4
    <3> QED
      BY <2>1, <2>4, <3>1, <3>2, <1>1, <1>4
  <2> QED
    BY <2>2, <2>3, <2>4, <1>1
<1> QED
  BY <1>6, <1>7, <1>8, <1>9, <1>10 DEF HeapTiling

(* Clearing the payload of a block touches no header. *)
LEMMA PayloadHoldsNoHeader ==
    ASSUME Layout, NEW b \in magic, size[b] >= want
    PROVE  magic \ Payload(b, want) = magic
<1>1. b \in Int /\ size[b] \in Nat /\ want \in Nat
  BY HeapAssumption DEF Layout, TypeOK, Addr, HEAP_END
<1>2. \A a \in Payload(b, want) : a \in Int /\ b < a /\ a < BlockEnd(b)
  BY <1>1, HeapAssumption DEF Payload, block_to_ptr, BlockEnd
<1> QED
  BY <1>2, NothingInside

(* What FindHit does to the list and to the heap's types. *)
LEMMA TakeShape ==
    ASSUME Layout, FindHit
    PROVE  /\ HeapTiling' /\ magic \subseteq magic' /\ magic' \subseteq Addr
           /\ size' \in [Addr -> Nat] /\ is_free' \in [Addr -> BOOLEAN]
           /\ next' \in [Addr -> Addr \cup {NULL}]
           /\ prev' \in [Addr -> Addr \cup {NULL}]
           /\ mem' \in [Addr -> Byte] /\ ~is_free'[current]
<1>1. /\ current \in magic /\ current \in Addr /\ want \in Nat
      /\ heap_initialized' = heap_initialized /\ heap_head' = heap_head
      /\ size[current] >= want
  BY DEF Layout, TypeOK, CallState, FindHit, Fits
<1>2. CASE WorthSplitting(current) /\ split_block(current)
  <2>0. PICK n : n = block_to_ptr(current) + want
    OBVIOUS
  <2>1. /\ n \in Addr \ magic /\ current < n
        /\ magic' = magic \cup {n}
        /\ size' = [size EXCEPT ![n] = size[current] - want - HDR, ![current] = want]
        /\ size[current] - want - HDR \in Nat
    BY <1>1, <1>2, <2>0, SplitPieces
  <2>2. HeapTiling'
    BY <1>1, <1>2, SplitTiling
  <2>3. size' \in [Addr -> Nat]
    BY <2>1, <1>1 DEF Layout, TypeOK
  <2>4. /\ next' \in [Addr -> Addr \cup {NULL}]
        /\ prev' \in [Addr -> Addr \cup {NULL}]
    <3>1. next' = [next EXCEPT ![n] = next[current], ![current] = n]
      BY <1>2, <2>0 DEF split_block, SplitNext
    <3>2. prev' = [a \in Addr |-> IF a = n THEN current
                                  ELSE IF a = next[current] THEN n ELSE prev[a]]
      BY <1>2, <2>0 DEF split_block, SplitPrev
    <3>3. next' \in [Addr -> Addr \cup {NULL}]
      BY <3>1, <2>1, <1>1 DEF Layout, TypeOK
    <3>4. prev' \in [Addr -> Addr \cup {NULL}]
      BY <3>2, <2>1, <1>1 DEF Layout, TypeOK
    <3> QED
      BY <3>3, <3>4
  <2>5. is_free' \in [Addr -> BOOLEAN] /\ ~is_free'[current]
    <3>1. is_free' = [is_free EXCEPT ![n] = TRUE, ![current] = FALSE]
      BY <1>2, <2>0 DEF split_block
    <3> QED
      BY <3>1, <1>1 DEF Layout, TypeOK
  <2>6. mem' \in [Addr -> Byte]
    BY <1>2 DEF Layout, TypeOK, split_block, Byte
  <2> QED
    BY <2>1, <2>2, <2>3, <2>4, <2>5, <2>6 DEF Layout, TypeOK
<1>3. CASE TakeWhole(current)
  <2>1. magic' = magic /\ UNCHANGED <<size, next, prev>>
    BY <1>1, <1>3, PayloadHoldsNoHeader DEF TakeWhole
  <2>2. HeapTiling'
    BY <2>1, <1>1, SameShape DEF Layout, shape
  <2>3. is_free' \in [Addr -> BOOLEAN] /\ ~is_free'[current]
    BY <1>1, <1>3 DEF Layout, TypeOK, TakeWhole
  <2>4. mem' \in [Addr -> Byte]
    BY <1>3 DEF Layout, TypeOK, TakeWhole, Store, Byte
  <2> QED
    BY <2>1, <2>2, <2>3, <2>4 DEF Layout, TypeOK
<1> QED
  BY <1>2, <1>3 DEF FindHit

(* A block's payload starts inside the heap. *)
LEMMA PtrInHeap ==
    ASSUME Layout, NEW b \in magic
    PROVE  block_to_ptr(b) \in Addr
BY HeapAssumption DEF Layout, TypeOK, HeapTiling, InsideHeap, block_to_ptr, Addr, HEAP_END

(* The search takes the block it stands at, split or whole. *)
LEMMA FindHitLayout ==
    ASSUME Layout, FindHit
    PROVE  Layout'
<1>1. /\ HeapTiling' /\ magic \subseteq magic' /\ magic' \subseteq Addr
      /\ size' \in [Addr -> Nat] /\ is_free' \in [Addr -> BOOLEAN]
      /\ next' \in [Addr -> Addr \cup {NULL}]
      /\ prev' \in [Addr -> Addr \cup {NULL}]
      /\ mem' \in [Addr -> Byte] /\ ~is_free'[current]
  BY TakeShape
<1>2. /\ current \in magic /\ heap_initialized
      /\ UNCHANGED <<heap_initialized, heap_head, total_frees, failed_allocations>>
      /\ total_allocations' = total_allocations + 1
  BY DEF Layout, CallState, FindHit
<1>0. block_to_ptr(current) \in Addr
  BY <1>2, PtrInHeap
<1>3. CASE /\ old = NULL
           /\ live' = live \cup {block_to_ptr(current)}
           /\ req' = [req EXCEPT ![block_to_ptr(current)] = request]
           /\ Return
  <2>1. TypeOK'
    BY <1>0, <1>1, <1>2, <1>3, ReturnLocals DEF Layout, TypeOK
  <2>2. CallState'
    BY <1>2, <1>3, ReturnLocals DEF CallState
  <2> QED
    BY <1>1, <2>1, <2>2 DEF Layout
<1>4. CASE /\ old # NULL /\ pc' = "copy"
           /\ UNCHANGED <<current, want, request, old, live, req>>
  <2>1. TypeOK'
    BY <1>1, <1>2, <1>4 DEF Layout, TypeOK
  <2>2. CallState'
    BY <1>1, <1>2, <1>4 DEF Layout, CallState, FindHit
  <2> QED
    BY <1>1, <2>1, <2>2 DEF Layout
<1> QED
  BY <1>3, <1>4 DEF FindHit, Grant

(* krealloc's copy: the new pointer joins the live ones, the old one leaves. *)
LEMMA CopyAndFreeLayout ==
    ASSUME Layout, LiveIsUsed, CopyAndFree, Reached(Moved) = {}
    PROVE  Layout'
<1>1. /\ current \in magic /\ heap_initialized /\ old \in Addr
      /\ old \in Addr \cup {NULL} /\ old \in live
      /\ UNCHANGED <<heap_initialized, heap_head, magic, size, next, prev, stats>>
      /\ ReleaseBlock(old)
  BY DEF Layout, TypeOK, CallState, CopyAndFree
<1>2. block_to_ptr(current) \in Addr
  BY <1>1, PtrInHeap
<1>3. live' \subseteq Addr /\ req' \in [Addr -> Nat]
  BY <1>1, <1>2 DEF Layout, TypeOK, CopyAndFree, new_ptr
<1>4. mem' \in [Addr -> Byte]
  <2>1. ptr_to_block(old) \in Int /\ old \in Int /\ current \in Int
    BY <1>1, HeapAssumption DEF Layout, TypeOK, Addr, HEAP_END, ptr_to_block
  <2>2. ptr_to_block(old) \in magic
    BY <1>1 DEF LiveIsUsed, Used
  <2>3. size[ptr_to_block(old)] \in Nat /\ BlockEnd(ptr_to_block(old)) <= HEAP_END
    BY <2>2 DEF Layout, TypeOK, HeapTiling, InsideHeap
  <2>4. ASSUME NEW a \in Addr,
               a \in block_to_ptr(current) ..
                     block_to_ptr(current) + size[ptr_to_block(old)] - 1
        PROVE  old + (a - block_to_ptr(current)) \in Addr
    BY <1>1, <2>1, <2>3, <2>4, HeapAssumption
    DEF Addr, HEAP_END, BlockEnd, block_to_ptr, ptr_to_block
  <2> QED
    BY <2>4 DEF Layout, TypeOK, CopyAndFree, Moved, new_ptr
<1> QED
  BY <1>1, <1>3, <1>4, ReleaseLayout

-----------------------------------------------------------------------------
(* Absorbing the next block: the list loses one header, and the block that  *)
(* absorbs ends where the absorbed one ended.                               *)
LEMMA AbsorbNextLayout ==
    ASSUME Layout, AbsorbNext
    PROVE  Layout'
<1> USE HeapAssumption
<1>0. PICK b, n : b = current /\ n = next[current]
  OBVIOUS
<1>1. /\ b \in magic /\ n \in magic /\ n = BlockEnd(b) /\ pc = "coalesce"
      /\ is_free[b]
  BY <1>0 DEF Layout, HeapTiling, NextIsAdjacent, CallState, AbsorbNext, Absorbable,
              is_valid_block
<1>2. /\ magic \subseteq Addr /\ Addr \subseteq Int /\ NULL \notin Addr
      /\ size \in [Addr -> Nat] /\ HEAP_START <= b /\ b \in Int
  BY <1>1 DEF Layout, TypeOK, Addr, HEAP_END, NULL
<1>3. /\ magic' = magic \ {n}
      /\ size' = [size EXCEPT ![b] = size[b] + HDR + size[n]]
      /\ next' = [next EXCEPT ![b] = next[n]]
      /\ prev' = [a \in Addr |-> IF a = next[n] THEN b ELSE prev[a]]
      /\ UNCHANGED <<heap_initialized, heap_head, is_free, stats, locals, caller>>
  BY <1>0 DEF AbsorbNext, MergedSize
<1>4. b < n /\ n \in Int /\ BlockEnd(n) \in Int
  BY <1>1, <1>2 DEF BlockEnd
<1>5. TypeOK'
  <2>1. size[b] + HDR + size[n] \in Nat /\ b \in Addr /\ n \in Addr
    BY <1>1, <1>2
  <2>2. size' \in [Addr -> Nat]
    BY <2>1, <1>2, <1>3
  <2>3. next' \in [Addr -> Addr \cup {NULL}] /\ prev' \in [Addr -> Addr \cup {NULL}]
    BY <2>1, <1>3 DEF Layout, TypeOK
  <2> QED
    BY <2>2, <2>3, <1>3 DEF Layout, TypeOK, stats, locals, caller
<1>6. /\ BlockEnd(b)' = BlockEnd(n)
      /\ \A c \in magic \ {b} : BlockEnd(c)' = BlockEnd(c)
  <2>1. /\ size'[b] = size[b] + HDR + size[n]
        /\ \A c \in magic \ {b} : size'[c] = size[c]
    BY <1>1, <1>2, <1>3
  <2> QED
    BY <1>1, <1>2, <2>1 DEF BlockEnd
<1>7. /\ next'[b] = next[n]
      /\ \A c \in magic \ {b} : next'[c] = next[c]
  BY <1>1, <1>2, <1>3 DEF Layout, TypeOK
<1>8. StartsAtHead'
  BY <1>1, <1>2, <1>3, <1>4 DEF Layout, HeapTiling, StartsAtHead
<1>9. InsideHeap'
  BY <1>1, <1>3, <1>6 DEF Layout, HeapTiling, InsideHeap, HEAP_END, block_to_ptr
<1>10. \A c, d \in magic : c < d => BlockEnd(c) <= d
  BY DEF Layout, HeapTiling, NoOverlap
<1>11. NoOverlap'
  <2> SUFFICES ASSUME NEW c \in magic', NEW d \in magic', c < d
               PROVE  BlockEnd(c)' <= d
    BY DEF NoOverlap
  <2>1. c \in magic /\ d \in magic /\ c \in Int /\ d \in Int /\ d # n
    BY <1>2, <1>3
  <2>2. CASE c = b
    <3>1. n < d
      <4>1. n <= d
        BY <1>1, <1>10, <2>1, <2>2
      <4> QED
        BY <4>1, <1>4, <2>1
    <3> QED
      BY <3>1, <2>1, <2>2, <1>1, <1>6, <1>10
  <2>3. CASE c # b
    BY <2>1, <2>3, <1>6, <1>10
  <2> QED
    BY <2>2, <2>3
<1>12. \A c \in magic : /\ BlockEnd(c) = HEAP_END => next[c] = NULL
                        /\ BlockEnd(c) # HEAP_END =>
                              next[c] = BlockEnd(c) /\ next[c] \in magic
  BY DEF Layout, HeapTiling, NextIsAdjacent
<1>13. \A c \in magic : /\ c = HEAP_START => prev[c] = NULL
                        /\ c # HEAP_START => prev[c] \in magic /\ next[prev[c]] = c
  BY DEF Layout, HeapTiling, PrevIsInverse
<1>14. prev[n] = b
  <2>1. n # HEAP_START
    BY <1>2, <1>4
  <2>2. prev[n] \in magic /\ next[prev[n]] = n
    BY <1>1, <1>13, <2>1
  <2>3. PICK c : c = prev[n]
    OBVIOUS
  <2>4. BlockEnd(c) = n /\ c \in magic /\ c \in Int
    BY <1>1, <1>2, <1>12, <2>2, <2>3
  <2>5. ~(c < b) /\ ~(b < c)
    <3>1. BlockEnd(c) > c
      BY <2>4, <1>2 DEF BlockEnd
    <3> QED
      BY <3>1, <1>1, <1>2, <1>4, <1>10, <2>4
  <2> QED
    BY <2>3, <2>4, <2>5, <1>2
<1>15. NextIsAdjacent'
  <2> SUFFICES ASSUME NEW c \in magic'
               PROVE  /\ BlockEnd(c)' = HEAP_END => next'[c] = NULL
                      /\ BlockEnd(c)' # HEAP_END =>
                            next'[c] = BlockEnd(c)' /\ next'[c] \in magic'
    BY DEF NextIsAdjacent, HEAP_END
  <2>1. CASE c = b
    <3>1. BlockEnd(n) > n
      BY <1>1, <1>2, <1>4 DEF BlockEnd
    <3> QED
      BY <3>1, <2>1, <1>1, <1>3, <1>4, <1>6, <1>7, <1>12
  <2>2. CASE c # b
    <3>1. c \in magic \ {b} /\ c # n
      BY <2>2, <1>3
    <3>2. next[c] # n
      <4>1. CASE next[c] = n
        <5>1. BlockEnd(c) = n
          BY <3>1, <4>1, <1>1, <1>2, <1>12
        <5>2. c \in Int /\ BlockEnd(c) > c
          BY <3>1, <1>2 DEF BlockEnd
        <5> QED
          BY <5>1, <5>2, <3>1, <1>1, <1>2, <1>4, <1>10
      <4> QED
        BY <4>1
    <3> QED
      BY <3>1, <3>2, <1>3, <1>6, <1>7, <1>12
  <2> QED
    BY <2>1, <2>2
<1>16. PrevIsInverse'
  <2> SUFFICES ASSUME NEW c \in magic'
               PROVE  /\ c = HEAP_START => prev'[c] = NULL
                      /\ c # HEAP_START => prev'[c] \in magic' /\ next'[prev'[c]] = c
    BY DEF PrevIsInverse
  <2>1. c \in magic /\ c # n /\ c \in Addr
    BY <1>2, <1>3
  <2>2. CASE c = next[n]
    <3>1. BlockEnd(n) = c
      BY <2>1, <2>2, <1>1, <1>2, <1>12
    <3>2. c # HEAP_START
      BY <3>1, <1>1, <1>2, <1>4 DEF BlockEnd
    <3>3. prev'[c] = b
      BY <2>1, <2>2, <1>3
    <3> QED
      BY <2>2, <3>2, <3>3, <1>1, <1>3, <1>4, <1>7
  <2>3. CASE c # next[n]
    <3>1. prev'[c] = prev[c]
      BY <2>1, <2>3, <1>3
    <3>2. c # HEAP_START => prev[c] # n
      BY <2>1, <2>3, <1>13
    <3>3. c # HEAP_START => prev[c] # b
      BY <2>1, <1>0, <1>13
    <3> QED
      BY <2>1, <3>1, <3>2, <3>3, <1>3, <1>7, <1>13
  <2> QED
    BY <2>2, <2>3
<1>17. CallState'
  BY <1>1, <1>3, <1>4, <1>0 DEF Layout, CallState, locals, caller
<1> QED
  BY <1>5, <1>8, <1>9, <1>11, <1>15, <1>16, <1>17 DEF Layout, HeapTiling

(* coalesce_free_blocks steps back to the free block before. *)
LEMMA CoalescePrevLayout ==
    ASSUME Layout, CoalescePrev
    PROVE  Layout'
<1>1. /\ current \in magic /\ is_free[prev[current]] /\ prev[current] # NULL
      /\ current' = prev[current] /\ pc' = pc /\ pc = "coalesce"
      /\ UNCHANGED <<heap_initialized, heap_head, magic, fields, stats, caller>>
      /\ UNCHANGED <<want, request, old>>
  BY DEF Layout, CallState, CoalescePrev, FreePrev
<1>2. prev[current] \in magic
  BY <1>1 DEF Layout, HeapTiling, PrevIsInverse
<1>3. TypeOK'
  BY <1>1, <1>2 DEF Layout, TypeOK, fields, stats, caller
<1>4. HeapTiling'
  BY <1>1, SameShape DEF Layout, shape, fields
<1>5. CallState'
  BY <1>1, <1>2 DEF Layout, CallState, fields, caller
<1> QED
  BY <1>3, <1>4, <1>5 DEF Layout

(* kfree returns. *)
LEMMA FreeDoneLayout ==
    ASSUME Layout, FreeDone
    PROVE  Layout'
<1>1. TypeOK'
  BY ReturnLocals DEF Layout, TypeOK, FreeDone, fields, caller
<1>2. HeapTiling'
  BY SameShape DEF Layout, FreeDone, shape, fields
<1>3. CallState'
  BY ReturnLocals DEF Layout, CallState, FreeDone, fields, caller
<1> QED
  BY <1>1, <1>2, <1>3 DEF Layout

(* A caller writes its own bytes, no header. *)
LEMMA CallerWriteLayout ==
    ASSUME Layout, NEW p \in live, CallerWrite(p), Reached(Asked(p)) = {}
    PROVE  Layout'
<1>1. TypeOK'
  BY DEF Layout, TypeOK, CallerWrite, Store, Byte, fields, stats, locals
<1>2. HeapTiling'
  BY SameShape DEF Layout, CallerWrite, shape, fields
<1>3. CallState'
  BY DEF Layout, CallState, CallerWrite, fields, locals
<1> QED
  BY <1>1, <1>2, <1>3 DEF Layout

-----------------------------------------------------------------------------
(* LiveIsUsed, one pointer and one block at a time. *)
Owners ==
    /\ \A p \in live : /\ ptr_to_block(p) \in magic
                       /\ ~is_free[ptr_to_block(p)]
                       /\ pc = "copy" => ptr_to_block(p) # current
    /\ \A b \in magic : ~is_free[b] =>
          block_to_ptr(b) \in live \/ (pc = "copy" /\ b = current)
    /\ pc = "copy" => current \in magic /\ ~is_free[current]

(* The header and the pointer behind it determine each other. *)
LEMMA PtrAndBlock ==
    /\ \A p \in Int : ptr_to_block(p) \in Int /\ block_to_ptr(ptr_to_block(p)) = p
    /\ \A b \in Int : block_to_ptr(b) \in Int /\ ptr_to_block(block_to_ptr(b)) = b
BY HeapAssumption DEF ptr_to_block, block_to_ptr

(* Each pointer has its used block, and each used block its pointer. *)
LEMMA OwnersIsLiveIsUsed ==
    ASSUME Layout
    PROVE  Owners <=> LiveIsUsed
<1>1. live \subseteq Int /\ magic \subseteq Int
  BY HeapAssumption DEF Layout, TypeOK, Addr, HEAP_END
<1>2. ASSUME Owners PROVE LiveIsUsed
  <2>1. ASSUME NEW b \in Used
        PROVE  b \in {ptr_to_block(p) : p \in live} \cup InTransit
    BY <1>1, <1>2, PtrAndBlock DEF Used, Owners, InTransit
  <2> QED
    BY <1>2, <2>1 DEF Owners, LiveIsUsed, Used, InTransit
<1>3. ASSUME LiveIsUsed PROVE Owners
  <2>1. ASSUME NEW p \in live
        PROVE  /\ ptr_to_block(p) \in magic /\ ~is_free[ptr_to_block(p)]
               /\ pc = "copy" => ptr_to_block(p) # current
    BY <1>3 DEF LiveIsUsed, Used, InTransit
  <2>2. ASSUME NEW b \in magic, ~is_free[b]
        PROVE  block_to_ptr(b) \in live \/ (pc = "copy" /\ b = current)
    <3>1. b \in {ptr_to_block(p) : p \in live} \cup InTransit
      BY <1>3, <2>2 DEF LiveIsUsed, Used
    <3>2. CASE b \in InTransit
      BY <3>2 DEF InTransit
    <3>3. CASE \E p \in live : b = ptr_to_block(p)
      BY <3>3, <1>1, PtrAndBlock
    <3> QED
      BY <3>1, <3>2, <3>3
  <2>3. pc = "copy" => current \in magic /\ ~is_free[current]
    BY <1>3 DEF LiveIsUsed, Used, InTransit
  <2> QED
    BY <2>1, <2>2, <2>3 DEF Owners
<1> QED
  BY <1>2, <1>3

(* Ownership survives whatever moves neither a flag nor a pointer. *)
LEMMA OwnersSame ==
    ASSUME Owners, UNCHANGED <<magic, is_free, live>>, pc # "copy", pc' # "copy"
    PROVE  Owners'
BY DEF Owners

(* A live pointer can always be freed. *)
LEMMA LiveReleasable ==
    ASSUME Layout, Owners, NEW p \in live
    PROVE  Releasable(p)
BY HeapAssumption DEF Layout, TypeOK, CallState, Owners, Releasable, is_valid_block,
   Addr, HEAP_END, NULL

(* kfree frees the block of the pointer it takes back. *)
LEMMA KfreeOwners ==
    ASSUME Layout, Owners, NEW p \in Addr \cup {NULL}, kfree(p)
    PROVE  Owners'
<1>1. pc = "idle" /\ live' = live \ {p} /\ magic' = magic /\ ReleaseBlock(p)
  BY DEF kfree
<1>2. CASE Releasable(p)
  <2>1. /\ is_free' = [is_free EXCEPT ![ptr_to_block(p)] = TRUE]
        /\ pc' = "coalesce" /\ ptr_to_block(p) \in magic
    BY <1>1, <1>2 DEF ReleaseBlock, Releasable, is_valid_block
  <2>2. live \subseteq Int /\ magic \subseteq Addr /\ magic \subseteq Int /\ p \in Int
    BY HeapAssumption DEF Layout, TypeOK, Addr, HEAP_END, NULL
  <2>3. \A b \in magic : is_free'[b] = (b = ptr_to_block(p) \/ is_free[b])
    BY <2>1, <2>2 DEF Layout, TypeOK
  <2>4. \A q \in live \ {p} : ptr_to_block(q) # ptr_to_block(p)
    BY <2>2, PtrAndBlock
  <2>5. \A b \in magic : b # ptr_to_block(p) => block_to_ptr(b) # p
    BY <2>2, PtrAndBlock
  <2> QED
    BY <1>1, <2>1, <2>3, <2>4, <2>5 DEF Owners
<1>3. CASE ~Releasable(p)
  <2>1. p \notin live
    BY <1>3, LiveReleasable
  <2>2. pc' = "idle" /\ is_free' = is_free
    BY <1>1, <1>3 DEF ReleaseBlock, Return
  <2> QED
    BY <1>1, <2>1, <2>2 DEF Owners
<1> QED
  BY <1>2, <1>3

(* After a block is taken it is used, and the rest of a split is free. *)
LEMMA TakeFree ==
    ASSUME Layout, FindHit
    PROVE  /\ current \in magic /\ magic \subseteq magic' /\ ~is_free'[current]
           /\ \A b \in magic' : b # current => is_free'[b] = (b \notin magic \/ is_free[b])
<1>1. /\ current \in magic /\ current \in Addr /\ size[current] >= want
  BY DEF Layout, TypeOK, CallState, FindHit, Fits
<1>2. magic \subseteq magic' /\ ~is_free'[current] /\ magic' \subseteq Addr
  BY TakeShape
<1>3. CASE WorthSplitting(current) /\ split_block(current)
  <2>0. PICK n : n = block_to_ptr(current) + want
    OBVIOUS
  <2>1. n \in Addr \ magic /\ magic' = magic \cup {n}
    BY <1>1, <1>3, <2>0, SplitPieces
  <2>2. is_free' = [is_free EXCEPT ![n] = TRUE, ![current] = FALSE]
    BY <1>3, <2>0 DEF split_block
  <2>3. \A b \in magic' : b # current => is_free'[b] = (b \notin magic \/ is_free[b])
    BY <1>1, <2>1, <2>2 DEF Layout, TypeOK
  <2> QED
    BY <1>1, <1>2, <2>3
<1>4. CASE TakeWhole(current)
  <2>1. magic' = magic /\ is_free' = [is_free EXCEPT ![current] = FALSE]
    BY <1>1, <1>4, PayloadHoldsNoHeader DEF TakeWhole
  <2>2. \A b \in magic' : b # current => is_free'[b] = (b \notin magic \/ is_free[b])
    BY <2>1 DEF Layout, TypeOK
  <2> QED
    BY <1>1, <1>2, <2>2
<1> QED
  BY <1>3, <1>4 DEF FindHit

(* The block that is taken gets its owner as kmalloc returns. *)
LEMMA FindHitOwners ==
    ASSUME Layout, Owners, FindHit
    PROVE  Owners'
<1>1. /\ current \in magic /\ magic \subseteq magic' /\ ~is_free'[current]
      /\ \A b \in magic' : b # current => is_free'[b] = (b \notin magic \/ is_free[b])
  BY TakeFree
<1>2. pc = "find" /\ is_free[current] /\ live \subseteq Int /\ current \in Int
  BY <1>1, HeapAssumption DEF FindHit, Fits, Layout, TypeOK, Addr, HEAP_END
<1>3. \A p \in live : ptr_to_block(p) \in magic /\ ptr_to_block(p) # current
  BY <1>2 DEF Owners
<1>4. CASE /\ old = NULL /\ live' = live \cup {block_to_ptr(current)}
           /\ pc' = "idle"
  <2>1. ptr_to_block(block_to_ptr(current)) = current
    BY <1>2, PtrAndBlock
  <2> QED
    BY <1>1, <1>2, <1>3, <1>4, <2>1 DEF Owners
<1>5. CASE pc' = "copy" /\ UNCHANGED <<current, live>>
  BY <1>1, <1>2, <1>3, <1>5 DEF Owners
<1> QED
  BY <1>4, <1>5 DEF FindHit, Grant, Return

(* krealloc moves the owner to the new block and frees the old one. *)
LEMMA CopyAndFreeOwners ==
    ASSUME Layout, Owners, CopyAndFree, Reached(Moved) = {}
    PROVE  Owners'
<1>1. /\ pc = "copy" /\ old \in live /\ current \in magic /\ ~is_free[current]
      /\ magic' = magic
      /\ live' = (live \ {old}) \cup {block_to_ptr(current)}
      /\ ReleaseBlock(old)
  BY DEF Layout, CallState, CopyAndFree, new_ptr
<1>2. /\ is_free' = [is_free EXCEPT ![ptr_to_block(old)] = TRUE]
      /\ pc' = "coalesce"
  BY <1>1, LiveReleasable DEF ReleaseBlock
<1>3. live \subseteq Int /\ magic \subseteq Int /\ magic \subseteq Addr
  BY HeapAssumption DEF Layout, TypeOK, Addr, HEAP_END
<1>4. ptr_to_block(old) \in magic /\ ptr_to_block(old) # current
  BY <1>1 DEF Owners
<1>5. \A b \in magic : is_free'[b] = (b = ptr_to_block(old) \/ is_free[b])
  BY <1>2, <1>3 DEF Layout, TypeOK
<1>6. \A q \in live \ {old} : ptr_to_block(q) # ptr_to_block(old)
  BY <1>1, <1>3, PtrAndBlock
<1>7. \A b \in magic : b # ptr_to_block(old) => block_to_ptr(b) # old
  BY <1>1, <1>3, PtrAndBlock
<1>8. ptr_to_block(block_to_ptr(current)) = current
  BY <1>1, <1>3, PtrAndBlock
<1> QED
  BY <1>1, <1>2, <1>4, <1>5, <1>6, <1>7, <1>8 DEF Owners

(* Only a free block is absorbed. *)
LEMMA AbsorbNextOwners ==
    ASSUME Layout, Owners, AbsorbNext
    PROVE  Owners'
<1>1. /\ is_free[next[current]] /\ magic' = magic \ {next[current]}
      /\ pc = "coalesce" /\ UNCHANGED <<pc, is_free, live>>
  BY DEF AbsorbNext, Absorbable, locals, caller
<1> QED
  BY <1>1 DEF Owners

-----------------------------------------------------------------------------
(* Two blocks have different neighbours. *)
LEMMA NextInjective ==
    ASSUME Layout, NEW b \in magic, NEW c \in magic, next[b] = next[c], next[b] # NULL
    PROVE  b = c
<1>1. /\ b \in Int /\ c \in Int /\ BlockEnd(b) \in Int /\ BlockEnd(c) \in Int
      /\ b < BlockEnd(b) /\ c < BlockEnd(c)
  <2>1. b \in Int /\ c \in Int /\ size[b] \in Nat /\ size[c] \in Nat
    BY HeapAssumption DEF Layout, TypeOK, Addr, HEAP_END
  <2> QED
    BY <2>1, HeapAssumption DEF BlockEnd
<1>2. BlockEnd(b) = BlockEnd(c)
  BY DEF Layout, HeapTiling, NextIsAdjacent
<1>3. ~(b < c) /\ ~(c < b)
  BY <1>1, <1>2 DEF Layout, HeapTiling, NoOverlap
<1> QED
  BY <1>1, <1>3

(* Outside coalesce_blocks no two neighbours are free, and an action that   *)
(* leaves flags and links alone keeps it so.                                *)
LEMMA FreeSame ==
    ASSUME NoAdjacentFree, UNCHANGED <<magic, is_free, next>>, pc # "coalesce"
    PROVE  NoAdjacentFree'
BY DEF NoAdjacentFree

(* Marking one block free puts it in every new pair of free neighbours. *)
LEMMA ReleaseNoAdjacentFree ==
    ASSUME Layout, NoAdjacentFree, NEW p, pc # "coalesce", ReleaseBlock(p),
           UNCHANGED <<magic, next>>
    PROVE  NoAdjacentFree'
<1>1. CASE Releasable(p)
  <2>1. /\ is_free' = [is_free EXCEPT ![ptr_to_block(p)] = TRUE]
        /\ pc' = "coalesce" /\ current' = ptr_to_block(p)
    BY <1>1 DEF ReleaseBlock
  <2>2. \A a \in Addr : a # ptr_to_block(p) => is_free'[a] = is_free[a]
    BY <2>1 DEF Layout, TypeOK
  <2>3. \A b \in magic : b \in Addr /\ (next[b] # NULL => next[b] \in Addr)
    BY DEF Layout, TypeOK
  <2> QED
    BY <2>1, <2>2, <2>3 DEF NoAdjacentFree
<1>2. CASE ~Releasable(p)
  BY <1>2, FreeSame DEF ReleaseBlock
<1> QED
  BY <1>1, <1>2

(* Taking a free block, whole or its front, makes no two free blocks meet. *)
LEMMA FindHitNoAdjacentFree ==
    ASSUME Layout, NoAdjacentFree, FindHit
    PROVE  NoAdjacentFree'
<1>1. /\ current \in magic /\ magic \subseteq magic' /\ ~is_free'[current]
      /\ \A b \in magic' : b # current => is_free'[b] = (b \notin magic \/ is_free[b])
  BY TakeFree
<1>2. /\ pc = "find" /\ is_free[current] /\ current \in Addr /\ size[current] >= want
  BY <1>1 DEF FindHit, Fits, Layout, TypeOK
<1>3. \A b \in magic : next[b] # NULL => next[b] \in magic
  BY DEF Layout, HeapTiling, NextIsAdjacent
<1>4. \A b \in magic : next[b] # NULL => ~is_free[b] \/ ~is_free[next[b]]
  BY <1>2 DEF NoAdjacentFree
<1>5. CASE WorthSplitting(current) /\ split_block(current)
  <2>0. PICK n : n = block_to_ptr(current) + want
    OBVIOUS
  <2>1. n \in Addr \ magic /\ magic' = magic \cup {n} /\ n # current
    BY <1>1, <1>5, <2>0, SplitPieces
  <2>2. next' = [next EXCEPT ![n] = next[current], ![current] = n]
    BY <1>5, <2>0 DEF split_block, SplitNext
  <2>3. /\ next'[n] = next[current]
        /\ \A b \in magic \ {current} : next'[b] = next[b]
    BY <1>2, <2>1, <2>2 DEF Layout, TypeOK
  <2>4. ASSUME NEW b \in magic', next'[b] # NULL, is_free'[b], is_free'[next'[b]]
        PROVE  FALSE
    <3>1. CASE b = n
      <4>1. next[current] \in magic /\ next[current] # n
        BY <3>1, <2>3, <2>4, <2>1, <1>1, <1>3
      <4> QED
        BY <3>1, <4>1, <2>3, <2>4, <1>1, <1>2, <1>4
    <3>2. CASE b # n
      <4>1. b \in magic /\ b # current /\ next'[b] = next[b] /\ next[b] \in magic
        BY <3>2, <2>1, <2>3, <2>4, <1>1, <1>3
      <4> QED
        BY <4>1, <2>4, <1>1, <1>4
    <3> QED
      BY <3>1, <3>2
  <2> QED
    BY <2>4 DEF NoAdjacentFree
<1>6. CASE TakeWhole(current)
  <2>1. magic' = magic /\ next' = next
    BY <1>1, <1>2, <1>6, PayloadHoldsNoHeader DEF TakeWhole
  <2> QED
    BY <2>1, <1>1, <1>3, <1>4 DEF NoAdjacentFree
<1> QED
  BY <1>5, <1>6 DEF FindHit

(* Absorbing the next block may leave one free neighbour, still under way. *)
LEMMA AbsorbNextNoAdjacentFree ==
    ASSUME Layout, NoAdjacentFree, AbsorbNext
    PROVE  NoAdjacentFree'
<1>1. /\ pc' = "coalesce" /\ pc = "coalesce" /\ current' = current /\ is_free' = is_free
      /\ magic' \subseteq magic
      /\ next' = [next EXCEPT ![current] = next[next[current]]]
  BY DEF AbsorbNext, locals
<1>2. \A b \in magic : b # current => next'[b] = next[b]
  BY <1>1 DEF Layout, TypeOK
<1> QED
  BY <1>1, <1>2 DEF NoAdjacentFree

(* Once the next block is not absorbable, a free pair can only be the block *)
(* and its predecessor.                                                     *)
LEMMA OnlyPrevIsFree ==
    ASSUME Layout, NoAdjacentFree, pc = "coalesce", ~Absorbable(current),
           NEW b \in magic, next[b] # NULL, is_free[b], is_free[next[b]]
    PROVE  next[b] = current /\ prev[current] = b
<1>1. current \in magic
  BY DEF Layout, CallState
<1>2. next[current] # NULL => ~is_free[next[current]]
  BY <1>1 DEF Layout, HeapTiling, NextIsAdjacent, Absorbable, is_valid_block
<1>3. next[b] = current
  BY <1>2 DEF NoAdjacentFree
<1>4. current # HEAP_START
  <2>1. b \in Int /\ HEAP_START <= b /\ BlockEnd(b) > b /\ next[b] = BlockEnd(b)
    BY HeapAssumption DEF Layout, TypeOK, HeapTiling, NextIsAdjacent, Addr, HEAP_END, BlockEnd
  <2> QED
    BY <2>1, <1>3, HeapAssumption
<1>5. prev[current] \in magic /\ next[prev[current]] = current
  BY <1>1, <1>4 DEF Layout, HeapTiling, PrevIsInverse
<1> QED
  BY <1>3, <1>5, NextInjective

(* Coalescing goes on at the free block before. *)
LEMMA CoalescePrevNoAdjacentFree ==
    ASSUME Layout, NoAdjacentFree, CoalescePrev
    PROVE  NoAdjacentFree'
<1>1. /\ pc = "coalesce" /\ pc' = "coalesce" /\ ~Absorbable(current)
      /\ current' = prev[current] /\ UNCHANGED <<magic, is_free, next>>
  BY DEF CoalescePrev, fields
<1> QED
  BY <1>1, OnlyPrevIsFree DEF NoAdjacentFree

(* kfree returns when no neighbour is free. *)
LEMMA FreeDoneNoAdjacentFree ==
    ASSUME Layout, NoAdjacentFree, FreeDone
    PROVE  NoAdjacentFree'
<1>1. /\ pc = "coalesce" /\ ~Absorbable(current) /\ ~FreePrev(current)
      /\ UNCHANGED <<magic, is_free, next>>
  BY DEF FreeDone, fields
<1>2. NULL \notin magic
  BY HeapAssumption DEF Layout, TypeOK, Addr, NULL
<1>3. ASSUME NEW b \in magic, next[b] # NULL, is_free[b], is_free[next[b]]
      PROVE  FALSE
  BY <1>1, <1>2, <1>3, OnlyPrevIsFree DEF FreePrev
<1> QED
  BY <1>1, <1>3 DEF NoAdjacentFree

-----------------------------------------------------------------------------
(* The search starts at the lowest block and passes only blocks that do not *)
(* fit.                                                                     *)
LEMMA AlignedNothingSkipped ==
    ASSUME Layout, NEW n, NEW al, NEW asked, NEW p,
           pc = "idle", kmalloc_aligned(n, al, asked, p)
    PROVE  NothingSkipped'
<1>1. pc' = "find" => current' = HEAP_START
  BY DEF Layout, TypeOK, kmalloc_aligned, locals
<1>2. magic' = magic /\ HEAP_START # NULL /\ \A b \in magic : HEAP_START <= b
  BY HeapAssumption DEF Layout, TypeOK, kmalloc_aligned, Addr, NULL
<1> QED
  BY <1>1, <1>2 DEF NothingSkipped

(* The search goes past a block that does not fit. *)
LEMMA FindNextNothingSkipped ==
    ASSUME Layout, NothingSkipped, FindNext
    PROVE  NothingSkipped'
<1>1. /\ current \in magic /\ ~Fits(current) /\ current' = next[current] /\ pc = "find"
      /\ UNCHANGED <<magic, size, is_free, want>>
  BY DEF Layout, CallState, FindNext, Advance, fields
<1> SUFFICES ASSUME NEW b \in magic, Fits(b)
             PROVE  current' # NULL /\ current' <= b
  BY <1>1 DEF NothingSkipped, Fits
<1>2. b \in Int /\ current \in Int /\ b < HEAP_END /\ NULL \notin magic
  BY <1>1, HeapAssumption DEF Layout, TypeOK, Addr, HEAP_END, NULL
<1>3. current < b
  <2>1. current <= b /\ current # b
    BY <1>1 DEF NothingSkipped
  <2> QED
    BY <2>1, <1>2
<1>4. BlockEnd(current) <= b /\ BlockEnd(current) \in Int
  BY <1>1, <1>2, <1>3, HeapAssumption DEF Layout, TypeOK, HeapTiling, NoOverlap, BlockEnd,
     Addr, HEAP_END
<1>5. BlockEnd(current) # HEAP_END
  BY <1>2, <1>4, HeapAssumption DEF HEAP_END
<1> QED
  BY <1>1, <1>2, <1>4, <1>5 DEF Layout, HeapTiling, NextIsAdjacent

-----------------------------------------------------------------------------
(* The list part of the inductive invariant: NoAdjacentFree and             *)
(* NothingSkipped need the tiling, a krealloc's copy needs the ownership.   *)
IInv == Layout /\ Owners /\ NoAdjacentFree /\ NothingSkipped

(* The invariant holds before heap_init. *)
LEMMA InitIInv == Init => IInv
<1> SUFFICES ASSUME Init PROVE IInv
  OBVIOUS
<1>1. Layout
  BY InitLayout
<1>2. Owners /\ NoAdjacentFree /\ NothingSkipped
  BY DEF Init, Owners, NoAdjacentFree, NothingSkipped
<1> QED
  BY <1>1, <1>2 DEF IInv

(* Every entry into the allocator, whoever calls it. *)
LEMMA AlignedIInv ==
    ASSUME IInv, pc = "idle",
           NEW n \in Nat, NEW al \in Nat, NEW asked \in Nat,
           NEW p \in live \cup {NULL},
           kmalloc_aligned(n, al, asked, p)
    PROVE  IInv'
<1>1. /\ UNCHANGED <<magic, is_free, next, live>> /\ pc' \in {"idle", "find"}
  BY DEF kmalloc_aligned, fields, caller, locals
<1>2. Layout' /\ NothingSkipped'
  BY AlignedLayout, AlignedNothingSkipped DEF IInv
<1>3. Owners' /\ NoAdjacentFree'
  BY <1>1, OwnersSame, FreeSame DEF IInv
<1> QED
  BY <1>2, <1>3 DEF IInv

(* kfree starts to coalesce with the rest in order. *)
LEMMA KfreeIInv ==
    ASSUME IInv, NEW p \in Addr \cup {NULL}, kfree(p)
    PROVE  IInv'
<1>1. Layout' /\ Owners'
  BY KfreeLayout, KfreeOwners DEF IInv
<1>2. NoAdjacentFree'
  BY ReleaseNoAdjacentFree DEF IInv, kfree
<1>3. NothingSkipped'
  BY DEF kfree, ReleaseBlock, Return, NothingSkipped
<1> QED
  BY <1>1, <1>2, <1>3 DEF IInv

(* krealloc keeps the invariant in each of its cases. *)
LEMMA KreallocIInv ==
    ASSUME IInv, NEW p \in Addr \cup {NULL}, NEW n \in Nat, krealloc(p, n),
           p \in live \cup {NULL} \/ ~is_valid_block(ptr_to_block(p))
    PROVE  IInv'
<1>1. CASE kmalloc_aligned(n, HEAP_ALIGNMENT, n, NULL)
  BY <1>1, AlignedIInv, HeapAssumption DEF krealloc
<1>2. CASE kfree(p)
  BY <1>2, KfreeIInv
<1>3. CASE UNCHANGED <<magic, is_free, next, live, pc>>
  <2>1. Layout'
    BY KreallocLayout DEF IInv
  <2>2. Owners' /\ NoAdjacentFree' /\ NothingSkipped'
    BY <1>3, OwnersSame, FreeSame DEF IInv, krealloc, NothingSkipped
  <2> QED
    BY <2>1, <2>2 DEF IInv
<1>4. CASE p # NULL /\ is_valid_block(ptr_to_block(p))
           /\ kmalloc_aligned(n, HEAP_ALIGNMENT, n, p)
  BY <1>4, AlignedIInv, HeapAssumption DEF krealloc
<1> QED
  BY <1>1, <1>2, <1>3, <1>4 DEF krealloc, vars, fields, locals, caller

-----------------------------------------------------------------------------
(* Sizes.  krealloc copies as many bytes as the OLD block has, and a caller *)
(* stores into as many as it asked for: no header is overwritten only       *)
(* because blocks are as large as that.                                     *)

(* Every size asked for stays below the range that the 32-bit mask of       *)
(* align_up cuts, rounding included.                                        *)
NoTruncation ==
    /\ MASK_MOD <= SIZE_MOD
    /\ \A n \in Requests, al \in Alignments \cup {HEAP_ALIGNMENT} :
          n + EffectiveAlignment(al) <= MASK_MOD
    /\ \A a \in CallocArgs :
          total_size(a[1], a[2]) + EffectiveAlignment(HEAP_ALIGNMENT) <= MASK_MOD

(* What the search and krealloc remember about sizes. *)
Grants ==
    /\ GrantedEnough
    /\ pc = "find" => request <= want
    /\ pc = "copy" => request <= size[current]
    /\ pc \in {"find", "copy"} /\ old # NULL => size[ptr_to_block(old)] < request

(* The inductive invariant: blocks stay intact because grants are large     *)
(* enough, and grants stay large enough because blocks are intact.          *)
HeapInv == IInv /\ Grants

(* The alignment kmalloc_aligned uses is never 0. *)
LEMMA AlignmentPositive ==
    ASSUME NEW al \in Nat
    PROVE  EffectiveAlignment(al) \in Nat \ {0}
BY HeapAssumption DEF EffectiveAlignment, IsPowerOfTwo

(* Rounding up never loses bytes below the truncation. *)
LEMMA AlignUpCovers ==
    ASSUME NEW n \in Nat, NEW al \in Nat,
           MASK_MOD <= SIZE_MOD, n + EffectiveAlignment(al) <= MASK_MOD
    PROVE  n <= align_up(n, EffectiveAlignment(al))
<1>1. PICK e \in Nat \ {0} : e = EffectiveAlignment(al)
  BY AlignmentPositive
<1>2. n + e - 1 \in Nat /\ n + e - 1 < SIZE_MOD /\ n + e - 1 < MASK_MOD
  BY <1>1, HeapAssumption
<1>3. (n + e - 1) % SIZE_MOD = n + e - 1
  BY <1>2, HeapAssumption
<1>4. (n + e - 1) % e \in 0 .. e - 1
  BY <1>1, <1>2
<1> DEFINE r == (n + e - 1) - ((n + e - 1) % e)
<1>5. r \in Nat /\ n <= r /\ r < MASK_MOD
  BY <1>1, <1>2, <1>4, HeapAssumption
<1> HIDE DEF r
<1>6. r % MASK_MOD = r
  BY <1>5, HeapAssumption
<1>7. align_up(n, e) = r % MASK_MOD
  BY <1>3 DEF align_up, r
<1> QED
  BY <1>1, <1>5, <1>6, <1>7

(* kcalloc's test lets no product through that does not fit in size_t. *)
LEMMA CallocProduct ==
    ASSUME NEW m \in Nat, NEW n \in Nat, ~Overflows(m, n)
    PROVE  total_size(m, n) = m * n
<1>1. CASE m = 0
  <2>1. m * n = 0
    BY <1>1
  <2> QED
    BY <2>1, HeapAssumption DEF total_size
<1>2. CASE m # 0
  <2>1. m * n \in Nat
    OBVIOUS
  <2>2. PICK t \in Nat : t = (m * n) % SIZE_MOD
    BY <2>1, HeapAssumption
  <2>3. t <= m * n
    BY <2>1, <2>2, HeapAssumption
  <2>4. t \div m = n
    BY <1>2, <2>2 DEF Overflows, total_size
  <2>5. m * (t \div m) <= t
    BY <1>2, <2>2
  <2>6. m * n <= t
    BY <2>4, <2>5
  <2> QED
    BY <2>1, <2>2, <2>3, <2>6 DEF total_size
<1> QED
  BY <1>1, <1>2

-----------------------------------------------------------------------------
(* Grants is kept by every action. *)
LEMMA AlignedGrants ==
    ASSUME HeapInv, pc = "idle", NEW n \in Nat, NEW al \in Nat, NEW asked \in Nat,
           NEW p \in live \cup {NULL}, kmalloc_aligned(n, al, asked, p),
           asked <= align_up(n, EffectiveAlignment(al)),
           p # NULL => size[ptr_to_block(p)] < asked
    PROVE  Grants'
<1>1. UNCHANGED <<size, live, req>> /\ pc' # "copy"
  BY DEF kmalloc_aligned, fields, caller, locals
<1>2. GrantedEnough'
  BY <1>1 DEF HeapInv, Grants, GrantedEnough, ptr_to_block
<1>3. pc' = "find" => /\ request' = asked /\ old' = p
                      /\ want' = align_up(n, EffectiveAlignment(al))
  BY DEF kmalloc_aligned, locals
<1> QED
  BY <1>1, <1>2, <1>3 DEF Grants, ptr_to_block

(* A block that is not the one taken keeps its size. *)
LEMMA TakeSizes ==
    ASSUME Layout, FindHit
    PROVE  /\ current \in magic /\ want <= size'[current]
           /\ \A b \in magic : b # current => size'[b] = size[b]
<1>1. /\ current \in magic /\ current \in Addr /\ size[current] >= want
      /\ want \in Nat /\ size[current] \in Nat
  BY DEF Layout, TypeOK, CallState, FindHit, Fits
<1>2. CASE WorthSplitting(current) /\ split_block(current)
  <2>0. PICK n : n = block_to_ptr(current) + want
    OBVIOUS
  <2>1. /\ n \in Addr \ magic
        /\ size' = [size EXCEPT ![n] = size[current] - want - HDR, ![current] = want]
    BY <1>1, <1>2, <2>0, SplitPieces
  <2> QED
    BY <1>1, <2>1 DEF Layout, TypeOK
<1>3. CASE TakeWhole(current)
  BY <1>1, <1>3 DEF TakeWhole
<1> QED
  BY <1>2, <1>3 DEF FindHit

(* The block the search takes is at least as large as the request. *)
LEMMA FindHitGrants ==
    ASSUME HeapInv, FindHit
    PROVE  Grants'
<1>1. /\ current \in magic /\ want <= size'[current] /\ want \in Nat /\ request <= want
      /\ \A b \in magic : b # current => size'[b] = size[b]
      /\ size'[current] \in Int /\ request \in Int
  BY TakeSizes, TakeShape DEF HeapInv, IInv, Grants, FindHit, Layout, TypeOK
<1>2. /\ is_free[current] /\ pc = "find" /\ current \in Int
      /\ \A p \in live : /\ ptr_to_block(p) \in magic
                         /\ ptr_to_block(p) # current
                         /\ size'[ptr_to_block(p)] = size[ptr_to_block(p)]
  <2>1. is_free[current] /\ pc = "find"
    BY DEF FindHit, Fits
  <2>2. current \in Int
    BY <1>1, HeapAssumption DEF HeapInv, IInv, Layout, TypeOK, Addr, HEAP_END
  <2>3. ASSUME NEW p \in live
        PROVE  ptr_to_block(p) \in magic /\ ptr_to_block(p) # current
    BY <2>1 DEF HeapInv, IInv, Owners
  <2> QED
    BY <2>1, <2>2, <2>3, <1>1
<1>3. request <= size'[current]
  BY <1>1
<1>4. CASE /\ old = NULL
           /\ live' = live \cup {block_to_ptr(current)}
           /\ req' = [req EXCEPT ![block_to_ptr(current)] = request]
           /\ pc' = "idle"
  <2>1. ptr_to_block(block_to_ptr(current)) = current
    BY <1>2, PtrAndBlock
  <2>2. block_to_ptr(current) \in Addr
    BY <1>1, PtrInHeap DEF HeapInv, IInv
  <2>3. ASSUME NEW p \in live' PROVE req'[p] <= size'[ptr_to_block(p)]
    <3>1. CASE p = block_to_ptr(current)
      BY <3>1, <2>1, <2>2, <1>3, <1>4 DEF HeapInv, IInv, Layout, TypeOK
    <3>2. CASE p # block_to_ptr(current)
      <4>1. p \in live /\ req'[p] = req[p]
        BY <3>2, <1>4, <2>2 DEF HeapInv, IInv, Layout, TypeOK
      <4> QED
        BY <4>1, <1>2 DEF HeapInv, Grants, GrantedEnough
    <3> QED
      BY <3>1, <3>2
  <2> QED
    BY <2>3, <1>4 DEF Grants, GrantedEnough, ptr_to_block
<1>5. CASE old # NULL /\ pc' = "copy" /\ UNCHANGED <<current, want, request, old, live, req>>
  <2>1. old \in live
    BY <1>2, <1>5 DEF HeapInv, IInv, Layout, CallState
  <2> QED
    BY <1>1, <1>2, <1>3, <1>5, <2>1 DEF HeapInv, Grants, GrantedEnough, ptr_to_block
<1> QED
  BY <1>4, <1>5 DEF FindHit, Grant, Return

(* krealloc's new block is large enough for what it copies. *)
LEMMA CopyAndFreeGrants ==
    ASSUME HeapInv, CopyAndFree, Reached(Moved) = {}
    PROVE  Grants'
<1>1. /\ pc = "copy" /\ current \in magic /\ size' = size /\ old \in live
      /\ live' = (live \ {old}) \cup {block_to_ptr(current)}
      /\ req' = [req EXCEPT ![old] = 0, ![block_to_ptr(current)] = request]
      /\ request <= size[current]
  BY DEF HeapInv, IInv, Layout, CallState, Grants, CopyAndFree, new_ptr
<1>2. /\ ptr_to_block(block_to_ptr(current)) = current
      /\ block_to_ptr(current) \in Addr
  <2>1. Layout
    BY DEF HeapInv, IInv
  <2>2. current \in Int
    BY <1>1, HeapAssumption DEF HeapInv, IInv, Layout, TypeOK, Addr, HEAP_END
  <2> QED
    BY <1>1, <2>1, <2>2, PtrAndBlock, PtrInHeap
<1>3. pc' \notin {"find", "copy"}
  BY DEF CopyAndFree, ReleaseBlock, Return
<1>4. ASSUME NEW p \in live' PROVE req'[p] <= size'[ptr_to_block(p)]
  <2>1. CASE p = block_to_ptr(current)
    BY <2>1, <1>1, <1>2 DEF HeapInv, IInv, Layout, TypeOK
  <2>2. CASE p # block_to_ptr(current)
    <3>1. p \in live /\ p # old /\ req'[p] = req[p]
      BY <2>2, <1>1, <1>2 DEF HeapInv, IInv, Layout, TypeOK
    <3> QED
      BY <3>1, <1>1 DEF HeapInv, Grants, GrantedEnough
  <2> QED
    BY <2>1, <2>2
<1> QED
  BY <1>3, <1>4 DEF Grants, GrantedEnough, ptr_to_block

(* Nothing else enlarges a request or shrinks a used block. *)
LEMMA GrantsSame ==
    ASSUME Grants, UNCHANGED <<size, want, request, old, live, req>>,
           pc' \in {pc, "idle", "coalesce"}, pc = "copy" => current' = current
    PROVE  Grants'
BY DEF Grants, GrantedEnough, ptr_to_block

(* kfree leaves the other callers what they asked for. *)
LEMMA KfreeGrants ==
    ASSUME HeapInv, NEW p \in Addr \cup {NULL}, kfree(p)
    PROVE  Grants'
<1>1. /\ size' = size /\ live' = live \ {p} /\ pc' \notin {"find", "copy"}
      /\ \A q \in live' : req'[q] = req[q]
  BY DEF kfree, ReleaseBlock, Return, HeapInv, IInv, Layout, TypeOK
<1> QED
  BY <1>1 DEF HeapInv, Grants, GrantedEnough, ptr_to_block

(* krealloc keeps a block only when it is large enough. *)
LEMMA KreallocGrants ==
    ASSUME NoTruncation, HeapInv, NEW p \in live \cup {NULL}, NEW n \in Requests,
           krealloc(p, n)
    PROVE  Grants'
<1>0. n \in Nat /\ pc = "idle" /\ p \in Addr \cup {NULL}
  BY HeapAssumption DEF krealloc, HeapInv, IInv, Layout, TypeOK
<1>1. n <= align_up(n, EffectiveAlignment(HEAP_ALIGNMENT))
  BY <1>0, AlignUpCovers, HeapAssumption DEF NoTruncation
<1>2. CASE kmalloc_aligned(n, HEAP_ALIGNMENT, n, NULL)
  BY <1>0, <1>1, <1>2, AlignedGrants, HeapAssumption
<1>3. CASE kfree(p)
  BY <1>0, <1>3, KfreeGrants
<1>4. CASE UNCHANGED vars
  BY <1>4, GrantsSame DEF HeapInv, vars, fields, locals, caller
<1>5. CASE /\ n <= size[ptr_to_block(p)] /\ req' = [req EXCEPT ![p] = n]
           /\ UNCHANGED <<heap_initialized, heap_head, magic, fields, stats>>
           /\ UNCHANGED <<locals, live, mem>>
  <2>1. ASSUME NEW q \in live PROVE req'[q] <= size[ptr_to_block(q)]
    BY <1>5 DEF HeapInv, Grants, GrantedEnough, IInv, Layout, TypeOK
  <2> QED
    BY <1>0, <1>5, <2>1 DEF Grants, GrantedEnough, fields, locals, ptr_to_block
<1>6. CASE /\ p # NULL /\ is_valid_block(ptr_to_block(p)) /\ n > size[ptr_to_block(p)]
           /\ kmalloc_aligned(n, HEAP_ALIGNMENT, n, p)
  <2>1. size[ptr_to_block(p)] < n
    BY <1>0, <1>6 DEF HeapInv, IInv, Layout, TypeOK, is_valid_block
  <2> QED
    BY <1>0, <1>1, <1>6, <2>1, AlignedGrants, HeapAssumption
<1> QED
  BY <1>2, <1>3, <1>4, <1>5, <1>6 DEF krealloc

-----------------------------------------------------------------------------
(* Where a header stands and what size it gives, as numbers. *)
LEMMA BlockNumbers ==
    ASSUME Layout, NEW b \in magic
    PROVE  b \in Int /\ size[b] \in Nat /\ HDR \in Nat \ {0}
BY HeapAssumption DEF Layout, TypeOK, Addr, HEAP_END

(* What is stored into the payload of a block runs over no header. *)
LEMMA PayloadReachesNothing ==
    ASSUME Layout, NEW b \in magic, NEW bytes,
           bytes \subseteq block_to_ptr(b) .. BlockEnd(b) - 1
    PROVE  Reached(bytes) = {}
<1> SUFFICES ASSUME NEW c \in magic, NEW a, a \in Header(c), a \in bytes PROVE FALSE
  BY DEF Reached
<1>1. /\ b \in Int /\ c \in Int /\ size[b] \in Nat /\ size[c] \in Nat
      /\ HDR \in Nat \ {0}
  BY BlockNumbers
<1>2. a \in Int /\ c <= a /\ a < c + HDR /\ b + HDR <= a /\ a < BlockEnd(b)
  BY <1>1 DEF Header, block_to_ptr, BlockEnd
<1>3. (b < c => BlockEnd(b) <= c) /\ (c < b => BlockEnd(c) <= b)
  BY DEF Layout, HeapTiling, NoOverlap
<1>4. BlockEnd(c) = c + HDR + size[c] /\ BlockEnd(b) = b + HDR + size[b]
  BY DEF BlockEnd
<1> QED
  BY <1>1, <1>2, <1>3, <1>4

(* krealloc's new block holds what the old one held. *)
LEMMA CopyReachesNothing ==
    ASSUME HeapInv, pc = "copy"
    PROVE  Reached(Moved) = {}
<1>1. /\ Layout /\ current \in magic /\ ptr_to_block(old) \in magic
      /\ size[ptr_to_block(old)] < request /\ request <= size[current]
  BY DEF HeapInv, IInv, Layout, CallState, Owners, Grants
<1>2. /\ current \in Int /\ size[current] \in Nat /\ request \in Nat
      /\ size[ptr_to_block(old)] \in Nat /\ HDR \in Nat
  BY <1>1, BlockNumbers DEF Layout, TypeOK
<1>3. Moved \subseteq block_to_ptr(current) .. BlockEnd(current) - 1
  BY <1>1, <1>2 DEF Moved, new_ptr, block_to_ptr, BlockEnd
<1> QED
  BY <1>1, <1>3, PayloadReachesNothing

(* A caller's block holds what the caller asked for. *)
LEMMA WriteReachesNothing ==
    ASSUME HeapInv, NEW p \in live
    PROVE  Reached(Asked(p)) = {}
<1> DEFINE b == ptr_to_block(p)
<1>1. Layout /\ b \in magic /\ req[p] <= size[b]
  BY DEF HeapInv, IInv, Owners, Grants, GrantedEnough
<1>2. req[p] \in Nat /\ size[b] \in Nat /\ HDR \in Nat /\ b \in Int
  <2>1. req[p] \in Nat
    BY <1>1 DEF Layout, TypeOK
  <2> QED
    BY <1>1, <2>1, BlockNumbers
<1>3. p = b + HDR
  <2>1. p \in Int
    BY <1>1, HeapAssumption DEF Layout, TypeOK, Addr, HEAP_END
  <2> QED
    BY <1>2, <2>1 DEF ptr_to_block
<1> HIDE DEF b
<1>4. Asked(p) \subseteq block_to_ptr(b) .. BlockEnd(b) - 1
  BY <1>1, <1>2, <1>3 DEF Asked, block_to_ptr, BlockEnd
<1> QED
  BY <1>1, <1>4, PayloadReachesNothing

(* Every step keeps the blocks intact, whatever sizes are asked for next. *)
LEMMA NextIInv == HeapInv /\ [Next]_vars => IInv'
<1> SUFFICES ASSUME HeapInv, IInv, [Next]_vars PROVE IInv'
  BY DEF HeapInv
<1> USE HeapAssumption
<1>1. CASE heap_init
  <2>1. Layout'
    BY <1>1, HeapInitLayout DEF IInv
  <2>2. /\ magic = {} /\ live' = {} /\ pc' = "idle" /\ magic' = {HEAP_START}
        /\ next'[HEAP_START] = NULL
    <3>1. HEAP_START \in Addr
      BY DEF Addr, HEAP_END
    <3>2. magic = {} /\ live = {} /\ pc = "idle"
      BY <1>1 DEF IInv, Layout, CallState, heap_init
    <3> QED
      BY <1>1, <3>1, <3>2 DEF IInv, Layout, TypeOK, heap_init, locals
  <2>4. is_free'[HEAP_START]
    BY <1>1 DEF IInv, Layout, TypeOK, heap_init, Addr, HEAP_END
  <2>3. Owners' /\ NoAdjacentFree' /\ NothingSkipped'
    BY <2>2, <2>4 DEF Owners, NoAdjacentFree, NothingSkipped
  <2> QED
    BY <2>1, <2>3 DEF IInv
<1>2. ASSUME NEW n \in Requests, NEW al \in Alignments, kmalloc(n, al)
      PROVE  IInv'
  BY <1>2, AlignedIInv DEF kmalloc
<1>3. ASSUME NEW a \in CallocArgs, kcalloc(a[1], a[2])
      PROVE  IInv'
  <2>1. a[1] \in Nat /\ a[2] \in Nat
    OBVIOUS
  <2>2. CASE Overflows(a[1], a[2])
    <3>1. Layout'
      BY <1>3, <2>1, KcallocLayout DEF IInv
    <3>2. /\ UNCHANGED <<magic, is_free, next, live, pc>> /\ pc = "idle"
      BY <1>3, <2>2 DEF kcalloc, fields, caller, locals
    <3>3. Owners' /\ NoAdjacentFree' /\ NothingSkipped'
      BY <3>2, OwnersSame, FreeSame DEF IInv, NothingSkipped
    <3> QED
      BY <3>1, <3>3 DEF IInv
  <2>3. CASE ~Overflows(a[1], a[2])
    <3>1. a[1] * a[2] \in Nat
      BY <2>1
    <3>2. total_size(a[1], a[2]) \in Nat
      BY <3>1 DEF total_size
    <3> QED
      BY <1>3, <2>3, <3>1, <3>2, AlignedIInv DEF kcalloc
  <2> QED
    BY <2>2, <2>3
<1>4. ASSUME NEW p \in live \cup {NULL}, NEW n \in Requests, krealloc(p, n)
      PROVE  IInv'
  <2>1. p \in Addr \cup {NULL} /\ n \in Nat
    BY DEF IInv, Layout, TypeOK
  <2> QED
    BY <1>4, <2>1, KreallocIInv
<1>5. ASSUME NEW p \in Addr \ live, NEW n \in Requests,
             ~is_valid_block(ptr_to_block(p)), krealloc(p, n)
      PROVE  IInv'
  BY <1>5, KreallocIInv
<1>6. ASSUME NEW p \in Addr \cup {NULL}, kfree(p)
      PROVE  IInv'
  BY <1>6, KfreeIInv
<1>7. CASE FindNext
  <2>1. Layout' /\ NothingSkipped'
    BY <1>7, FindNextLayout, FindNextNothingSkipped DEF IInv
  <2>2. /\ UNCHANGED <<magic, is_free, next, live, pc>> /\ pc = "find"
    BY <1>7 DEF FindNext, fields, caller
  <2> QED
    BY <2>1, <2>2, OwnersSame, FreeSame DEF IInv
<1>8. CASE FindFail
  <2>1. Layout'
    BY <1>8, FindFailLayout DEF IInv
  <2>2. /\ UNCHANGED <<magic, is_free, next, live>> /\ pc = "find" /\ pc' = "idle"
    BY <1>8 DEF FindFail, Return, fields, caller
  <2> QED
    BY <2>1, <2>2, OwnersSame, FreeSame DEF IInv, NothingSkipped
<1>9. CASE FindHit
  <2>1. Layout' /\ Owners' /\ NoAdjacentFree'
    BY <1>9, FindHitLayout, FindHitOwners, FindHitNoAdjacentFree DEF IInv
  <2>2. pc' # "find"
    BY <1>9 DEF FindHit, Grant, Return
  <2> QED
    BY <2>1, <2>2 DEF IInv, NothingSkipped
<1>10. CASE CopyAndFree
  <2>0. Reached(Moved) = {}
    BY <1>10, CopyReachesNothing DEF CopyAndFree
  <2>1. Layout' /\ Owners'
    BY <1>10, <2>0, CopyAndFreeLayout, CopyAndFreeOwners, OwnersIsLiveIsUsed DEF IInv
  <2>2. NoAdjacentFree' /\ pc' # "find"
    BY <1>10, <2>0, ReleaseNoAdjacentFree DEF IInv, CopyAndFree, ReleaseBlock, Return
  <2> QED
    BY <2>1, <2>2 DEF IInv, NothingSkipped
<1>11. CASE AbsorbNext
  <2>1. Layout' /\ Owners' /\ NoAdjacentFree'
    BY <1>11, AbsorbNextLayout, AbsorbNextOwners, AbsorbNextNoAdjacentFree DEF IInv
  <2> QED
    BY <1>11, <2>1 DEF IInv, NothingSkipped, AbsorbNext, locals
<1>12. CASE CoalescePrev
  <2>1. Layout' /\ NoAdjacentFree'
    BY <1>12, CoalescePrevLayout, CoalescePrevNoAdjacentFree DEF IInv
  <2>2. /\ UNCHANGED <<magic, is_free, live, pc>> /\ pc = "coalesce"
    BY <1>12 DEF CoalescePrev, fields, caller
  <2> QED
    BY <2>1, <2>2, OwnersSame DEF IInv, NothingSkipped
<1>13. CASE FreeDone
  <2>1. Layout' /\ NoAdjacentFree'
    BY <1>13, FreeDoneLayout, FreeDoneNoAdjacentFree DEF IInv
  <2>2. /\ UNCHANGED <<magic, is_free, live>> /\ pc = "coalesce" /\ pc' = "idle"
    BY <1>13 DEF FreeDone, Return, fields, caller
  <2> QED
    BY <2>1, <2>2, OwnersSame DEF IInv, NothingSkipped
<1>14. ASSUME NEW p \in live, CallerWrite(p)
       PROVE  IInv'
  <2>0. Reached(Asked(p)) = {}
    BY WriteReachesNothing
  <2>1. Layout'
    BY <1>14, <2>0, CallerWriteLayout DEF IInv
  <2>2. /\ UNCHANGED <<magic, is_free, next, live, pc>> /\ pc = "idle"
    BY <1>14, <2>0 DEF CallerWrite, fields, locals
  <2> QED
    BY <2>1, <2>2, OwnersSame, FreeSame DEF IInv, NothingSkipped
<1>15. CASE UNCHANGED vars
  <2>1. HeapTiling'
    BY <1>15, SameShape DEF IInv, Layout, vars, shape, fields
  <2>2. TypeOK' /\ CallState'
    BY <1>15 DEF IInv, Layout, TypeOK, CallState, vars, fields, stats, locals, caller
  <2>3. Owners' /\ NoAdjacentFree' /\ NothingSkipped'
    BY <1>15 DEF IInv, Owners, NoAdjacentFree, NothingSkipped, Fits, vars, fields, locals,
       caller
  <2> QED
    BY <2>1, <2>2, <2>3 DEF IInv, Layout
<1> QED
  BY <1>1, <1>2, <1>3, <1>4, <1>5, <1>6, <1>7, <1>8, <1>9, <1>10, <1>11, <1>12, <1>13,
     <1>14, <1>15 DEF Next, Call, Step

(* Every step keeps what the callers asked for. *)
LEMMA NextHeapInv ==
    ASSUME NoTruncation
    PROVE  HeapInv /\ [Next]_vars => HeapInv'
<1> SUFFICES ASSUME HeapInv, [Next]_vars PROVE Grants'
  BY NextIInv DEF HeapInv
<1> USE HeapAssumption
<1>1. CASE heap_init
  <2>1. live' = {} /\ pc' = "idle"
    BY <1>1 DEF HeapInv, IInv, Layout, CallState, heap_init, locals
  <2> QED
    BY <2>1 DEF Grants, GrantedEnough
<1>2. ASSUME NEW n \in Requests, NEW al \in Alignments, kmalloc(n, al)
      PROVE  Grants'
  <2>1. n \in Nat /\ al \in Nat /\ pc = "idle" /\ kmalloc_aligned(n, al, n, NULL)
    BY <1>2 DEF kmalloc
  <2>2. n <= align_up(n, EffectiveAlignment(al))
    BY <2>1, AlignUpCovers DEF NoTruncation
  <2> QED
    BY <2>1, <2>2, AlignedGrants
<1>3. ASSUME NEW a \in CallocArgs, kcalloc(a[1], a[2])
      PROVE  Grants'
  <2>0. a[1] \in Nat /\ a[2] \in Nat /\ pc = "idle" /\ a[1] * a[2] \in Nat
    BY <1>3 DEF kcalloc
  <2>1. CASE Overflows(a[1], a[2])
    BY <1>3, <2>0, <2>1, GrantsSame DEF HeapInv, kcalloc, fields, locals, caller
  <2>2. CASE ~Overflows(a[1], a[2])
    <3>1. total_size(a[1], a[2]) = a[1] * a[2]
      BY <2>0, <2>2, CallocProduct
    <3>2. a[1] * a[2] <= align_up(a[1] * a[2], EffectiveAlignment(HEAP_ALIGNMENT))
      BY <2>0, <3>1, AlignUpCovers DEF NoTruncation
    <3>3. kmalloc_aligned(a[1] * a[2], HEAP_ALIGNMENT, a[1] * a[2], NULL)
      BY <1>3, <2>2, <3>1 DEF kcalloc
    <3> QED
      BY <2>0, <3>2, <3>3, AlignedGrants
  <2> QED
    BY <2>1, <2>2
<1>4. ASSUME NEW p \in live \cup {NULL}, NEW n \in Requests, krealloc(p, n)
      PROVE  Grants'
  BY <1>4, KreallocGrants
<1>5. ASSUME NEW p \in Addr \ live, NEW n \in Requests,
             ~is_valid_block(ptr_to_block(p)), krealloc(p, n)
      PROVE  Grants'
  <2>1. p # NULL
    BY DEF Addr, NULL
  <2>2. kfree(p) \/ UNCHANGED vars
    BY <1>5, <2>1 DEF krealloc
  <2>3. CASE kfree(p)
    BY <2>3, KfreeGrants
  <2>4. CASE UNCHANGED vars
    BY <2>4, GrantsSame DEF HeapInv, vars, fields, locals, caller
  <2> QED
    BY <2>2, <2>3, <2>4
<1>6. ASSUME NEW p \in Addr \cup {NULL}, kfree(p)
      PROVE  Grants'
  BY <1>6, KfreeGrants
<1>7. CASE FindNext
  BY <1>7, GrantsSame DEF HeapInv, FindNext, fields, caller
<1>8. CASE FindFail
  BY <1>8 DEF HeapInv, FindFail, Return, Grants, GrantedEnough, fields, caller, ptr_to_block
<1>9. CASE FindHit
  BY <1>9, FindHitGrants
<1>10. CASE CopyAndFree
  BY <1>10, CopyReachesNothing, CopyAndFreeGrants DEF CopyAndFree
<1>11. CASE AbsorbNext
  <2>1. /\ pc = "coalesce" /\ pc' = pc /\ UNCHANGED <<live, req>>
        /\ size' = [size EXCEPT ![current] = size[current] + HDR + size[next[current]]]
        /\ is_free[current]
    BY <1>11 DEF HeapInv, IInv, Layout, CallState, AbsorbNext, MergedSize, locals, caller
  <2>2. ASSUME NEW p \in live PROVE size'[ptr_to_block(p)] = size[ptr_to_block(p)]
    <3>1. ptr_to_block(p) \in Addr /\ ptr_to_block(p) # current
      BY <2>1 DEF HeapInv, IInv, Owners, Layout, TypeOK
    <3> QED
      BY <2>1, <3>1 DEF HeapInv, IInv, Layout, TypeOK
  <2> QED
    BY <2>1, <2>2 DEF HeapInv, Grants, GrantedEnough, ptr_to_block
<1>12. CASE CoalescePrev
  BY <1>12, GrantsSame DEF HeapInv, CoalescePrev, fields, caller
<1>13. CASE FreeDone
  BY <1>13 DEF HeapInv, FreeDone, Return, Grants, GrantedEnough, fields, caller, ptr_to_block
<1>14. ASSUME NEW p \in live, CallerWrite(p)
       PROVE  Grants'
  BY <1>14, WriteReachesNothing, GrantsSame DEF HeapInv, CallerWrite, fields, locals
<1>15. CASE UNCHANGED vars
  BY <1>15, GrantsSame DEF HeapInv, vars, fields, locals, caller
<1> QED
  BY <1>1, <1>2, <1>3, <1>4, <1>5, <1>6, <1>7, <1>8, <1>9, <1>10, <1>11, <1>12, <1>13,
     <1>14, <1>15 DEF Next, Call, Step

(* No caller has asked yet. *)
LEMMA InitHeapInv == Init => HeapInv
<1> SUFFICES ASSUME Init PROVE HeapInv
  OBVIOUS
<1>1. IInv
  BY InitIInv
<1>2. Grants
  BY DEF Init, Grants, GrantedEnough
<1> QED
  BY <1>1, <1>2 DEF HeapInv

(* So every caller has what it asked for. *)
LEMMA HeapInvariant ==
    ASSUME NoTruncation
    PROVE  Spec => []HeapInv
BY InitHeapInv, NextHeapInv, PTL DEF Spec

(* Every reachable state is well typed. *)
THEOREM TypeCorrect ==
    ASSUME NoTruncation
    PROVE  Spec => []TypeOK
<1>1. HeapInv => TypeOK
  BY DEF HeapInv, IInv, Layout
<1> QED
  BY <1>1, HeapInvariant, PTL

(* Splits and merges keep the heap tiled by correctly linked blocks, and the *)
(* magic word stands on their headers only (split_block, coalesce_blocks).   *)
THEOREM HeapStaysTiled ==
    ASSUME NoTruncation
    PROVE  Spec => []HeapTiling
<1>1. HeapInv => HeapTiling
  BY DEF HeapInv, IInv, Layout
<1> QED
  BY <1>1, HeapInvariant, PTL

(* kfree leaves no two free neighbours unmerged. *)
THEOREM FreeBlocksMerged ==
    ASSUME NoTruncation
    PROVE  Spec => []NoAdjacentFree
<1>1. HeapInv => NoAdjacentFree
  BY DEF HeapInv, IInv
<1> QED
  BY <1>1, HeapInvariant, PTL

(* find_free_block fails only when no free block is large enough, and finds  *)
(* the lowest one otherwise.                                                 *)
THEOREM SearchIsComplete ==
    ASSUME NoTruncation
    PROVE  Spec => []NothingSkipped
<1>1. HeapInv => NothingSkipped
  BY DEF HeapInv, IInv
<1> QED
  BY <1>1, HeapInvariant, PTL

(* Used blocks and callers' pointers correspond one to one: nothing leaks    *)
(* and no pointer outlives its block, through krealloc's move as well.       *)
THEOREM NothingLeaks ==
    ASSUME NoTruncation
    PROVE  Spec => []LiveIsUsed
<1>1. HeapInv => LiveIsUsed
  BY OwnersIsLiveIsUsed DEF HeapInv, IInv
<1> QED
  BY <1>1, HeapInvariant, PTL

(* kfree of a pointer nobody holds finds no header, or a free block: it      *)
(* changes nothing.                                                          *)
THEOREM StaleFreeHarmless ==
    ASSUME NoTruncation
    PROVE  Spec => StaleFreeIgnored
<1>1. ASSUME IInv, NEW p \in Addr \ live, kfree(p)
      PROVE  UNCHANGED <<magic, fields, stats, pc>>
  <2>1. ~Releasable(p)
    <3> SUFFICES ASSUME Releasable(p) PROVE FALSE
      OBVIOUS
    <3>1. ptr_to_block(p) \in magic /\ ~is_free[ptr_to_block(p)] /\ pc = "idle"
      BY <1>1 DEF Releasable, is_valid_block, kfree
    <3>2. block_to_ptr(ptr_to_block(p)) = p
      BY PtrAndBlock, HeapAssumption DEF Addr, HEAP_END
    <3> QED
      BY <1>1, <3>1, <3>2 DEF IInv, Owners
  <2> QED
    BY <1>1, <2>1 DEF kfree, ReleaseBlock, Return, fields
<1>2. IInv /\ [Next]_vars
        => [\A p \in Addr \ live : kfree(p) => UNCHANGED <<magic, fields, stats, pc>>]_vars
  BY <1>1
<1>3. HeapInv => IInv
  BY DEF HeapInv
<1> QED
  BY <1>2, <1>3, HeapInvariant, PTL DEF Spec, StaleFreeIgnored

-----------------------------------------------------------------------------
(* The counters. *)

(* One allocation per used block, one free per released one; a block whose  *)
(* neighbours are being merged is released and not yet counted.             *)
UsedCounted ==
    Cardinality(Used) + total_frees + (IF pc = "coalesce" THEN 1 ELSE 0)
        = total_allocations

(* There are finitely many blocks. *)
LEMMA BlocksFinite ==
    ASSUME Layout
    PROVE  /\ IsFiniteSet(magic) /\ IsFiniteSet(Used)
           /\ Cardinality(magic) \in Nat /\ Cardinality(Used) \in Nat
<1>1. IsFiniteSet(Addr)
  BY HeapAssumption, FS_Interval DEF Addr, HEAP_END
<1>2. magic \in SUBSET Addr /\ Used \in SUBSET Addr
  BY DEF Layout, TypeOK, Used
<1>3. IsFiniteSet(magic) /\ IsFiniteSet(Used)
  BY <1>1, <1>2, FS_Subset
<1> QED
  BY <1>3, FS_CardinalityType

(* What touches neither blocks nor counters keeps the count. *)
LEMMA CountSame ==
    ASSUME UsedCounted, magic' = magic, is_free' = is_free,
           total_allocations' = total_allocations, total_frees' = total_frees,
           (pc' = "coalesce") <=> (pc = "coalesce")
    PROVE  UsedCounted'
<1>1. Used' = Used
  BY DEF Used
<1> QED
  BY <1>1 DEF UsedCounted

(* A release takes one block out of the used ones. *)
LEMMA ReleaseCounted ==
    ASSUME Layout, UsedCounted, pc # "coalesce", NEW p, ReleaseBlock(p),
           UNCHANGED <<magic, total_allocations, total_frees>>
    PROVE  UsedCounted'
<1>1. CASE Releasable(p)
  <2> DEFINE b == ptr_to_block(p)
  <2>1. /\ b \in Used /\ is_free' = [is_free EXCEPT ![b] = TRUE] /\ pc' = "coalesce"
    BY <1>1 DEF ReleaseBlock, Releasable, is_valid_block, Used
  <2> HIDE DEF b
  <2>2. magic \subseteq Addr /\ is_free \in [Addr -> BOOLEAN]
    BY DEF Layout, TypeOK
  <2>3. Used' = Used \ {b}
    BY <2>1, <2>2 DEF Used
  <2>4. Cardinality(Used \ {b}) = Cardinality(Used) - 1
    BY <2>1, BlocksFinite, FS_RemoveElement
  <2>5. total_frees \in Nat /\ total_allocations \in Nat /\ Cardinality(Used) \in Nat
    BY BlocksFinite DEF Layout, TypeOK
  <2>6. Cardinality(Used') + total_frees' + 1 = total_allocations'
    BY <2>3, <2>4, <2>5 DEF UsedCounted
  <2> QED
    BY <2>1, <2>6 DEF UsedCounted
<1>2. CASE ~Releasable(p)
  <2>1. UNCHANGED is_free /\ pc' = "idle"
    BY <1>2 DEF ReleaseBlock, Return
  <2>2. (pc' = "coalesce") <=> (pc = "coalesce")
    BY <2>1
  <2> QED
    BY <2>1, <2>2, CountSame
<1> QED
  BY <1>1, <1>2

(* kmalloc counts the block it takes. *)
LEMMA FindHitCounted ==
    ASSUME Layout, UsedCounted, FindHit
    PROVE  UsedCounted'
<1>1. /\ current \in magic /\ magic \subseteq magic' /\ ~is_free'[current]
      /\ \A b \in magic' : b # current => is_free'[b] = (b \notin magic \/ is_free[b])
  BY TakeFree
<1>2. /\ pc = "find" /\ pc' \in {"idle", "copy"} /\ is_free[current]
      /\ total_allocations' = total_allocations + 1 /\ total_frees' = total_frees
  BY DEF FindHit, Fits, Grant, Return
<1>3. Used' = Used \cup {current} /\ current \notin Used
  BY <1>1, <1>2 DEF Used
<1>4. Cardinality(Used \cup {current}) = Cardinality(Used) + 1
  BY <1>3, BlocksFinite, FS_AddElement
<1>5. total_frees \in Nat /\ total_allocations \in Nat /\ Cardinality(Used) \in Nat
  BY BlocksFinite DEF Layout, TypeOK
<1>6. Cardinality(Used') + total_frees' + 0 = total_allocations'
  <2>1. Cardinality(Used) + total_frees + 0 = total_allocations
    BY <1>2 DEF UsedCounted
  <2>2. Cardinality(Used') = Cardinality(Used) + 1 /\ total_frees' = total_frees
        /\ total_allocations' = total_allocations + 1
    BY <1>2, <1>3, <1>4
  <2> QED
    BY <1>5, <2>1, <2>2
<1> QED
  BY <1>2, <1>6 DEF UsedCounted

(* Entering the allocator counts nothing but failures. *)
LEMMA AlignedCounted ==
    ASSUME UsedCounted, pc = "idle", NEW n, NEW al, NEW asked, NEW p,
           kmalloc_aligned(n, al, asked, p)
    PROVE  UsedCounted'
BY CountSame DEF kmalloc_aligned, fields, locals

(* kfree counts nothing yet: its release waits for FreeDone. *)
LEMMA KfreeCounted ==
    ASSUME Layout, UsedCounted, NEW p, kfree(p)
    PROVE  UsedCounted'
BY ReleaseCounted DEF kfree, stats

(* krealloc counts through the calls it makes. *)
LEMMA KreallocCounted ==
    ASSUME Layout, UsedCounted, NEW p, NEW n, krealloc(p, n)
    PROVE  UsedCounted'
<1>1. pc = "idle"
  BY DEF krealloc
<1>2. CASE \/ kmalloc_aligned(n, HEAP_ALIGNMENT, n, NULL)
           \/ kmalloc_aligned(n, HEAP_ALIGNMENT, n, p)
  BY <1>1, <1>2, AlignedCounted
<1>3. CASE kfree(p)
  BY <1>3, KfreeCounted
<1>4. CASE UNCHANGED <<magic, is_free, total_allocations, total_frees, pc>>
  BY <1>1, <1>4, CountSame
<1> QED
  BY <1>2, <1>3, <1>4 DEF krealloc, vars, fields, stats, locals

(* The rest of the free block that coalesce_blocks works on was no used     *)
(* block, and the free is counted at its end.                               *)
LEMMA CoalesceCounted ==
    ASSUME Layout, UsedCounted, AbsorbNext \/ CoalescePrev \/ FreeDone
    PROVE  UsedCounted'
<1>1. CASE AbsorbNext
  <2>1. /\ is_free[next[current]] /\ magic' = magic \ {next[current]}
        /\ UNCHANGED <<pc, is_free, total_allocations, total_frees>>
    BY <1>1 DEF AbsorbNext, Absorbable, locals, stats
  <2>2. Used' = Used
    BY <2>1 DEF Used
  <2> QED
    BY <2>1, <2>2 DEF UsedCounted
<1>2. CASE CoalescePrev
  BY <1>2, CountSame DEF CoalescePrev, fields, stats
<1>3. CASE FreeDone
  <2>1. /\ pc = "coalesce" /\ pc' = "idle" /\ total_frees' = total_frees + 1
        /\ UNCHANGED <<magic, is_free, total_allocations>>
    BY <1>3 DEF FreeDone, Return, fields
  <2>2. Used' = Used
    BY <2>1 DEF Used
  <2>3. total_frees \in Nat /\ total_allocations \in Nat /\ Cardinality(Used) \in Nat
    BY BlocksFinite DEF Layout, TypeOK
  <2>4. Cardinality(Used') + total_frees' + 0 = total_allocations'
    BY <2>1, <2>2, <2>3 DEF UsedCounted
  <2> QED
    BY <2>1, <2>4 DEF UsedCounted
<1> QED
  BY <1>1, <1>2, <1>3

(* So the counters balance the used blocks in every state. *)
LEMMA CountersBalance ==
    ASSUME NoTruncation
    PROVE  Spec => []UsedCounted
<1>1. Init => UsedCounted
  <2>1. Init => Used = {} /\ pc = "idle" /\ total_frees = 0 /\ total_allocations = 0
    BY DEF Init, Used
  <2> QED
    BY <2>1, FS_EmptySet DEF UsedCounted
<1>2. HeapInv /\ UsedCounted /\ [Next]_vars => UsedCounted'
  <2> SUFFICES ASSUME HeapInv, Layout, UsedCounted, [Next]_vars PROVE UsedCounted'
    BY DEF HeapInv, IInv
  <2>1. CASE heap_init
    <3>1. /\ magic = {} /\ magic' = magic \cup {HEAP_START} /\ pc' = "idle"
          /\ is_free' = [is_free EXCEPT ![HEAP_START] = TRUE]
          /\ total_frees' = 0 /\ total_allocations' = 0
      BY <2>1 DEF heap_init, Layout, CallState, locals
    <3>2. HEAP_START \in Addr /\ is_free \in [Addr -> BOOLEAN]
      BY HeapAssumption DEF Layout, TypeOK, Addr, HEAP_END
    <3>3. Used' = {}
      BY <3>1, <3>2 DEF Used
    <3> QED
      BY <3>1, <3>3, FS_EmptySet DEF UsedCounted
  <2>2. CASE Call
    <3>1. ASSUME NEW a \in CallocArgs, kcalloc(a[1], a[2]) PROVE UsedCounted'
      <4>1. CASE Overflows(a[1], a[2])
        BY <3>1, <4>1, CountSame DEF kcalloc, fields, locals
      <4>2. CASE ~Overflows(a[1], a[2])
        BY <3>1, <4>2, AlignedCounted DEF kcalloc
      <4> QED
        BY <4>1, <4>2
    <3>2. ASSUME NEW n \in Requests, NEW al \in Alignments, kmalloc(n, al) PROVE UsedCounted'
      BY <3>2, AlignedCounted DEF kmalloc
    <3> QED
      BY <2>2, <3>1, <3>2, KreallocCounted, KfreeCounted DEF Call
  <2>3. CASE FindHit
    BY <2>3, FindHitCounted
  <2>4. CASE CopyAndFree
    <3>1. pc # "coalesce" /\ ReleaseBlock(old)
          /\ UNCHANGED <<magic, total_allocations, total_frees>>
      BY <2>4, CopyReachesNothing DEF CopyAndFree, stats
    <3> QED
      BY <3>1, ReleaseCounted
  <2>5. CASE AbsorbNext \/ CoalescePrev \/ FreeDone
    BY <2>5, CoalesceCounted
  <2>6. CASE FindNext \/ FindFail
    BY <2>6, CountSame DEF FindNext, FindFail, Return, fields, stats
  <2>7. ASSUME NEW p \in live, CallerWrite(p) PROVE UsedCounted'
    BY <2>7, WriteReachesNothing, CountSame DEF CallerWrite, fields, stats, locals
  <2>8. CASE UNCHANGED vars
    BY <2>8, CountSame DEF vars, fields, stats, locals
  <2> QED
    BY <2>1, <2>2, <2>3, <2>4, <2>5, <2>6, <2>7, <2>8 DEF Next, Step
<1> QED
  BY <1>1, <1>2, HeapInvariant, PTL DEF Spec

-----------------------------------------------------------------------------
(* The sums of heap_get_stats. *)

(* A collection of parts of a finite set has one with no other of them in it. *)
LEMMA LeastPart ==
    ASSUME NEW A, IsFiniteSet(A), NEW Bad \in SUBSET (SUBSET A), Bad # {}
    PROVE  \E D \in Bad : \A E \in SUBSET D : E # D => E \notin Bad
<1> DEFINE Sizes == {Cardinality(D) : D \in Bad}
<1>1. \A D \in SUBSET A : IsFiniteSet(D) /\ Cardinality(D) \in Nat
  BY FS_Subset, FS_CardinalityType
<1>2. Sizes \in SUBSET Nat /\ Sizes # {}
  BY <1>1
<1>3. PICK n \in Sizes : \A m \in Sizes : n <= m
  BY <1>2, LeastNatural
<1>4. PICK D \in Bad : n = Cardinality(D)
  OBVIOUS
<1>5. ASSUME NEW E \in SUBSET D, E # D PROVE E \notin Bad
  <2>1. Cardinality(E) <= Cardinality(D) /\ Cardinality(E) # Cardinality(D)
    BY <1>1, <1>5, FS_Subset
  <2>2. ~(Cardinality(D) <= Cardinality(E))
    BY <1>1, <2>1
  <2> QED
    BY <1>3, <1>4, <2>2
<1> QED
  BY <1>5

(* The sums of a function over the parts of a set, one element at a time.   *)
Any(s) == CHOOSE x \in s : TRUE
IsSum(g, f, S) ==
    g = [s \in SUBSET S |-> IF s = {} THEN 0 ELSE f[Any(s)] + g[s \ {Any(s)}]]

(* Two of them agree where both are defined. *)
LEMMA SumsAgree ==
    ASSUME NEW f, NEW S, NEW T, IsFiniteSet(S),
           NEW g, IsSum(g, f, S), NEW h, IsSum(h, f, T),
           NEW D \in SUBSET S, D \in SUBSET T
    PROVE  g[D] = h[D]
<1> DEFINE Bad == {E \in SUBSET S : E \in SUBSET T /\ g[E] # h[E]}
<1>1. ASSUME Bad # {} PROVE FALSE
  <2>1. PICK E \in Bad : \A F \in SUBSET E : F # E => F \notin Bad
    BY <1>1, LeastPart
  <2>2. E \in SUBSET S /\ E \in SUBSET T /\ g[E] # h[E]
    BY <2>1
  <2>3. g[E] = IF E = {} THEN 0 ELSE f[Any(E)] + g[E \ {Any(E)}]
    BY <2>2 DEF IsSum
  <2>4. h[E] = IF E = {} THEN 0 ELSE f[Any(E)] + h[E \ {Any(E)}]
    BY <2>2 DEF IsSum
  <2>5. E # {} /\ Any(E) \in E
    BY <2>2, <2>3, <2>4 DEF Any
  <2>6. E \ {Any(E)} \in SUBSET E /\ E \ {Any(E)} # E
    BY <2>5
  <2>7. g[E \ {Any(E)}] = h[E \ {Any(E)}]
    BY <2>1, <2>2, <2>6
  <2> QED
    BY <2>2, <2>3, <2>4, <2>5, <2>7
<1> QED
  BY <1>1

(* There are such sums over every finite set. *)
LEMMA SumsExist ==
    ASSUME NEW f, NEW S, IsFiniteSet(S)
    PROVE  \E g : IsSum(g, f, S)
<1> DEFINE Bad == {D \in SUBSET S : ~\E g : IsSum(g, f, D)}
<1>1. ASSUME Bad # {} PROVE FALSE
  <2>0. Bad \in SUBSET (SUBSET S)
    OBVIOUS
  <2>1. PICK D \in Bad : \A E \in SUBSET D : E # D => E \notin Bad
    <3> HIDE DEF Bad
    <3> QED
      BY <1>1, <2>0, LeastPart
  <2>2. D \in SUBSET S /\ ~\E g : IsSum(g, f, D)
    BY <2>1
  <2> DEFINE part(E) == CHOOSE g : IsSum(g, f, E)
             value(E) == IF E = {} THEN 0 ELSE f[Any(E)] + part(E \ {Any(E)})[E \ {Any(E)}]
             h == [E \in SUBSET D |-> value(E)]
  <2>3. ASSUME NEW E \in SUBSET D, E # D PROVE IsFiniteSet(E) /\ IsSum(part(E), f, E)
    <3>1. \E g : IsSum(g, f, E)
      BY <2>1, <2>2, <2>3
    <3>2. E \in SUBSET S
      BY <2>2
    <3> QED
      BY <3>1, <3>2, FS_Subset
  <2>4. ASSUME NEW E \in SUBSET D, E # {}
        PROVE  h[E \ {Any(E)}] = part(E \ {Any(E)})[E \ {Any(E)}]
    <3> DEFINE F == E \ {Any(E)}
    <3>1. Any(E) \in E
      BY <2>4 DEF Any
    <3>2. F \in SUBSET D /\ F # D /\ F \in SUBSET F
      BY <3>1
    <3> HIDE DEF F, part
    <3>3. IsFiniteSet(F) /\ IsSum(part(F), f, F)
      BY <2>3, <3>2
    <3>4. part(F)[F] = IF F = {} THEN 0 ELSE f[Any(F)] + part(F)[F \ {Any(F)}]
      BY <3>2, <3>3 DEF IsSum
    <3>5. h[F] = IF F = {} THEN 0 ELSE f[Any(F)] + part(F \ {Any(F)})[F \ {Any(F)}]
      BY <3>2
    <3>6. ASSUME F # {} PROVE part(F)[F \ {Any(F)}] = part(F \ {Any(F)})[F \ {Any(F)}]
      <4> DEFINE G == F \ {Any(F)}
      <4>1. Any(F) \in F
        BY <3>6 DEF Any
      <4>2. G \in SUBSET D /\ G # D /\ G \in SUBSET F /\ G \in SUBSET G
        BY <3>2, <4>1
      <4> HIDE DEF G
      <4>3. IsSum(part(G), f, G)
        BY <2>3, <4>2
      <4>4. part(F)[G] = part(G)[G]
        BY <3>3, <4>2, <4>3, SumsAgree
      <4> QED
        BY <4>4 DEF G
    <3>7. h[F] = part(F)[F]
      <4> HIDE DEF h
      <4> QED
        BY <3>4, <3>5, <3>6
    <3> QED
      BY <3>7 DEF F
  <2>5. IsSum(h, f, D)
    <3>1. \A E \in SUBSET D :
             value(E) = IF E = {} THEN 0 ELSE f[Any(E)] + h[E \ {Any(E)}]
      <4> HIDE DEF h, part
      <4> QED
        BY <2>4
    <3> DEFINE k == [E \in SUBSET D |-> IF E = {} THEN 0 ELSE f[Any(E)] + h[E \ {Any(E)}]]
    <3>2. h = k
      <4> HIDE DEF h
      <4>1. h = [E \in SUBSET D |-> value(E)]
        BY DEF h
      <4> HIDE DEF value
      <4> QED
        BY <3>1, <4>1
    <3> HIDE DEF h
    <3> QED
      BY <3>2, Zenon DEF IsSum, k
  <2> QED
    BY <2>2, <2>5
<1> QED
  BY <1>1

(* heap_get_stats' sums are such. *)
LEMMA TotalIs ==
    ASSUME NEW S, IsFiniteSet(S)
    PROVE  \E g : IsSum(g, size, S) /\ Total(S) = g[S]
<1> DEFINE g == CHOOSE iter : IsSum(iter, size, S)
<1>1. IsSum(g, size, S)
  BY SumsExist
<1>2. Total(S) = g[S]
  BY Zenon DEF Total, MapThenSumSet, MapThenFoldSet, IsSum, Any
<1> QED
  BY <1>1, <1>2

(* They start at 0 and grow by an element at a time. *)
LEMMA TotalStep ==
    /\ Total({}) = 0
    /\ \A S : IsFiniteSet(S) /\ S # {} => Total(S) = size[Any(S)] + Total(S \ {Any(S)})
<1>1. ASSUME NEW S, IsFiniteSet(S)
      PROVE  Total(S) = IF S = {} THEN 0 ELSE size[Any(S)] + Total(S \ {Any(S)})
  <2>1. PICK g : IsSum(g, size, S) /\ Total(S) = g[S]
    BY <1>1, TotalIs
  <2> DEFINE R == S \ {Any(S)}
  <2>2. IsFiniteSet(R) /\ R \in SUBSET S
    BY <1>1, FS_Subset
  <2>3. PICK h : IsSum(h, size, R) /\ Total(R) = h[R]
    BY <2>2, TotalIs
  <2> HIDE DEF R
  <2>4. R \in SUBSET R /\ S \in SUBSET S
    OBVIOUS
  <2>5. g[R] = h[R]
    BY <1>1, <2>1, <2>2, <2>3, <2>4, SumsAgree
  <2>6. g[S] = IF S = {} THEN 0 ELSE size[Any(S)] + g[S \ {Any(S)}]
    BY <2>1, <2>4 DEF IsSum
  <2> QED
    BY <2>1, <2>3, <2>5, <2>6 DEF R
<1> QED
  BY <1>1, FS_EmptySet

(* In whatever order: an element less is its size less. *)
LEMMA TotalRemove ==
    ASSUME TypeOK, NEW S \in SUBSET Addr, IsFiniteSet(S)
    PROVE  /\ Total(S) \in Nat
           /\ \A x \in S : Total(S) = size[x] + Total(S \ {x})
<1> DEFINE Good(D) == /\ Total(D) \in Nat
                      /\ \A x \in D : Total(D) = size[x] + Total(D \ {x})
           Bad == {D \in SUBSET S : ~Good(D)}
<1>0. \A a \in Addr : size[a] \in Nat
  BY DEF TypeOK
<1>1. ASSUME Bad # {} PROVE FALSE
  <2>1. PICK D \in Bad : \A E \in SUBSET D : E # D => E \notin Bad
    <3>1. Bad \in SUBSET (SUBSET S)
      OBVIOUS
    <3> HIDE DEF Bad
    <3> QED
      BY <1>1, <3>1, LeastPart
  <2>2. D \in SUBSET S /\ ~Good(D) /\ IsFiniteSet(D)
    BY <2>1, FS_Subset
  <2>3. \A E \in SUBSET D : E # D => Good(E)
    BY <2>1, <2>2
  <2>4. D # {}
    <3>1. Good({})
      BY TotalStep
    <3> QED
      BY <2>2, <3>1
  <2>5. PICK y : y = Any(D)
    OBVIOUS
  <2>6. y \in D /\ Total(D) = size[y] + Total(D \ {y}) /\ size[y] \in Nat
    BY <1>0, <2>2, <2>4, <2>5, TotalStep DEF Any
  <2>7. Total(D \ {y}) \in Nat
    BY <2>3, <2>6
  <2>8. ASSUME NEW x \in D, x # y PROVE Total(D) = size[x] + Total(D \ {x})
    <3>1. Total(D \ {y}) = size[x] + Total((D \ {y}) \ {x})
      <4>1. D \ {y} # D /\ D \ {y} \in SUBSET D /\ x \in D \ {y}
        BY <2>6, <2>8
      <4> QED
        BY <2>3, <4>1
    <3>2. /\ Total(D \ {x}) = size[y] + Total((D \ {x}) \ {y})
          /\ Total((D \ {x}) \ {y}) \in Nat
      <4>1. D \ {x} # D /\ D \ {x} \in SUBSET D /\ y \in D \ {x}
        BY <2>6, <2>8
      <4>2. (D \ {x}) \ {y} # D /\ (D \ {x}) \ {y} \in SUBSET D
        BY <4>1
      <4> QED
        BY <2>3, <4>1, <4>2
    <3>3. (D \ {x}) \ {y} = (D \ {y}) \ {x}
      OBVIOUS
    <3>4. size[x] \in Nat
      BY <1>0, <2>2
    <3> DEFINE rest == Total((D \ {y}) \ {x})
    <3>5. Total(D \ {y}) = size[x] + rest /\ Total(D \ {x}) = size[y] + rest /\ rest \in Nat
      BY <3>1, <3>2, <3>3
    <3> HIDE DEF rest
    <3>6. size[y] + (size[x] + rest) = size[x] + (size[y] + rest)
      BY <2>6, <3>4, <3>5
    <3> QED
      BY <2>6, <3>5, <3>6
  <2>9. Good(D)
    BY <2>6, <2>7, <2>8
  <2> QED
    BY <2>2, <2>9
<1> QED
  BY <1>1

(* A set's total is that of a part of it and of the rest. *)
LEMMA TotalSplit ==
    ASSUME TypeOK, NEW S \in SUBSET Addr, IsFiniteSet(S), NEW U
    PROVE  Total(S) = Total(S \cap U) + Total(S \ U)
<1> DEFINE Good(D) == Total(D) = Total(D \cap U) + Total(D \ U)
           Bad == {D \in SUBSET S : ~Good(D)}
<1>1. ASSUME Bad # {} PROVE FALSE
  <2>1. PICK D \in Bad : \A E \in SUBSET D : E # D => E \notin Bad
    <3>1. Bad \in SUBSET (SUBSET S)
      OBVIOUS
    <3> HIDE DEF Bad
    <3> QED
      BY <1>1, <3>1, LeastPart
  <2>2. D \in SUBSET S /\ ~Good(D)
    BY <2>1
  <2>3. \A E \in SUBSET D :
           Total(E) \in Nat /\ \A x \in E : Total(E) = size[x] + Total(E \ {x})
    BY <2>2, FS_Subset, TotalRemove
  <2>4. D # {}
    <3>1. {} \cap U = {} /\ {} \ U = {}
      OBVIOUS
    <3> QED
      BY <2>2, <3>1, TotalStep
  <2>5. PICK x : x \in D
    BY <2>4
  <2> DEFINE E == D \ {x}
  <2>6. Good(E)
    <3>1. E \in SUBSET D /\ E # D /\ E \in SUBSET S
      BY <2>2, <2>5
    <3> QED
      BY <2>1, <3>1
  <2>7. /\ Total(D) = size[x] + Total(E) /\ size[x] \in Nat
        /\ Total(E \cap U) \in Nat /\ Total(E \ U) \in Nat
    BY <2>2, <2>3, <2>5 DEF TypeOK
  <2>8. CASE x \in U
    <3>1. /\ (D \cap U) \ {x} = E \cap U /\ E \ U = D \ U
          /\ D \cap U \in SUBSET D /\ x \in D \cap U
      BY <2>5, <2>8
    <3>2. Total(D \cap U) = size[x] + Total(E \cap U)
      BY <2>3, <3>1
    <3>3. Total(D) = size[x] + (Total(E \cap U) + Total(E \ U))
      BY <2>6, <2>7
    <3>4. size[x] + (Total(E \cap U) + Total(E \ U))
              = (size[x] + Total(E \cap U)) + Total(E \ U)
      BY <2>7
    <3>5. Total(D) = Total(D \cap U) + Total(D \ U)
      BY <3>1, <3>2, <3>3, <3>4
    <3> QED
      BY <2>2, <3>5
  <2>9. CASE x \notin U
    <3>1. /\ (D \ U) \ {x} = E \ U /\ E \cap U = D \cap U
          /\ D \ U \in SUBSET D /\ x \in D \ U
      BY <2>5, <2>9
    <3>2. Total(D \ U) = size[x] + Total(E \ U)
      BY <2>3, <3>1
    <3>3. Total(D) = size[x] + (Total(E \cap U) + Total(E \ U))
      BY <2>6, <2>7
    <3>4. size[x] + (Total(E \cap U) + Total(E \ U))
              = Total(E \cap U) + (size[x] + Total(E \ U))
      BY <2>7
    <3>5. Total(D) = Total(D \cap U) + Total(D \ U)
      BY <3>1, <3>2, <3>3, <3>4
    <3> QED
      BY <2>2, <3>5
  <2> QED
    BY <2>8, <2>9
<1> QED
  BY <1>1

-----------------------------------------------------------------------------
(* The heap is full of blocks. *)

(* Where blocks are. *)
LEMMA BlockPlaces ==
    ASSUME Layout
    PROVE  /\ HEAP_START \in Nat /\ HEAP_SIZE \in Nat /\ HDR \in Nat \ {0}
           /\ magic \in SUBSET Addr /\ IsFiniteSet(magic)
           /\ \A b \in magic :
                 /\ b \in Nat /\ size[b] \in Nat /\ HEAP_START <= b
                 /\ BlockEnd(b) = b + HDR + size[b] /\ b < BlockEnd(b)
                 /\ b + HDR < HEAP_START + HEAP_SIZE /\ BlockEnd(b) <= HEAP_START + HEAP_SIZE
<1>1. HEAP_START \in Nat /\ HEAP_SIZE \in Nat /\ HDR \in Nat \ {0}
  BY HeapAssumption
<1>2. magic \in SUBSET Addr /\ IsFiniteSet(magic)
  BY BlocksFinite DEF Layout, TypeOK
<1> SUFFICES ASSUME NEW b \in magic
             PROVE  /\ b \in Nat /\ size[b] \in Nat /\ HEAP_START <= b
                    /\ BlockEnd(b) = b + HDR + size[b] /\ b < BlockEnd(b)
                    /\ b + HDR < HEAP_START + HEAP_SIZE
                    /\ BlockEnd(b) <= HEAP_START + HEAP_SIZE
  BY <1>1, <1>2
<1>3. b \in Nat /\ HEAP_START <= b /\ b \in Addr
  BY <1>1, <1>2 DEF Addr, HEAP_END
<1>4. size[b] \in Nat
  BY <1>3 DEF Layout, TypeOK
<1>5. BlockEnd(b) = b + HDR + size[b]
  BY DEF BlockEnd
<1>6. b + HDR < HEAP_START + HEAP_SIZE /\ BlockEnd(b) <= HEAP_START + HEAP_SIZE
  BY DEF Layout, HeapTiling, InsideHeap, HEAP_END, block_to_ptr
<1> QED
  BY <1>1, <1>3, <1>4, <1>5, <1>6

(* The blocks below an address. *)
Below(a) == {b \in magic : b < a}

(* The blocks below a header fill the heap up to it. *)
LEMMA BlocksBelow ==
    ASSUME Layout, NEW c \in magic
    PROVE  Total(Below(c)) + HDR * Cardinality(Below(c)) = c - HEAP_START
<1> DEFINE Good(b) == Total(Below(b)) + HDR * Cardinality(Below(b)) = b - HEAP_START
           Bad == {b \in magic : ~Good(b)}
<1>0. /\ magic \in SUBSET Addr /\ magic \subseteq Nat /\ IsFiniteSet(magic)
      /\ HDR \in Nat \ {0} /\ HEAP_START \in Nat
      /\ \A b \in magic : b \in Nat /\ size[b] \in Nat /\ HEAP_START <= b
                             /\ BlockEnd(b) = b + HDR + size[b] /\ b < BlockEnd(b)
  BY BlockPlaces
<1>1. ASSUME Bad # {} PROVE FALSE
  <2>1. PICK b \in Bad : \A d \in Bad : b <= d
    <3>1. Bad \in SUBSET Nat
      BY <1>0
    <3> HIDE DEF Bad
    <3> QED
      BY <1>1, <3>1, LeastNatural
  <2>2. b \in magic /\ ~Good(b) /\ b \in Nat
    BY <1>0, <2>1
  <2>3. b # HEAP_START
    <3>1. CASE b = HEAP_START
      <4>1. Below(b) = {}
        <5>1. \A d \in magic : ~(d < HEAP_START)
          BY <1>0
        <5> QED
          BY <3>1, <5>1 DEF Below
      <4>2. Total(Below(b)) = 0 /\ Cardinality(Below(b)) = 0
        BY <4>1, TotalStep, FS_EmptySet
      <4>3. HDR * 0 = 0 /\ b - HEAP_START = 0
        BY <1>0, <3>1
      <4> QED
        BY <2>2, <4>2, <4>3
    <3> QED
      BY <3>1
  <2>4. PICK a \in magic : next[a] = b /\ b # NULL
    <3>1. prev[b] \in magic /\ next[prev[b]] = b
      BY <2>2, <2>3 DEF Layout, HeapTiling, PrevIsInverse
    <3>2. b # NULL
      BY <1>0, <2>2, HeapAssumption DEF NULL
    <3> QED
      BY <3>1, <3>2
  <2>5. b = BlockEnd(a) /\ b = a + HDR + size[a] /\ a < b /\ a \in Nat /\ size[a] \in Nat
    BY <1>0, <2>4 DEF Layout, HeapTiling, NextIsAdjacent, BlockEnd
  <2>6. Below(b) \ {a} = Below(a) /\ a \in Below(b) /\ Below(b) \in SUBSET magic
    <3>1. ASSUME NEW d \in magic PROVE d < b <=> d = a \/ d < a
      <4>1. a < d => BlockEnd(a) <= d
        BY <2>4 DEF Layout, HeapTiling, NoOverlap
      <4>2. d \in Nat
        BY <1>0
      <4> QED
        BY <2>5, <4>1, <4>2
    <3>2. ~(a < a)
      BY <2>5
    <3> QED
      BY <2>5, <3>1, <3>2 DEF Below
  <2>7. Good(a)
    <3>1. ~(b <= a)
      BY <2>5
    <3> QED
      BY <2>1, <3>1
  <2>8. IsFiniteSet(Below(b)) /\ IsFiniteSet(Below(a)) /\ Below(b) \in SUBSET Addr
    BY <1>0, <2>6, FS_Subset
  <2>9. Total(Below(b)) = size[a] + Total(Below(a)) /\ Total(Below(b)) \in Nat
    BY <2>6, <2>8, TotalRemove DEF Layout
  <2>10. Cardinality(Below(a)) = Cardinality(Below(b)) - 1 /\ Cardinality(Below(b)) \in Nat
    BY <2>6, <2>8, FS_RemoveElement, FS_CardinalityType
  <2> DEFINE t == Total(Below(a))
             n == Cardinality(Below(a))
  <2>11. /\ t \in Int /\ n \in Int
         /\ Total(Below(b)) = size[a] + t /\ Cardinality(Below(b)) = n + 1
    <3>0. t \in Nat
      <4>1. Below(a) \in SUBSET Addr
        BY <1>0 DEF Below
      <4> QED
        BY <2>8, <4>1, TotalRemove DEF Layout
    <3>1. t = Total(Below(b)) - size[a]
      BY <2>5, <2>9, <3>0
    <3> QED
      BY <2>5, <2>9, <2>10, <3>1
  <2>12. t + HDR * n = a - HEAP_START
    BY <2>7
  <2> HIDE DEF t, n
  <2>13. size[a] + t + HDR * (n + 1) = b - HEAP_START
    <3>1. HDR * (n + 1) = HDR * n + HDR
      BY <1>0, <2>11
    <3>2. HDR * n \in Int
      BY <1>0, <2>11
    <3> QED
      BY <1>0, <2>5, <2>11, <2>12, <3>1, <3>2
  <2> QED
    BY <2>2, <2>11, <2>13
<1> QED
  BY <1>1

(* All together fill it. *)
LEMMA BlocksFillHeap ==
    ASSUME Layout, heap_initialized
    PROVE  Total(magic) + HDR * Cardinality(magic) = HEAP_SIZE
<1>0. /\ magic \in SUBSET Addr /\ IsFiniteSet(magic) /\ HDR \in Nat \ {0}
      /\ HEAP_START \in Nat /\ HEAP_SIZE \in Nat
      /\ \A b \in magic :
            /\ b \in Nat /\ size[b] \in Nat /\ b + HDR < HEAP_START + HEAP_SIZE
            /\ BlockEnd(b) = b + HDR + size[b] /\ b < BlockEnd(b)
  BY BlockPlaces
<1>1. PICK c \in magic : \A b \in magic : b <= c
  <2>1. /\ magic \in SUBSET Nat /\ HEAP_START + HEAP_SIZE \in Nat /\ magic # {}
        /\ \A b \in magic : b <= HEAP_START + HEAP_SIZE
    <3>1. \A b \in magic : b <= HEAP_START + HEAP_SIZE
      BY <1>0
    <3> QED
      BY <1>0, <3>1 DEF Layout, HeapTiling, StartsAtHead
  <2> QED
    BY <1>0, <2>1, MaxIsGreatest
<1>2. BlockEnd(c) = HEAP_START + HEAP_SIZE
  <2>1. CASE BlockEnd(c) # HEAP_END
    <3>1. BlockEnd(c) \in magic
      BY <2>1 DEF Layout, HeapTiling, NextIsAdjacent
    <3>2. BlockEnd(c) <= c /\ c < BlockEnd(c) /\ c \in Nat /\ BlockEnd(c) \in Nat
      BY <1>0, <1>1, <3>1
    <3> QED
      BY <3>2
  <2> QED
    BY <2>1 DEF HEAP_END
<1>3. magic \ {c} = Below(c)
  <2>1. \A b \in magic : b < c <=> b # c
    BY <1>0, <1>1
  <2> QED
    BY <2>1 DEF Below
<1>4. Total(magic) = size[c] + Total(Below(c))
  BY <1>0, <1>3, TotalRemove DEF Layout
<1>5. Cardinality(Below(c)) = Cardinality(magic) - 1 /\ Cardinality(magic) \in Nat
  BY <1>0, <1>3, FS_RemoveElement, FS_CardinalityType
<1>6. Total(Below(c)) + HDR * Cardinality(Below(c)) = c - HEAP_START
  BY BlocksBelow
<1>7. Total(Below(c)) \in Nat
  BY <1>0, <1>3, FS_Subset, TotalRemove DEF Layout
<1> DEFINE t == Total(Below(c))
           n == Cardinality(Below(c))
<1>8. /\ t \in Int /\ n \in Int /\ Total(magic) = size[c] + t /\ Cardinality(magic) = n + 1
      /\ t + HDR * n = c - HEAP_START /\ size[c] \in Nat /\ c \in Nat
  BY <1>0, <1>4, <1>5, <1>6, <1>7
<1>9. c + HDR + size[c] = HEAP_START + HEAP_SIZE
  BY <1>2 DEF BlockEnd
<1> HIDE DEF t, n
<1>10. HDR * (n + 1) = HDR * n + HDR /\ HDR * n \in Int
  BY <1>0, <1>8
<1>11. size[c] + t + HDR * (n + 1) = HEAP_SIZE
  BY <1>0, <1>8, <1>9, <1>10
<1> QED
  BY <1>8, <1>11

-----------------------------------------------------------------------------
(* The walk exists: it goes from each block to the next, and stays at NULL. *)
IsWalk(g, m) ==
    g = [n \in 0 .. m |->
            IF n = 0 THEN heap_head
            ELSE IF is_valid_block(g[n - 1]) THEN next[g[n - 1]] ELSE NULL]

LEMMA WalkExists ==
    ASSUME NEW m \in Nat
    PROVE  \E g : IsWalk(g, m)
<1> DEFINE Bad == {k \in Nat : ~\E g : IsWalk(g, k)}
<1>1. ASSUME Bad # {} PROVE FALSE
  <2>1. PICK k \in Bad : \A j \in Bad : k <= j
    <3>1. Bad \in SUBSET Nat
      OBVIOUS
    <3> HIDE DEF Bad
    <3> QED
      BY <1>1, <3>1, LeastNatural
  <2>2. k \in Nat /\ ~\E g : IsWalk(g, k)
    BY <2>1
  <2>3. k # 0
    <3> DEFINE g == [n \in 0 .. 0 |-> heap_head]
    <3>1. IsWalk(g, 0)
      BY DEF IsWalk
    <3> QED
      BY <2>2, <3>1
  <2>4. PICK g : IsWalk(g, k - 1)
    <3>1. k - 1 \in Nat /\ ~(k <= k - 1)
      BY <2>2, <2>3
    <3>2. k - 1 \notin Bad
      BY <2>1, <3>1
    <3> QED
      BY <3>1, <3>2
  <2> DEFINE step(b) == IF is_valid_block(b) THEN next[b] ELSE NULL
             h == [n \in 0 .. k |-> IF n = k THEN step(g[k - 1]) ELSE g[n]]
  <2>5. ASSUME NEW n \in 0 .. k
        PROVE  h[n] = IF n = 0 THEN heap_head ELSE step(h[n - 1])
    <3> HIDE DEF step
    <3>1. CASE n = k
      <4>1. k - 1 \in 0 .. k /\ k - 1 # k
        BY <2>2, <2>3
      <4> QED
        BY <2>3, <3>1, <4>1
    <3>2. CASE n # k
      <4>1. n \in 0 .. k - 1 /\ (n # 0 => n - 1 \in 0 .. k /\ n - 1 # k)
        BY <2>2, <3>2
      <4>2. g[n] = IF n = 0 THEN heap_head ELSE step(g[n - 1])
        BY <2>4, <4>1 DEF IsWalk, step
      <4> QED
        BY <3>2, <4>1, <4>2
    <3> QED
      BY <3>1, <3>2
  <2>6. IsWalk(h, k)
    <3> DEFINE u == [n \in 0 .. k |-> IF n = 0 THEN heap_head ELSE step(h[n - 1])]
    <3>1. h = u
      <4> HIDE DEF step
      <4>1. \A n \in 0 .. k : h[n] = u[n]
        BY <2>5
      <4>2. /\ h \in [0 .. k -> {h[n] : n \in 0 .. k}]
            /\ u \in [0 .. k -> {u[n] : n \in 0 .. k}]
        OBVIOUS
      <4> HIDE DEF h, u
      <4> QED
        BY <4>1, <4>2
    <3> HIDE DEF h
    <3> QED
      BY <3>1, Zenon DEF IsWalk, u, step
  <2> QED
    BY <2>2, <2>6
<1> QED
  BY <1>1

(* heap_get_stats walks like that: heap_head first, then along next. *)
LEMMA WalkSteps ==
    /\ Walk[0] = heap_head
    /\ \A n \in 1 .. HEAP_SIZE :
          Walk[n] = IF Walk[n - 1] \in magic THEN next[Walk[n - 1]] ELSE NULL
<1>1. IsWalk(Walk, HEAP_SIZE)
  <2> DEFINE g == CHOOSE w : IsWalk(w, HEAP_SIZE)
  <2>1. IsWalk(g, HEAP_SIZE)
    BY WalkExists, HeapAssumption
  <2>2. Walk = g
    BY Zenon DEF Walk, IsWalk
  <2> QED
    BY <2>1, <2>2
<1> HIDE DEF Walk
<1>2. ASSUME NEW n \in 0 .. HEAP_SIZE
      PROVE  Walk[n] = IF n = 0 THEN heap_head
                       ELSE IF is_valid_block(Walk[n - 1]) THEN next[Walk[n - 1]] ELSE NULL
  BY <1>1 DEF IsWalk
<1>3. 0 \in 0 .. HEAP_SIZE /\ \A n \in 1 .. HEAP_SIZE : n \in 0 .. HEAP_SIZE /\ n # 0
  BY HeapAssumption
<1> QED
  BY <1>2, <1>3 DEF is_valid_block

(* After n steps the walk is past every block it has not met, and has left  *)
(* n headers behind unless it is over.                                      *)
WalkAt(n) ==
    /\ Walk[n] = NULL \/ Walk[n] \in magic
    /\ Walk[n] \in magic => HEAP_START + HDR * n <= Walk[n]
    /\ \A c \in magic :
          Walk[n] = NULL \/ c < Walk[n] => \E j \in 0 .. n - 1 : Walk[j] = c

(* Each step keeps that: next of a block is the block behind it. *)
LEMMA WalkAdvances ==
    ASSUME Layout, NEW n \in 1 .. HEAP_SIZE, WalkAt(n - 1)
    PROVE  WalkAt(n)
<1> DEFINE w == Walk[n - 1]
<1>0. /\ magic \in SUBSET Addr /\ magic \subseteq Nat /\ NULL \notin magic
      /\ HDR \in Nat \ {0} /\ HEAP_START \in Nat \ {0} /\ HEAP_SIZE \in Nat
      /\ n \in Nat \ {0} /\ n - 1 \in Nat
      /\ \A b \in magic : b \in Nat /\ size[b] \in Nat /\ HEAP_START <= b
                             /\ BlockEnd(b) = b + HDR + size[b] /\ b < BlockEnd(b)
                             /\ b + HDR < HEAP_START + HEAP_SIZE
  <2>1. NULL \notin magic
    BY BlockPlaces, HeapAssumption DEF NULL
  <2>2. HEAP_START \in Nat \ {0}
    BY HeapAssumption
  <2> QED
    BY <2>1, <2>2, BlockPlaces
<1>1. Walk[n] = IF w \in magic THEN next[w] ELSE NULL
  BY WalkSteps
<1>2. /\ w = NULL \/ w \in magic
      /\ w \in magic => HEAP_START + HDR * (n - 1) <= w
      /\ \A c \in magic : w = NULL \/ c < w => \E j \in 0 .. n - 1 : Walk[j] = c
  <2>1. \A j \in 0 .. (n - 1) - 1 : j \in 0 .. n - 1
    BY <1>0
  <2> QED
    BY <2>1 DEF WalkAt
<1>3. n - 1 \in 0 .. n - 1 /\ Walk[n - 1] = w
  BY <1>0
<1> HIDE DEF w
<1>4. CASE w \notin magic
  <2>1. w = NULL /\ Walk[n] = NULL
    BY <1>1, <1>2, <1>4
  <2> QED
    BY <1>0, <1>2, <2>1 DEF WalkAt
<1>5. CASE w \in magic
  <2>1. \A c \in magic : c < BlockEnd(w) => \E j \in 0 .. n - 1 : Walk[j] = c
    <3> TAKE c \in magic
    <3> HAVE c < BlockEnd(w)
    <3>1. ~(w < c)
      <4>1. w < c => BlockEnd(w) <= c
        BY <1>5 DEF Layout, HeapTiling, NoOverlap
      <4>2. c \in Nat /\ BlockEnd(w) \in Nat
        BY <1>0, <1>5
      <4> QED
        BY <4>1, <4>2
    <3>2. c = w \/ c < w
      BY <1>0, <1>5, <3>1
    <3> QED
      BY <1>2, <1>3, <3>2
  <2>2. CASE BlockEnd(w) = HEAP_END
    <3>1. Walk[n] = NULL
      BY <1>1, <1>5, <2>2 DEF Layout, HeapTiling, NextIsAdjacent
    <3>2. \A c \in magic : c < BlockEnd(w)
      BY <1>0, <2>2 DEF HEAP_END
    <3> QED
      BY <1>0, <2>1, <3>1, <3>2 DEF WalkAt
  <2>3. CASE BlockEnd(w) # HEAP_END
    <3>1. Walk[n] = BlockEnd(w) /\ BlockEnd(w) \in magic
      BY <1>1, <1>5, <2>3 DEF Layout, HeapTiling, NextIsAdjacent
    <3>2. HEAP_START + HDR * n <= BlockEnd(w)
      <4>1. HDR * n = HDR * (n - 1) + HDR /\ HDR * (n - 1) \in Int
        BY <1>0
      <4>2. /\ HEAP_START + HDR * (n - 1) <= w /\ w \in Nat /\ size[w] \in Nat
            /\ BlockEnd(w) = w + HDR + size[w]
        BY <1>0, <1>2, <1>5
      <4> DEFINE behind == HDR * (n - 1)
      <4>3. behind \in Int /\ HDR * n = behind + HDR /\ HEAP_START + behind <= w
        BY <4>1, <4>2
      <4> HIDE DEF behind
      <4> QED
        BY <1>0, <4>2, <4>3
    <3>3. BlockEnd(w) # NULL
      BY <1>0, <3>1
    <3> QED
      BY <2>1, <3>1, <3>2, <3>3 DEF WalkAt
  <2> QED
    BY <2>2, <2>3
<1> QED
  BY <1>4, <1>5

(* So the walk of heap_get_stats and heap_validate meets every block and    *)
(* nothing else, and is over before its bound.                              *)
LEMMA WalkVisitsAll ==
    ASSUME Layout, heap_initialized
    PROVE  Visited = magic /\ heap_validate
<1> DEFINE Bad == {n \in 0 .. HEAP_SIZE : ~WalkAt(n)}
<1>1. HEAP_SIZE \in Nat /\ HDR \in Nat \ {0} /\ HEAP_START \in Nat \ {0}
  BY HeapAssumption
<1>2. ASSUME Bad # {} PROVE FALSE
  <2>1. PICK n \in Bad : \A m \in Bad : n <= m
    <3>1. Bad \in SUBSET Nat
      BY <1>1
    <3> HIDE DEF Bad
    <3> QED
      BY <1>2, <3>1, LeastNatural
  <2>2. n \in 0 .. HEAP_SIZE /\ ~WalkAt(n)
    BY <2>1
  <2>3. n # 0
    <3>1. Walk[0] = HEAP_START /\ HEAP_START \in magic
      BY WalkSteps DEF Layout, TypeOK, HeapTiling, StartsAtHead
    <3>2. \A c \in magic : ~(c < HEAP_START)
      BY <1>1, BlockPlaces
    <3>3. HEAP_START # NULL /\ HEAP_START + HDR * 0 <= HEAP_START
      BY <1>1 DEF NULL
    <3>4. WalkAt(0)
      BY <3>1, <3>2, <3>3 DEF WalkAt
    <3> QED
      BY <2>2, <3>4
  <2>4. n - 1 \in 0 .. HEAP_SIZE /\ ~(n <= n - 1) /\ n \in 1 .. HEAP_SIZE
    BY <1>1, <2>2, <2>3
  <2>5. WalkAt(n - 1)
    BY <2>1, <2>4
  <2> QED
    BY <2>2, <2>4, <2>5, WalkAdvances
<1> DEFINE last == HEAP_SIZE \div HDR
<1>3. last \in Nat /\ last <= HEAP_SIZE /\ HEAP_SIZE < HDR * (last + 1)
  <2>1. last \in Nat /\ HEAP_SIZE < HDR * (last + 1) /\ HDR * last <= HEAP_SIZE
    BY <1>1, Z3
  <2> HIDE DEF last
  <2>2. last <= HDR * last
    BY <1>1, <2>1, Z3
  <2>3. HDR * last \in Int
    BY <1>1, <2>1
  <2> QED
    BY <1>1, <2>1, <2>2, <2>3
<1>4. Visited = {Walk[n] : n \in 0 .. last} \cap magic
  BY DEF Visited
<1>5. heap_validate <=> \A n \in 0 .. last :
                           n < VALIDATE_LIMIT /\ Walk[n] # NULL => Walk[n] \in magic
  BY DEF heap_validate, is_valid_block
<1> HIDE DEF last
<1>6. \A n \in 0 .. last : WalkAt(n)
  <2>1. \A n \in 0 .. last : n \in 0 .. HEAP_SIZE
    BY <1>1, <1>3
  <2> QED
    BY <1>2, <2>1
<1>7. heap_validate
  BY <1>5, <1>6 DEF WalkAt
<1>8. ASSUME NEW c \in magic PROVE \E n \in 0 .. last : Walk[n] = c
  <2>1. WalkAt(last) /\ last \in 0 .. last
    BY <1>3, <1>6
  <2>2. Walk[last] \notin magic
    <3>1. ASSUME Walk[last] \in magic PROVE FALSE
      <4> DEFINE w == Walk[last]
                 headers == HDR * last
      <4>1. /\ w \in Nat /\ w + HDR < HEAP_START + HEAP_SIZE
            /\ HEAP_START + headers <= w
        BY <2>1, <3>1, BlockPlaces DEF WalkAt
      <4>2. HDR * (last + 1) = headers + HDR /\ headers \in Int
        BY <1>1, <1>3
      <4> HIDE DEF w, headers
      <4> QED
        BY <1>1, <1>3, <4>1, <4>2
    <3> QED
      BY <3>1
  <2>3. \E j \in 0 .. last - 1 : Walk[j] = c
    BY <2>1, <2>2 DEF WalkAt
  <2>4. \A j \in 0 .. last - 1 : j \in 0 .. last
    BY <1>3
  <2> QED
    BY <2>3, <2>4
<1>9. Visited = magic
  BY <1>4, <1>8
<1> QED
  BY <1>7, <1>9

(* The blocks fill the heap, the walk meets them all, and the used ones     *)
(* among them are counted.                                                  *)
LEMMA LayoutBalances ==
    ASSUME Layout, UsedCounted
    PROVE  StatsBalance
<1> SUFFICES ASSUME heap_initialized, pc = "idle"
             PROVE  LET s == heap_get_stats IN
                    /\ heap_validate
                    /\ s.used_size + s.free_size + HDR * s.block_count = HEAP_SIZE
                    /\ s.used_block_count = total_allocations - total_frees
  BY DEF StatsBalance
<1>1. Visited = magic /\ heap_validate
  BY WalkVisitsAll
<1>2. {b \in Visited : ~is_free[b]} = Used
  BY <1>1 DEF Used
<1>3. /\ heap_get_stats.used_size = Total(Used)
      /\ heap_get_stats.free_size = Total(magic \ Used)
      /\ heap_get_stats.block_count = Cardinality(magic)
      /\ heap_get_stats.used_block_count = Cardinality(Used)
  <2> HIDE DEF Visited, Total, Used
  <2> QED
    BY <1>1, <1>2 DEF heap_get_stats
<1>4. /\ magic \in SUBSET Addr /\ IsFiniteSet(magic) /\ TypeOK
      /\ Cardinality(Used) \in Nat /\ Used \in SUBSET Addr
      /\ total_allocations \in Nat /\ total_frees \in Nat
  BY BlocksFinite DEF Layout, TypeOK, Used
<1>5. Total(magic) = Total(Used) + Total(magic \ Used)
  <2>1. magic \cap Used = Used
    BY DEF Used
  <2> QED
    BY <1>4, <2>1, TotalSplit
<1>6. Total(magic) + HDR * Cardinality(magic) = HEAP_SIZE
  BY BlocksFillHeap
<1>7. Cardinality(Used) = total_allocations - total_frees
  <2>1. Cardinality(Used) + total_frees + 0 = total_allocations
    BY DEF UsedCounted
  <2> QED
    BY <1>4, <2>1
<1> QED
  BY <1>1, <1>3, <1>5, <1>6, <1>7

(* Between calls the statistics account for every byte and every block, and *)
(* heap_validate agrees.                                                    *)
THEOREM StatisticsBalance ==
    ASSUME NoTruncation
    PROVE  Spec => []StatsBalance
<1>1. HeapInv /\ UsedCounted => StatsBalance
  BY LayoutBalances DEF HeapInv, IInv
<1> QED
  BY <1>1, HeapInvariant, CountersBalance, PTL
=============================================================================
