-------------------------- MODULE KmallocRefinement --------------------------
(***************************************************************************)
(* The block list of kmalloc.c implements the allocator of HeapSpec, and a *)
(* caller gets as many bytes as it asked for, as long as no size reaches   *)
(* the range where align_up truncates (NoTruncation): kmalloc.c:18-23      *)
(* cuts every size to 32 bits.                                             *)
(***************************************************************************)
EXTENDS KmallocProofs

(* The block behind a pointer holds what its caller asked for (kmalloc,      *)
(* kcalloc with its overflow check, krealloc), below the truncation.         *)
THEOREM GrantsCoverRequests ==
    ASSUME NoTruncation
    PROVE  Spec => []GrantedEnough
<1>1. HeapInv => GrantedEnough
  BY DEF HeapInv, Grants
<1> QED
  BY <1>1, HeapInvariant, PTL

-----------------------------------------------------------------------------
(* The bytes of an allocation lie inside its block, past the header.         *)
LEMMA OwnedInBlock ==
    ASSUME HeapInv, NEW q \in live, NEW a \in Abstract!Owned(q, req[q])
    PROVE  /\ a \in Addr /\ ptr_to_block(q) \in magic
           /\ ptr_to_block(q) < a /\ a < BlockEnd(ptr_to_block(q))
           /\ ~is_free[ptr_to_block(q)]
<1> USE HeapAssumption
<1>1. /\ ptr_to_block(q) \in magic /\ ~is_free[ptr_to_block(q)]
      /\ req[q] <= size[ptr_to_block(q)]
  BY DEF HeapInv, IInv, Owners, Grants, GrantedEnough
<1>2. /\ q \in Addr /\ req[q] \in Nat /\ size[ptr_to_block(q)] \in Nat
      /\ BlockEnd(ptr_to_block(q)) <= HEAP_END /\ ptr_to_block(q) \in Addr
  BY <1>1 DEF HeapInv, IInv, Layout, TypeOK, HeapTiling, InsideHeap
<1>3. q \in Int /\ q >= HEAP_START
  BY <1>2 DEF Addr, HEAP_END
<1>4. a \in Int /\ q <= a /\ a < q + req[q]
  BY <1>2, <1>3 DEF Abstract!Owned
<1>5. BlockEnd(ptr_to_block(q)) = q + size[ptr_to_block(q)]
  BY <1>2, <1>3 DEF BlockEnd, ptr_to_block
<1>6. ptr_to_block(q) < a /\ a < BlockEnd(ptr_to_block(q))
  BY <1>1, <1>2, <1>3, <1>4, <1>5 DEF ptr_to_block
<1>7. a \in Addr
  BY <1>2, <1>3, <1>4, <1>5, <1>6 DEF Addr, HEAP_END
<1> QED
  BY <1>1, <1>6, <1>7

(* A byte lies in one block.                                                 *)
LEMMA BlocksApart ==
    ASSUME Layout, NEW b \in magic, NEW c \in magic, NEW a \in Int,
           b < a, a < BlockEnd(b), c < a, a < BlockEnd(c)
    PROVE  b = c
<1>1. /\ b \in Int /\ c \in Int /\ size[b] \in Nat /\ size[c] \in Nat
  BY HeapAssumption DEF Layout, TypeOK, Addr, HEAP_END
<1>2. BlockEnd(b) \in Int /\ BlockEnd(c) \in Int
  BY <1>1, HeapAssumption DEF BlockEnd
<1>3. ~(b < c) /\ ~(c < b)
  BY <1>1, <1>2 DEF Layout, HeapTiling, NoOverlap
<1> QED
  BY <1>1, <1>3

(* What happens inside one block is unseen by the owners of the others.      *)
LEMMA OthersPreserved ==
    ASSUME HeapInv, NEW b \in magic, NEW others \in SUBSET live,
           \A q \in others : ptr_to_block(q) # b /\ req'[q] = req[q],
           \A a \in Addr : ~(b < a /\ a < BlockEnd(b)) => mem'[a] = mem[a]
    PROVE  Abstract!Preserved(others)
<1> SUFFICES ASSUME NEW q \in others, NEW a \in Abstract!Owned(q, req[q])
             PROVE  mem'[a] = mem[a]
  BY DEF Abstract!Preserved
<1>1. /\ a \in Addr /\ ptr_to_block(q) \in magic
      /\ ptr_to_block(q) < a /\ a < BlockEnd(ptr_to_block(q))
  BY OwnedInBlock
<1>2. Layout /\ a \in Int
  <2>1. Layout
    BY DEF HeapInv, IInv
  <2>2. a \in Int
    BY <1>1, HeapAssumption DEF Addr, HEAP_END
  <2> QED
    BY <2>1, <2>2
<1>3. ~(b < a /\ a < BlockEnd(b))
  BY <1>1, <1>2, BlocksApart
<1> QED
  BY <1>1, <1>3

(* Room inside block b for n bytes is room nobody else owns.                 *)
LEMMA PlacedInBlock ==
    ASSUME HeapInv, NEW b \in magic, NEW others \in SUBSET live,
           \A q \in others : ptr_to_block(q) # b,
           NEW n \in Nat, n <= size[b]
    PROVE  Abstract!Placed(block_to_ptr(b), n, others)
<1> USE HeapAssumption
<1>0. Layout
  BY DEF HeapInv, IInv
<1>1. /\ b \in Int /\ HEAP_START <= b /\ size[b] \in Nat
      /\ BlockEnd(b) <= HEAP_END
  BY DEF HeapInv, IInv, Layout, TypeOK, HeapTiling, InsideHeap, Addr, HEAP_END
<1>2. ASSUME NEW a \in Abstract!Owned(block_to_ptr(b), n)
      PROVE  a \in Addr /\ b < a /\ a < BlockEnd(b)
  <2>1. a \in Int /\ b < a /\ a < BlockEnd(b)
    BY <1>1 DEF Abstract!Owned, block_to_ptr, BlockEnd
  <2>2. BlockEnd(b) \in Int
    BY <1>1 DEF BlockEnd
  <2> QED
    BY <1>1, <2>1, <2>2 DEF Addr, HEAP_END
<1>3. ASSUME NEW q \in others, NEW a \in Abstract!Owned(block_to_ptr(b), n),
             a \in Abstract!Owned(q, req[q])
      PROVE  FALSE
  <2>1. a \in Int /\ b < a /\ a < BlockEnd(b)
    BY <1>2 DEF Addr, HEAP_END
  <2>2. /\ ptr_to_block(q) \in magic
        /\ ptr_to_block(q) < a /\ a < BlockEnd(ptr_to_block(q))
    BY <1>3, OwnedInBlock
  <2>3. ptr_to_block(q) = b
    BY <1>0, <2>1, <2>2, BlocksApart
  <2> QED
    BY <2>3
<1> QED
  BY <1>2, <1>3 DEF Abstract!Placed

-----------------------------------------------------------------------------
(* The granted pointer: zeroed room in a block that was free, or, for        *)
(* krealloc, a step its caller does not see.                                 *)
LEMMA FindHitRefines ==
    ASSUME HeapInv, FindHit
    PROVE  Abstract!Next
<1> USE HeapAssumption
<1>0. Layout
  BY DEF HeapInv, IInv
<1>1. /\ current \in magic /\ current \in Int /\ current \in Addr /\ is_free[current]
      /\ pc = "find" /\ want \in Nat /\ request \in Nat /\ request <= want
      /\ want <= size[current] /\ size[current] \in Nat
      /\ BlockEnd(current) <= HEAP_END
  BY DEF HeapInv, IInv, Layout, TypeOK, CallState, HeapTiling, InsideHeap, Grants,
         FindHit, Fits, Addr, HEAP_END
<1>2. \A q \in live : ptr_to_block(q) # current
  BY <1>1 DEF HeapInv, IInv, Owners
<1>3. /\ \A a \in Payload(current, want) : a \in Addr => mem'[a] = ZERO
      /\ \A a \in Addr : ~(current < a /\ a < BlockEnd(current)) => mem'[a] = mem[a]
  <2>1. \A a \in Payload(current, want) : current < a /\ a < BlockEnd(current)
    BY <1>1 DEF Payload, block_to_ptr, BlockEnd
  <2>2. CASE WorthSplitting(current) /\ split_block(current)
    <3>1. \A a \in Header(block_to_ptr(current) + want) :
             current < a /\ a < BlockEnd(current)
      BY <2>2, <1>1 DEF Header, block_to_ptr, BlockEnd, WorthSplitting
    <3> QED
      BY <2>1, <2>2, <3>1 DEF split_block
  <2>3. CASE TakeWhole(current)
    BY <2>1, <2>3 DEF TakeWhole, Store
  <2> QED
    BY <2>2, <2>3 DEF FindHit
<1>4. CASE /\ old = NULL
           /\ live' = live \cup {block_to_ptr(current)}
           /\ req' = [req EXCEPT ![block_to_ptr(current)] = request]
  <2>1. PICK p : p = block_to_ptr(current)
    OBVIOUS
  <2>2. p \in Addr
    BY <1>0, <1>1, <2>1, PtrInHeap
  <2>3. p \notin live
    BY <1>1, <1>2, <2>1, PtrAndBlock
  <2>4. /\ req'[p] = request
        /\ \A q \in live : ptr_to_block(q) # current /\ req'[q] = req[q]
    BY <1>2, <1>4, <2>1, <2>2, <2>3 DEF HeapInv, IInv, Layout, TypeOK
  <2>5. Abstract!Placed(p, request, live)
    BY <1>1, <1>2, <2>1, PlacedInBlock
  <2>6. Abstract!Preserved(live)
    BY <1>1, <1>3, <2>4, OthersPreserved
  <2>7. \A a \in Abstract!Owned(p, request) : mem'[a] = ZERO
    <3>1. Abstract!Owned(p, request) \subseteq Addr
      BY <2>5 DEF Abstract!Placed
    <3>2. Abstract!Owned(p, request) \subseteq Payload(current, want)
      BY <1>1, <2>1 DEF Abstract!Owned, Payload, block_to_ptr
    <3> QED
      BY <3>1, <3>2, <1>3
  <2>8. Abstract!Alloc(p, req'[p])
    BY <1>4, <2>1, <2>3, <2>4, <2>5, <2>6, <2>7 DEF Abstract!Alloc
  <2> QED
    BY <2>2, <2>8 DEF Abstract!Next
<1>5. CASE UNCHANGED <<live, req>>
  <2>1. Abstract!Preserved(live)
    BY <1>1, <1>2, <1>3, <1>5, OthersPreserved
  <2> QED
    BY <1>5, <2>1 DEF Abstract!Next, Abstract!Internal
<1> QED
  BY <1>4, <1>5 DEF FindHit, Grant

(* krealloc's move is a resize to another place.                             *)
LEMMA CopyAndFreeRefines ==
    ASSUME HeapInv, CopyAndFree
    PROVE  Abstract!Next
<1> USE HeapAssumption
<1>0. Layout
  BY DEF HeapInv, IInv
<1>1. /\ pc = "copy" /\ old \in live /\ old \in Addr /\ request \in Nat
      /\ current \in magic /\ current \in Int /\ size[current] \in Nat
      /\ request <= size[current] /\ size[ptr_to_block(old)] < request
      /\ BlockEnd(current) <= HEAP_END /\ HEAP_START <= current
  BY DEF HeapInv, IInv, Layout, TypeOK, CallState, HeapTiling, InsideHeap, Grants,
         CopyAndFree, Addr, HEAP_END
<1>2. PICK q : q = block_to_ptr(current)
  OBVIOUS
<1>3. /\ live' = (live \ {old}) \cup {q}
      /\ req' = [req EXCEPT ![old] = 0, ![q] = request]
      /\ mem' = [a \in Addr |->
                    IF a \in q .. q + size[ptr_to_block(old)] - 1
                    THEN mem[old + (a - q)] ELSE mem[a]]
  BY <1>2 DEF CopyAndFree, Moved, new_ptr
<1>4. q \in Addr /\ q \in Int
  BY <1>0, <1>1, <1>2, PtrInHeap DEF Addr, HEAP_END
<1>5. \A r \in live : ptr_to_block(r) # current
  BY <1>1 DEF HeapInv, IInv, Owners
<1>6. q \notin live /\ q # old
  BY <1>1, <1>2, <1>5, PtrAndBlock
<1>7. /\ req'[q] = request
      /\ \A r \in live \ {old} : ptr_to_block(r) # current /\ req'[r] = req[r]
  BY <1>3, <1>4, <1>5, <1>6 DEF HeapInv, IInv, Layout, TypeOK
<1>8. size[ptr_to_block(old)] \in Nat /\ req[old] \in Nat
      /\ req[old] <= size[ptr_to_block(old)]
  BY <1>1 DEF HeapInv, IInv, Layout, TypeOK, Owners, Grants, GrantedEnough
<1>9. Abstract!Placed(q, request, live \ {old})
  BY <1>1, <1>2, <1>5, PlacedInBlock
<1>10. Abstract!Preserved(live \ {old})
  <2>1. \A a \in q .. q + size[ptr_to_block(old)] - 1 : current < a /\ a < BlockEnd(current)
    BY <1>1, <1>2, <1>8 DEF block_to_ptr, BlockEnd
  <2>2. \A a \in Addr : ~(current < a /\ a < BlockEnd(current)) => mem'[a] = mem[a]
    BY <2>1, <1>3
  <2> QED
    BY <2>2, <1>1, <1>7, OthersPreserved
<1>11. ASSUME NEW i \in 0 .. request - 1, i < req[old]
       PROVE  mem'[q + i] = mem[old + i]
  <2>1. q + i \in q .. q + size[ptr_to_block(old)] - 1
    BY <1>4, <1>8, <1>11
  <2>2. q + i \in Addr
    <3>1. q + i \in Abstract!Owned(q, request)
      BY <1>1, <1>4 DEF Abstract!Owned
    <3> QED
      BY <3>1, <1>9 DEF Abstract!Placed
  <2>3. old + ((q + i) - q) = old + i
    BY <1>1, <1>4 DEF Addr, HEAP_END
  <2> QED
    BY <2>1, <2>2, <2>3, <1>3
<1>12. Abstract!Resize(old, q, req'[q])
  BY <1>3, <1>6, <1>7, <1>9, <1>10, <1>11 DEF Abstract!Resize
<1> QED
  BY <1>1, <1>4, <1>12 DEF Abstract!Next

(* Bytes nobody stored into are preserved for whoever owns them.             *)
LEMMA MemSamePreserved ==
    ASSUME HeapInv, NEW others \in SUBSET live, UNCHANGED mem,
           \A q \in others : req'[q] = req[q]
    PROVE  Abstract!Preserved(others)
BY DEF Abstract!Preserved

(* kfree takes back what its caller held, or nothing. *)
LEMMA KfreeRefines ==
    ASSUME HeapInv, NEW p \in Addr \cup {NULL}, kfree(p)
    PROVE  Abstract!Next
<1>1. /\ live' = live \ {p} /\ UNCHANGED mem
      /\ \A q \in live \ {p} : req'[q] = req[q]
  BY DEF kfree, HeapInv, IInv, Layout, TypeOK
<1>2. Abstract!Preserved(live \ {p})
  BY <1>1, MemSamePreserved
<1>3. CASE p \in live
  BY <1>1, <1>2, <1>3 DEF Abstract!Next, Abstract!Free
<1>4. CASE p \notin live
  <2>1. live \ {p} = live
    BY <1>4
  <2> QED
    BY <1>1, <1>2, <2>1 DEF Abstract!Next, Abstract!Internal
<1> QED
  BY <1>3, <1>4

(* krealloc in place: the block stays, only the length its owner knows moves. *)
LEMMA ResizeInPlaceRefines ==
    ASSUME HeapInv, NEW p \in live, NEW n \in Nat, n <= size[ptr_to_block(p)],
           req' = [req EXCEPT ![p] = n], UNCHANGED <<live, mem>>
    PROVE  Abstract!Next
<1>1. /\ p \in Addr /\ p \in Int /\ ptr_to_block(p) \in magic
      /\ block_to_ptr(ptr_to_block(p)) = p
  BY PtrAndBlock, HeapAssumption DEF HeapInv, IInv, Layout, TypeOK, Owners, Addr, HEAP_END
<1>2. \A q \in live \ {p} : ptr_to_block(q) # ptr_to_block(p) /\ req'[q] = req[q]
  BY <1>1, PtrAndBlock, HeapAssumption DEF HeapInv, IInv, Layout, TypeOK, Addr, HEAP_END
<1>3. Abstract!Placed(p, n, live \ {p})
  BY <1>1, <1>2, PlacedInBlock
<1>4. Abstract!Preserved(live \ {p})
  BY <1>2, MemSamePreserved
<1>5. req'[p] = n
  BY <1>1 DEF HeapInv, IInv, Layout, TypeOK
<1>6. Abstract!Resize(p, p, req'[p])
  BY <1>3, <1>4, <1>5 DEF Abstract!Resize
<1> QED
  BY <1>1, <1>6 DEF Abstract!Next

(* A caller's store touches the bytes it was granted. *)
LEMMA CallerWriteRefines ==
    ASSUME HeapInv, NEW p \in live, CallerWrite(p)
    PROVE  Abstract!Next
<1>1. /\ UNCHANGED <<live, req>> /\ ptr_to_block(p) \in magic
      /\ mem' = [a \in Addr |-> IF a \in Abstract!Owned(p, req[p]) THEN DATA ELSE mem[a]]
  BY DEF CallerWrite, Asked, Store, HeapInv, IInv, Owners, Abstract!Owned
<1>2. \A q \in live \ {p} : ptr_to_block(q) # ptr_to_block(p)
  BY PtrAndBlock, HeapAssumption DEF HeapInv, IInv, Layout, TypeOK, Addr, HEAP_END
<1>3. \A a \in Addr : ~(ptr_to_block(p) < a /\ a < BlockEnd(ptr_to_block(p)))
                        => mem'[a] = mem[a]
  BY <1>1, OwnedInBlock
<1>4. Abstract!Preserved(live \ {p})
  BY <1>1, <1>2, <1>3, OthersPreserved
<1> QED
  BY <1>1, <1>4 DEF Abstract!Next, Abstract!Write

(* Every step is one of the abstract heap or leaves it alone. *)
LEMMA NextRefines ==
    ASSUME HeapInv, [Next]_vars
    PROVE  [Abstract!Next]_(Abstract!vars)
<1> USE HeapAssumption
<1>1. CASE heap_init
  <2>1. live = {} /\ live' = live
    BY <1>1 DEF HeapInv, IInv, Layout, CallState, heap_init
  <2> QED
    BY <2>1 DEF Abstract!Next, Abstract!Internal, Abstract!Preserved
<1>2. CASE UNCHANGED caller
  BY <1>2 DEF caller, Abstract!vars
<1>3. ASSUME NEW n \in Requests, NEW al \in Alignments, kmalloc(n, al)
      PROVE  UNCHANGED caller
  BY <1>3 DEF kmalloc, kmalloc_aligned
<1>4. ASSUME NEW a \in CallocArgs, kcalloc(a[1], a[2])
      PROVE  UNCHANGED caller
  BY <1>4 DEF kcalloc, kmalloc_aligned
<1>5. ASSUME NEW p \in live \cup {NULL}, NEW n \in Requests, krealloc(p, n)
      PROVE  Abstract!Next \/ UNCHANGED caller
  <2>1. p \in Addr \cup {NULL} /\ n \in Nat
    BY DEF HeapInv, IInv, Layout, TypeOK
  <2>2. CASE kmalloc_aligned(n, HEAP_ALIGNMENT, n, p)
             \/ kmalloc_aligned(n, HEAP_ALIGNMENT, n, NULL) \/ UNCHANGED vars
    BY <2>2 DEF kmalloc_aligned, vars
  <2>3. CASE kfree(p)
    BY <2>1, <2>3, KfreeRefines
  <2>4. CASE /\ p # NULL /\ n <= size[ptr_to_block(p)]
             /\ req' = [req EXCEPT ![p] = n] /\ UNCHANGED <<live, mem>>
    BY <2>1, <2>4, ResizeInPlaceRefines
  <2> QED
    BY <1>5, <2>2, <2>3, <2>4 DEF krealloc
<1>6. ASSUME NEW p \in Addr \ live, NEW n \in Requests,
             ~is_valid_block(ptr_to_block(p)), krealloc(p, n)
      PROVE  Abstract!Next \/ UNCHANGED caller
  <2>1. p # NULL
    BY DEF Addr, NULL
  <2>2. kfree(p) \/ UNCHANGED vars
    BY <1>6, <2>1 DEF krealloc
  <2> QED
    BY <2>2, KfreeRefines DEF vars, caller
<1>7. ASSUME NEW p \in Addr \cup {NULL}, kfree(p)
      PROVE  Abstract!Next
  BY <1>7, KfreeRefines
<1>8. CASE FindHit
  BY <1>8, FindHitRefines
<1>9. CASE CopyAndFree
  BY <1>9, CopyAndFreeRefines
<1>10. CASE FindNext \/ FindFail \/ AbsorbNext \/ CoalescePrev \/ FreeDone
  BY <1>2, <1>10 DEF FindNext, FindFail, AbsorbNext, CoalescePrev, FreeDone
<1>11. ASSUME NEW p \in live, CallerWrite(p)
       PROVE  Abstract!Next
  BY <1>11, CallerWriteRefines
<1>12. CASE UNCHANGED vars
  BY <1>2, <1>12 DEF vars
<1> QED
  BY <1>1, <1>2, <1>3, <1>4, <1>5, <1>6, <1>7, <1>8, <1>9, <1>10, <1>11, <1>12
  DEF Next, Call, Step

(* The heap of kmalloc.c implements HeapSpec: callers cannot tell the block  *)
(* list from a set of disjoint zeroed allocations whose bytes nobody else    *)
(* touches and that keep their contents through krealloc.                    *)
THEOREM HeapImplementsSpec ==
    ASSUME NoTruncation
    PROVE  Spec => ImplementsHeapSpec
<1>1. Init => Abstract!Init
  BY DEF Init, Abstract!Init
<1>2. HeapInv /\ [Next]_vars => [Abstract!Next]_(Abstract!vars)
  BY NextRefines
<1> QED
  BY <1>1, <1>2, HeapInvariant, PTL DEF Spec, ImplementsHeapSpec, Abstract!Spec
=============================================================================
