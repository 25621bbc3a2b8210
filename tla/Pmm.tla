--------------------------------- MODULE Pmm ---------------------------------
(***************************************************************************)
(* The physical memory manager of memory.c: one bit per frame of the       *)
(* region kernel_main chose, a first-fit search for runs of clear bits, a  *)
(* counter of set bits.  The bitmap is the set of indices whose bit is     *)
(* set; the search loops of pmm_find_contiguous_frames are steps.          *)
(*                                                                         *)
(* Only kernel_main's thread calls the manager, so one call at a time:     *)
(* count, i, contiguous and start are the locals of that call.  held is    *)
(* what callers keep: the page addresses they were given.                  *)
(***************************************************************************)
EXTENDS MemoryMap

CONSTANTS
    PAGE_SIZE,
    FRAMES_PER_WORD,   \* 32
    WORD_BYTES,        \* 4
    KERNEL_FRAMES,     \* (0x100000 + 0x100000) / PAGE_SIZE
    BITMAP_FLOOR,      \* 0x200000: the bitmap is never placed below
    HEAP_START, HEAP_SIZE,   \* kmalloc's region
    Counts             \* numbers of frames callers ask for and free

ASSUME PmmAssumption ==
    /\ PAGE_SIZE \in Nat \ {0} /\ FRAMES_PER_WORD \in Nat \ {0}
    /\ WORD_BYTES \in Nat \ {0} /\ KERNEL_FRAMES \in Nat
    /\ BITMAP_FLOOR \in Nat /\ Counts \subseteq Nat

VARIABLES
    pc,                \* "boot", "idle", "find one" or "find run"
    pmm_memory_base, pmm_memory_size, pmm_total_frames,
    pmm_bitmap,        \* the address of the bitmap
    used,              \* the frames whose bit is set
    pmm_used_frames, pmm_reserved_frames,
    count, i, contiguous, start,
    answer,            \* what the last allocation returned
    held               \* page addresses callers hold

region == <<pmm_memory_base, pmm_memory_size, pmm_total_frames, pmm_bitmap,
            pmm_reserved_frames>>
locals == <<count, i, contiguous, start>>
vars == <<mapVars, region, pc, used, pmm_used_frames, locals, answer, held>>

CeilDiv(a, b) == (a + b - 1) \div b

Frame == 0 .. pmm_total_frames - 1
AddrOf(f) == pmm_memory_base + f * PAGE_SIZE
FrameOf(a) == (a - pmm_memory_base) \div PAGE_SIZE
HeldFrames == {FrameOf(a) : a \in held}

pmm_test_frame(f) == f >= pmm_total_frames \/ f \in used

-----------------------------------------------------------------------------
Init ==
    /\ MapInit
    /\ pc = "boot"
    /\ pmm_memory_base = 0 /\ pmm_memory_size = 0 /\ pmm_total_frames = 0
    /\ pmm_bitmap = 0 /\ used = {}
    /\ pmm_used_frames = 0 /\ pmm_reserved_frames = 0
    /\ count = 0 /\ i = 0 /\ contiguous = 0 /\ start = 0
    /\ answer = 0 /\ held = {}

(* The rest of an available entry above BITMAP_FLOOR. *)
Clipped(e) ==
    IF e.base >= BITMAP_FLOOR THEN e
    ELSE [e EXCEPT !.base = BITMAP_FLOOR, !.length = @ - (BITMAP_FLOOR - e.base)]

RoomFor(e, bytes) ==
    /\ e.base < BITMAP_FLOOR => e.length > BITMAP_FLOOR - e.base
    /\ Clipped(e).length >= bytes + 2 * PAGE_SIZE

find_bitmap_location(bytes) ==
    LET fitting == {k \in Available : RoomFor(entries[k], bytes)} IN
    IF fitting = {} THEN BITMAP_FLOOR
    ELSE Clipped(entries[Min(fitting)]).base + PAGE_SIZE

(* The frames of a reserved entry.  An entry that starts outside the region *)
(* is not looked at, and the end is the start plus the length rounded up.   *)
EntryFrames(e, base, size) ==
    LET first == (e.base - base) \div PAGE_SIZE
        end == Min({first + CeilDiv(e.length, PAGE_SIZE), size \div PAGE_SIZE})
    IN  IF ~e.available /\ e.base >= base /\ e.base < base + size
        THEN first .. end - 1 ELSE {}

BitmapBytes(total) == CeilDiv(total, FRAMES_PER_WORD) * WORD_BYTES

(* Below the region the unsigned difference is beyond every frame. *)
BitmapFrames_OneOnly(bitmap, base, total) ==
    LET first == (bitmap - base) \div PAGE_SIZE IN
    IF bitmap < base THEN {} ELSE {f \in {first} : f < total}
BitmapFrames(bitmap, base, total) ==
    LET first == (bitmap - base) \div PAGE_SIZE
        frames == CeilDiv(BitmapBytes(total), PAGE_SIZE)
    IN  IF bitmap < base THEN {}
        ELSE {f \in first .. first + frames - 1 : f < total}

AllOf(mapped) == UNION {mapped[k] : k \in DOMAIN mapped}

(* One for each entry and frame of it. *)
MarksOf(mapped) ==
    {m \in (DOMAIN mapped) \X AllOf(mapped) : m[2] \in mapped[m[1]]}

(* Reserved entries count a frame each time; the marks after them only once. *)
BootCount(mapped, bitmap, kernel) ==
    Cardinality(MarksOf(mapped)) + Cardinality((bitmap \cup kernel) \ AllOf(mapped))

pmm_init(base, size) ==
    LET total == size \div PAGE_SIZE
        bitmap == find_bitmap_location(BitmapBytes(total))
        mapped == [k \in DOMAIN entries |-> EntryFrames(entries[k], base, size)]
        own == BitmapFrames(bitmap, base, total)
        kernel == {f \in 0 .. KERNEL_FRAMES - 1 : f < total}
    IN  /\ pmm_memory_base' = base /\ pmm_memory_size' = size
        /\ pmm_total_frames' = total /\ pmm_bitmap' = bitmap
        /\ used' = AllOf(mapped) \cup own \cup kernel
        /\ pmm_used_frames' = BootCount(mapped, own, kernel)
        /\ pmm_reserved_frames' =
              CeilDiv(BitmapBytes(total), PAGE_SIZE) + KERNEL_FRAMES

Boot ==
    \/ /\ memory_detect
       /\ UNCHANGED <<region, pc, used, pmm_used_frames, locals, answer, held>>
    \/ /\ detected /\ pc = "boot"
       /\ pmm_init(Chosen.base, Chosen.length)
       /\ pc' = "idle"
       /\ UNCHANGED <<mapVars, locals, answer, held>>

-----------------------------------------------------------------------------
(* pmm_alloc_frames(n); pmm_alloc_frame is the call for one frame.  The     *)
(* search has a loop of its own for one frame.                              *)
pmm_alloc_frames(n) ==
    /\ pc = "idle"
    /\ \/ /\ n = 0
          /\ answer' = 0 /\ UNCHANGED <<pc, locals>>
       \/ /\ n # 0
          /\ pc' = IF n = 1 THEN "find one" ELSE "find run"
          /\ count' = n /\ i' = 0 /\ contiguous' = 0 /\ start' = 0
          /\ UNCHANGED answer
    /\ UNCHANGED <<mapVars, region, used, pmm_used_frames, held>>

Return(a) ==
    /\ answer' = a /\ pc' = "idle"
    /\ count' = 0 /\ i' = 0 /\ contiguous' = 0 /\ start' = 0

(* pmm_set_frame for each frame of the run, then the count; the caller      *)
(* takes the pages the address it gets stands for.                          *)
Taken(first, n) == {f \in first .. first + n - 1 : f < pmm_total_frames}

(* Mutant: pmm_set_frame for the first frame only. *)
Grant_FirstOnly(first) ==
    /\ used' = used \cup {first}
    /\ pmm_used_frames' = pmm_used_frames + count
    /\ held' = held \cup {AddrOf(first) + k * PAGE_SIZE : k \in 0 .. count - 1}
    /\ Return(AddrOf(first))
Grant(first) ==
    /\ used' = used \cup Taken(first, count)
    /\ pmm_used_frames' = pmm_used_frames + count
    /\ held' = held \cup {AddrOf(first) + k * PAGE_SIZE : k \in 0 .. count - 1}
    /\ Return(AddrOf(first))

InLoop(k) == k < pmm_total_frames

(* Mutant: a loop that does not advance. *)
Advance_Stuck(k) == k
Advance(k) == k + 1

FindOne ==
    /\ pc = "find one" /\ InLoop(i)
    /\ \/ /\ ~pmm_test_frame(i)
          /\ Grant(i)
       \/ /\ pmm_test_frame(i)
          /\ i' = Advance(i)
          /\ UNCHANGED <<pc, count, contiguous, start, used, pmm_used_frames>>
          /\ UNCHANGED <<answer, held>>
    /\ UNCHANGED <<mapVars, region>>

(* Mutants: every free frame starts a run; a used frame ends none. *)
RunStart_Always == i
RunStart == IF contiguous = 0 THEN i ELSE start

AfterUsed_KeepsRun(n) == n
AfterUsed(n) == 0

FindRun ==
    /\ pc = "find run" /\ InLoop(i)
    /\ \/ /\ ~pmm_test_frame(i) /\ contiguous + 1 = count
          /\ Grant(RunStart)
       \/ /\ ~pmm_test_frame(i) /\ contiguous + 1 # count
          /\ start' = RunStart /\ contiguous' = contiguous + 1 /\ i' = Advance(i)
          /\ UNCHANGED <<pc, count, used, pmm_used_frames, answer, held>>
       \/ /\ pmm_test_frame(i)
          /\ contiguous' = AfterUsed(contiguous) /\ i' = Advance(i)
          /\ UNCHANGED <<pc, count, start, used, pmm_used_frames, answer, held>>
    /\ UNCHANGED <<mapVars, region>>

FindFail ==
    /\ pc \in {"find one", "find run"} /\ ~InLoop(i)
    /\ Return(0)
    /\ UNCHANGED <<mapVars, region, used, pmm_used_frames, held>>

-----------------------------------------------------------------------------
(* pmm_free_frames(a, n); pmm_free_frame is the call for one frame.  Each   *)
(* frame whose bit is set is cleared and counted, the counter not below 0.  *)
Releases(a, n) ==
    IF a < pmm_memory_base \/ a >= pmm_memory_base + pmm_memory_size THEN {}
    ELSE {f \in FrameOf(a) .. FrameOf(a) + n - 1 : f < pmm_total_frames /\ f \in used}

(* Mutant: the counter drops by n whatever the bits were. *)
Decrement_Always(cleared, n) == Max({0, pmm_used_frames - n})
Decrement(cleared, n) == Max({0, pmm_used_frames - Cardinality(cleared)})

pmm_free_frames(a, n) ==
    LET cleared == Releases(a, n) IN
    /\ pc = "idle"
    /\ used' = used \ cleared
    /\ pmm_used_frames' = Decrement(cleared, n)
    /\ held' = held \ {AddrOf(f) : f \in cleared}
    /\ UNCHANGED <<mapVars, region, pc, locals, answer>>

(* Callers pass any address and count, stale ones included, that would not  *)
(* clear a frame somebody else holds or the boot code reserved.             *)
Address == Max({0, pmm_memory_base - PAGE_SIZE}) .. pmm_memory_base + pmm_memory_size

Free(a, n) ==
    /\ pc = "idle" /\ Releases(a, n) \subseteq HeldFrames
    /\ pmm_free_frames(a, n)

Step == FindOne \/ FindRun \/ FindFail

Next ==
    \/ Boot
    \/ Step
    \/ \E n \in Counts : pmm_alloc_frames(n)
    \/ \E a \in Address, n \in Counts : Free(a, n)

Spec == Init /\ [][Next]_vars

(* A call runs to its return: the processor executes it. *)
FairSpec == Spec /\ WF_vars(Step)

-----------------------------------------------------------------------------
(* Properties. *)

(* Every variable has its type; memory_info and the search keep their bounds. *)
TypeOK ==
    /\ pc \in {"boot", "idle", "find one", "find run"}
    /\ Len(entries) <= MEMORY_MAP_SIZE
    /\ pmm_memory_base \in Nat /\ pmm_memory_size \in Nat
    /\ pmm_total_frames \in Nat /\ pmm_bitmap \in Nat
    /\ used \subseteq Frame
    /\ pmm_used_frames \in Nat /\ pmm_reserved_frames \in Nat
    /\ count \in Nat /\ contiguous \in Nat
    /\ i \in 0 .. pmm_total_frames /\ start \in 0 .. pmm_total_frames
    /\ answer \in Nat /\ held \subseteq Nat

Ready == pc # "boot"

(* The bytes [a, a + n) and [b, b + m) share one. *)
Meets(a, n, b, m) == a < b + m /\ b < a + n

BitmapFramesNow == BitmapFrames(pmm_bitmap, pmm_memory_base, pmm_total_frames)

(* The bytes of an entry the marks cover: pages are counted from the page   *)
(* it starts in by its length alone, so its last bytes may be left out if   *)
(* it starts off a page, and all of it if it starts below the region.       *)
MarkedBytes(e) ==
    LET skipped == (e.base - pmm_memory_base) % PAGE_SIZE IN
    IF e.base < pmm_memory_base THEN 0
    ELSE Min({e.length, CeilDiv(e.length, PAGE_SIZE) * PAGE_SIZE - skipped})

(* No caller holds a page of the kernel's first frames, of the bitmap       *)
(* itself or of memory the firmware's map reserves (all of it where entries *)
(* start at pages of the region), whatever the order of allocations and     *)
(* (stale) frees: the marks pmm_init makes are never lost.                  *)
ReservedNeverHeld ==
    \A a \in held :
        /\ ~Meets(a, PAGE_SIZE, pmm_bitmap, BitmapBytes(pmm_total_frames))
        /\ ~Meets(a, PAGE_SIZE, pmm_memory_base, KERNEL_FRAMES * PAGE_SIZE)
        /\ \A k \in DOMAIN entries :
              ~entries[k].available =>
                 ~Meets(a, PAGE_SIZE, entries[k].base, MarkedBytes(entries[k]))

(* The bitmap records exactly what is out: a set bit is a page some caller  *)
(* holds or a frame pmm_init marked, so nothing leaks and nothing a caller  *)
(* holds can be granted again.                                              *)
Mapped ==
    [k \in DOMAIN entries |->
        EntryFrames(entries[k], pmm_memory_base, pmm_memory_size)]
Marked == AllOf(Mapped) \cup BitmapFramesNow \cup {f \in Frame : f < KERNEL_FRAMES}
BitmapIsExact ==
    Ready => /\ used = HeldFrames \cup Marked
             /\ HeldFrames \cap Marked = {}
             /\ \A a \in held : a = AddrOf(FrameOf(a))

(* The counter behind pmm_get_stats and `meminfo` is the number of set bits *)
(* (memory_tests.c compares it before and after an allocation), too high by *)
(* what overlapping reserved entries counted twice at boot: no sequence of  *)
(* allocations and stale frees makes it drift from there.                   *)
CountedTwice == Cardinality(MarksOf(Mapped)) - Cardinality(AllOf(Mapped))
UsedIsCounted == Ready => pmm_used_frames = Cardinality(used) + CountedTwice

(* pmm_find_contiguous_frames has passed over no run that would do: below   *)
(* i no run of count clear bits starts, and contiguous is the length of the *)
(* run that ends at i, so the answer is the first fit, and 0 only if there  *)
(* is none.                                                                 *)
Clear(first, n) == \A f \in first .. first + n - 1 : f \in Frame /\ f \notin used
NothingSkipped ==
    pc \in {"find one", "find run"} =>
        /\ \A f \in Frame : f + count <= i => ~Clear(f, count)
        /\ contiguous > 0 => start + contiguous = i /\ Clear(start, contiguous)
        /\ contiguous < i => i - contiguous - 1 \in used

(* The region the manager hands out is RAM the firmware reported, or the    *)
(* fixed fallback, never an entry of another type.                          *)
ManagedIsRAM ==
    Ready => \/ \E t \in DOMAIN tags :
                   /\ tags[t].type = "mmap"
                   /\ \E k \in DOMAIN tags[t].regions :
                         tags[t].regions[k] = [base |-> pmm_memory_base,
                            length |-> pmm_memory_size, available |-> TRUE]
             \/ pmm_memory_base = FALLBACK_BASE /\ pmm_memory_size = FALLBACK_SIZE

(* Callers see the pool of pages of FrameSpec. *)
Abstract == INSTANCE FrameSpec WITH
    PAGE <- PAGE_SIZE,
    open <- Ready,
    pool <- {AddrOf(f) : f \in Frame \ used},
    asked <- count
ImplementsFrameSpec == Abstract!Spec

(* A search ends. *)
CallReturns == (count # 0) ~> (count = 0)

(* kmalloc.h:10 puts the heap "despues del kernel y bitmap" and             *)
(* ARCHITECTURE.md:149-154 gives the frame allocator the memory after it:   *)
(* no page of the heap is granted to anybody.                               *)
HeapNeverHeld ==
    \A a \in held : ~Meets(a, PAGE_SIZE, HEAP_START, HEAP_SIZE)
=============================================================================
