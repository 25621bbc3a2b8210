------------------------------ MODULE PmmProofs ------------------------------
(***************************************************************************)
(* Proofs about the frame allocator of module Pmm and the memory detection *)
(* before it, for every memory map a boot loader may pass and every        *)
(* sequence of allocations and frees.  The inductive invariant says which  *)
(* entries memory_detect has stored, what pmm_init has marked, that what   *)
(* callers hold is the image of the other set bits, and how far a search   *)
(* has come.                                                               *)
(***************************************************************************)
EXTENDS Pmm, Extrema, FiniteSetTheorems, SequenceTheorems

(* An entry of memory_info is one the firmware reported. *)
Reported(e) ==
    \E t \in DOMAIN tags :
        /\ tags[t].type = "mmap"
        /\ \E k \in DOMAIN tags[t].regions : tags[t].regions[k] = e

MapState ==
    /\ tags \in Seq(Tag) /\ tag \in Nat \ {0}
    /\ entries \in Seq(Region) /\ Len(entries) <= MEMORY_MAP_SIZE
    /\ \A k \in DOMAIN entries : Reported(entries[k])

(* The region is chosen once, by pmm_init.  Then what callers hold is the    *)
(* set bits that pmm_init did not set itself; before, there is nothing.      *)
RegionState ==
    /\ ManagedIsRAM
    /\ Ready => /\ detected /\ pmm_memory_base # 0
                /\ pmm_total_frames = pmm_memory_size \div PAGE_SIZE

Pages(b, S) == {b + f * PAGE_SIZE : f \in S}
Own == used \ Marked

HeldState ==
    /\ Ready => Marked \subseteq used /\ held = Pages(pmm_memory_base, Own)
    /\ ~Ready => used = {} /\ held = {} /\ pmm_total_frames = 0

(* The locals of a search, by its loop. *)
SearchState ==
    /\ pc \in {"boot", "idle"} => count = 0 /\ i = 0 /\ start = 0 /\ contiguous = 0
    /\ pc = "find one" => count = 1 /\ contiguous = 0
    /\ pc = "find run" => count > 1 /\ contiguous < count
    /\ NothingSkipped

IInv == TypeOK /\ MapState /\ RegionState /\ HeldState /\ SearchState

-----------------------------------------------------------------------------
(* Pages, frames and addresses. *)

(* What pmm_free_frame divides by is what pmm_alloc_frames multiplied with. *)
LEMMA PageArithmetic ==
    ASSUME NEW f \in Int
    PROVE  /\ (f * PAGE_SIZE) \div PAGE_SIZE = f
           /\ \A g \in Int : f < g => f * PAGE_SIZE + PAGE_SIZE <= g * PAGE_SIZE
<1>1. PAGE_SIZE \in Nat \ {0}
  BY PmmAssumption
<1>2. ASSUME NEW g \in Int, f < g PROVE f * PAGE_SIZE + PAGE_SIZE <= g * PAGE_SIZE
  <2>1. g - f - 1 \in Nat
    BY <1>2
  <2>2. (g - f - 1) * PAGE_SIZE >= 0
    BY <1>1, <2>1
  <2> QED
    BY <1>1, <2>2
<1> QED
  BY <1>1, <1>2

(* What the integer divisions of memory.c give. *)
LEMMA Quotient ==
    ASSUME NEW a \in Int, NEW n \in Nat \ {0}
    PROVE  /\ a \div n \in Int /\ (a \div n) * n <= a /\ a < (a \div n) * n + n
           /\ a >= 0 => a \div n \in Nat
OBVIOUS

(* And those that round up. *)
LEMMA Ceiling ==
    ASSUME NEW a \in Nat, NEW n \in Nat \ {0}
    PROVE  CeilDiv(a, n) \in Nat /\ a <= CeilDiv(a, n) * n
<1>1. a + n - 1 \in Nat
  OBVIOUS
<1> QED
  BY <1>1, Quotient DEF CeilDiv

(* The addresses of a set of frames of a region that starts at b. *)
LEMMA PageOfFrame ==
    ASSUME NEW b \in Nat, NEW S \in SUBSET Int, NEW f \in Int
    PROVE  b + f * PAGE_SIZE \in Pages(b, S) <=> f \in S
<1>1. ASSUME NEW g \in S, b + f * PAGE_SIZE = b + g * PAGE_SIZE PROVE f = g
  <2>1. PAGE_SIZE \in Nat \ {0}
    BY PmmAssumption
  <2>2. f * PAGE_SIZE = g * PAGE_SIZE
    BY <1>1, <2>1
  <2> QED
    BY <2>2, PageArithmetic
<1> QED
  BY <1>1 DEF Pages

(* Pages and frames correspond one to one. *)
LEMMA PagesOfUnion ==
    ASSUME NEW b \in Nat, NEW S \in SUBSET Int, NEW T \in SUBSET Int
    PROVE  /\ Pages(b, S \cup T) = Pages(b, S) \cup Pages(b, T)
           /\ Pages(b, S \ T) = Pages(b, S) \ Pages(b, T)
           /\ Pages(b, S) \subseteq Pages(b, T) <=> S \subseteq T
           /\ Pages(b, {}) = {}
<1>1. \A U \in SUBSET Int : \A p : p \in Pages(b, U) <=> \E f \in U : p = b + f * PAGE_SIZE
  BY DEF Pages
<1>2. \A U \in SUBSET Int : \A f \in Int : b + f * PAGE_SIZE \in Pages(b, U) <=> f \in U
  BY PageOfFrame
<1>3. Pages(b, S \cup T) = Pages(b, S) \cup Pages(b, T)
  BY <1>1
<1>4. Pages(b, S \ T) = Pages(b, S) \ Pages(b, T)
  <2>1. S \ T \in SUBSET Int
    OBVIOUS
  <2>2. ASSUME NEW p PROVE p \in Pages(b, S \ T) <=> p \in Pages(b, S) /\ p \notin Pages(b, T)
    BY <1>1, <1>2, <2>1
  <2> QED
    BY <2>2
<1>5. Pages(b, S) \subseteq Pages(b, T) <=> S \subseteq T
  BY <1>1, <1>2
<1>6. Pages(b, {}) = {}
  BY DEF Pages
<1> QED
  BY <1>3, <1>4, <1>5, <1>6

-----------------------------------------------------------------------------
(* Memory detection. *)

(* The lengths of the entries have a bound: there are finitely many. *)
LEMMA LengthsBounded ==
    ASSUME NEW s \in Seq(Region)
    PROVE  \E b \in Nat : \A k \in DOMAIN s : s[k].length <= b
<1> DEFINE Bound(n) == \E b \in Nat : \A k \in 1 .. n : s[k].length <= b
           Unbounded == {n \in 0 .. Len(s) : ~Bound(n)}
<1>0. Len(s) \in Nat /\ DOMAIN s = 1 .. Len(s)
  BY LenProperties
<1>1. \A k \in 1 .. Len(s) : s[k].length \in Nat
  <2> TAKE k \in 1 .. Len(s)
  <2>1. s[k] \in Region
    BY ElementOfSeq
  <2> QED
    BY <2>1 DEF Region
<1>2. ASSUME Unbounded # {} PROVE FALSE
  <2>1. Unbounded \in SUBSET Nat
    BY <1>0
  <2>2. PICK n \in Unbounded : \A m \in Unbounded : n <= m
    <3> HIDE DEF Unbounded
    <3> QED
      BY <1>2, <2>1, LeastNatural
  <2>3. n \in Nat /\ n <= Len(s) /\ ~Bound(n)
    BY <1>0, <2>2
  <2>4. n # 0
    <3>1. \A k \in 1 .. 0 : s[k].length <= 0
      OBVIOUS
    <3> QED
      BY <2>3, <3>1
  <2>5. n - 1 \in 0 .. Len(s) /\ n - 1 \notin Unbounded
    <3>1. n - 1 \in 0 .. Len(s) /\ ~(n <= n - 1)
      BY <1>0, <2>3, <2>4
    <3> HIDE DEF Unbounded
    <3> QED
      BY <2>2, <3>1
  <2>6. PICK b \in Nat : \A k \in 1 .. n - 1 : s[k].length <= b
    BY <2>5
  <2>7. s[n].length \in Nat
    BY <1>0, <1>1, <2>3, <2>4
  <2>8. PICK c \in Nat : b <= c /\ s[n].length <= c
    <3> DEFINE last == s[n].length
    <3>1. last \in Nat
      BY <2>7
    <3>2. b \in Nat
      BY <2>6
    <3> HIDE DEF last
    <3>3. b + last \in Nat /\ b <= b + last /\ last <= b + last
      BY <3>1, <3>2
    <3>4. \E c \in Nat : b <= c /\ last <= c
      BY <3>3
    <3> QED
      BY <3>4 DEF last
  <2>9. \A k \in 1 .. n : s[k].length <= c
    <3> TAKE k \in 1 .. n
    <3>1. CASE k = n
      BY <2>8, <3>1
    <3>2. CASE k \in 1 .. n - 1
      <4> DEFINE this == s[k].length
      <4>1. k \in 1 .. Len(s)
        BY <1>0, <2>3, <3>2
      <4>2. this <= b /\ this \in Nat
        BY <1>1, <2>6, <3>2, <4>1
      <4> HIDE DEF this
      <4>3. this <= c
        BY <2>6, <2>8, <4>2
      <4> QED
        BY <4>3 DEF this
    <3> QED
      BY <2>3, <3>1, <3>2
  <2> QED
    BY <2>3, <2>9
<1>3. Bound(Len(s))
  <2> HIDE DEF Unbounded
  <2>1. Len(s) \in 0 .. Len(s) /\ Unbounded = {}
    BY <1>0, <1>2
  <2> USE DEF Unbounded
  <2> HIDE DEF Bound
  <2> QED
    BY <2>1
<1> QED
  BY <1>0, <1>3

(* Nothing is stored before memory_init parses its tags. *)
LEMMA InitMapState == MapInit => MapState
<1> SUFFICES ASSUME MapInit PROVE MapState
  OBVIOUS
<1>1. tags \in Seq(Tag) /\ tag \in Nat \ {0} /\ MEMORY_MAP_SIZE \in Nat
  BY MemoryMapAssumption DEF MapInit
<1>2. entries = <<>> /\ entries \in Seq(Region) /\ Len(entries) = 0
  BY EmptySeq DEF MapInit
<1>3. \A k \in DOMAIN entries : Reported(entries[k])
  BY <1>2
<1> QED
  BY <1>1, <1>2, <1>3 DEF MapState

(* What is appended to memory_info fits it and comes from the tag. *)
LEMMA StoredFits ==
    ASSUME MapState, AtTag("mmap")
    PROVE  /\ Stored(tags[tag].regions) \in Seq(Region)
           /\ Len(entries) + Len(Stored(tags[tag].regions)) <= MEMORY_MAP_SIZE
           /\ \A k \in DOMAIN Stored(tags[tag].regions) :
                 Reported(Stored(tags[tag].regions)[k])
<1> DEFINE regions == tags[tag].regions
           n == Min({Len(regions), MEMORY_MAP_SIZE - Len(entries)})
<1>1. tag \in DOMAIN tags /\ tags[tag] \in Tag /\ tags[tag].type = "mmap"
  BY ElementOfSeq, LenProperties DEF MapState, AtTag
<1>2. regions \in Seq(Region)
  BY <1>1 DEF Tag
<1>3. /\ Len(regions) \in Nat /\ DOMAIN regions = 1 .. Len(regions)
      /\ Len(entries) \in Nat /\ Len(entries) <= MEMORY_MAP_SIZE
      /\ MEMORY_MAP_SIZE \in Nat
  BY <1>2, LenProperties, MemoryMapAssumption DEF MapState
<1>4. n \in Nat /\ n <= Len(regions) /\ n <= MEMORY_MAP_SIZE - Len(entries)
  <2>1. MEMORY_MAP_SIZE - Len(entries) \in Nat
    BY <1>3
  <2>2. n = IF Len(regions) <= MEMORY_MAP_SIZE - Len(entries) THEN Len(regions)
            ELSE MEMORY_MAP_SIZE - Len(entries)
    BY <1>3, <2>1, MinOfTwo
  <2> HIDE DEF n, regions
  <2> QED
    BY <1>3, <2>1, <2>2
<1> HIDE DEF n
<1>5. \A k \in 1 .. n : regions[k] \in Region /\ k \in DOMAIN regions
  BY <1>2, <1>3, <1>4, ElementOfSeq
<1>6. /\ SubSeq(regions, 1, n) \in Seq(Region) /\ Len(SubSeq(regions, 1, n)) = n
      /\ \A k \in 1 .. n : SubSeq(regions, 1, n)[k] = regions[k]
  <2> HIDE DEF regions
  <2>1. \A k \in 1 .. n : regions[k] \in Region
    BY <1>5
  <2> QED
    BY <1>4, <2>1, SubSeqProperties
<1>7. Stored(regions) = SubSeq(regions, 1, n)
  BY DEF Stored, n
<1>8. \A k \in DOMAIN SubSeq(regions, 1, n) : Reported(SubSeq(regions, 1, n)[k])
  <2>1. DOMAIN SubSeq(regions, 1, n) = 1 .. n
    BY <1>6, LenProperties
  <2> QED
    BY <1>1, <1>5, <1>6, <2>1 DEF Reported
<1> QED
  <2> HIDE DEF regions
  <2>1. Len(entries) + n <= MEMORY_MAP_SIZE
    BY <1>3, <1>4
  <2> QED
    BY <1>6, <1>7, <1>8, <2>1 DEF regions

(* Parsing the map, or falling back on the basic sizes, stores regions only. *)
LEMMA DetectKeepsMapState ==
    ASSUME MapState, memory_detect
    PROVE  MapState'
<1>1. CASE DetectMap
  <2> DEFINE stored == Stored(tags[tag].regions)
  <2>1. /\ stored \in Seq(Region) /\ Len(entries) + Len(stored) <= MEMORY_MAP_SIZE
        /\ \A k \in DOMAIN stored : Reported(stored[k])
    BY <1>1, StoredFits DEF DetectMap
  <2>2. entries' = entries \o stored /\ tags' = tags /\ tag' = tag + 1
    BY <1>1 DEF DetectMap, NextTag
  <2> HIDE DEF stored
  <2>3. /\ entries' \in Seq(Region) /\ Len(entries') = Len(entries) + Len(stored)
        /\ \A k \in 1 .. Len(entries) + Len(stored) :
              entries'[k] = IF k <= Len(entries) THEN entries[k] ELSE stored[k - Len(entries)]
    BY <2>1, <2>2, ConcatProperties DEF MapState
  <2>4. \A k \in DOMAIN entries' : Reported(entries'[k])
    <3> TAKE k \in DOMAIN entries'
    <3>1. /\ DOMAIN entries' = 1 .. Len(entries) + Len(stored)
          /\ DOMAIN entries = 1 .. Len(entries) /\ DOMAIN stored = 1 .. Len(stored)
          /\ Len(entries) \in Nat /\ Len(stored) \in Nat
      BY <2>1, <2>3, LenProperties DEF MapState
    <3>2. CASE k <= Len(entries)
      <4>1. k \in DOMAIN entries /\ entries'[k] = entries[k]
        BY <2>3, <3>1, <3>2
      <4> QED
        BY <4>1 DEF MapState
    <3>3. CASE ~(k <= Len(entries))
      <4>1. k - Len(entries) \in DOMAIN stored /\ entries'[k] = stored[k - Len(entries)]
        BY <2>3, <3>1, <3>3
      <4> QED
        BY <2>1, <4>1
    <3> QED
      BY <3>2, <3>3
  <2>5. (\A k \in DOMAIN entries : Reported(entries[k]))'
    BY <2>2, <2>4 DEF Reported
  <2> QED
    BY <2>1, <2>2, <2>3, <2>5 DEF MapState
<1>2. CASE DetectBasic \/ DetectOther \/ DetectDone
  <2>1. /\ UNCHANGED <<tags, entries>> /\ tag' \in {tag, tag + 1}
    BY <1>2 DEF DetectBasic, DetectOther, DetectDone, NextTag
  <2> QED
    BY <2>1 DEF MapState, Reported
<1> QED
  BY <1>1, <1>2 DEF memory_detect

(* An entry of memory_info has its type. *)
LEMMA EntryTyped ==
    ASSUME MapState, NEW k \in DOMAIN entries
    PROVE  /\ entries[k] \in Region /\ entries[k].base \in Nat /\ entries[k].length \in Nat
           /\ entries[k].available \in BOOLEAN /\ k \in Nat /\ Reported(entries[k])
<1>1. entries[k] \in Region /\ k \in Nat /\ Reported(entries[k])
  BY ElementOfSeq, LenProperties DEF MapState
<1> QED
  BY <1>1 DEF Region

(* kernel_main's region is an available entry, as long as the longest of     *)
(* them, or the fallback; in no case does it start at 0.                     *)
LEMMA ChosenRegion ==
    ASSUME MapState
    PROVE  /\ Chosen.base \in Nat \ {0} /\ Chosen.length \in Nat
           /\ \/ Reported([base |-> Chosen.base, length |-> Chosen.length, available |-> TRUE])
              \/ Chosen.base = FALLBACK_BASE /\ Chosen.length = FALLBACK_SIZE
<1>1. CASE UseFallback
  <2>1. Chosen = [base |-> FALLBACK_BASE, length |-> FALLBACK_SIZE]
    BY <1>1 DEF Chosen
  <2> QED
    BY <2>1, MemoryMapAssumption
<1>2. CASE ~UseFallback
  <2>1. Candidates # {}
    BY <1>2 DEF UseFallback, find_available_memory_region
  <2>2. Candidates \subseteq DOMAIN entries
    BY DEF Candidates, Available
  <2> DEFINE lengths == {entries[k].length : k \in Candidates}
             longest == Max(lengths)
             firsts == {k \in Candidates : entries[k].length = longest}
             first == Min(firsts)
  <2>3. lengths \in SUBSET Nat /\ lengths # {}
    <3>1. \A k \in Candidates : entries[k].length \in Nat
      BY <2>2, EntryTyped
    <3>2. \A l \in lengths : \E k \in Candidates : l = entries[k].length
      OBVIOUS
    <3>3. \A k \in Candidates : entries[k].length \in lengths
      OBVIOUS
    <3> HIDE DEF lengths
    <3> QED
      BY <2>1, <3>1, <3>2, <3>3
  <2>4. PICK b \in Nat : \A l \in lengths : l <= b
    <3>1. PICK b \in Nat : \A k \in DOMAIN entries : entries[k].length <= b
      BY LengthsBounded DEF MapState
    <3>2. \A k \in Candidates : entries[k].length <= b
      BY <2>2, <3>1
    <3> QED
      BY <3>2
  <2>5. longest \in lengths
    <3> HIDE DEF lengths
    <3> QED
      BY <2>3, <2>4, MaxIsGreatest
  <2>6. firsts \in SUBSET Nat /\ firsts # {}
    <3>1. PICK k \in Candidates : longest = entries[k].length
      BY <2>5
    <3>2. \A j \in Candidates : j \in Nat
      BY <2>2, EntryTyped
    <3> HIDE DEF longest
    <3> QED
      BY <3>1, <3>2
  <2>7. first \in firsts
    <3> HIDE DEF firsts
    <3> QED
      BY <2>6, MinIsLeast
  <2>8. find_available_memory_region = [base |-> entries[first].base, length |-> longest]
    BY <2>1 DEF find_available_memory_region
  <2> HIDE DEF first, longest
  <2>9. /\ first \in Candidates /\ entries[first].length = longest
        /\ entries[first].available
    BY <2>7 DEF Candidates, Available
  <2>10. first \in DOMAIN entries
    BY <2>2, <2>9
  <2>11. /\ entries[first] \in Region /\ entries[first].base \in Nat /\ longest \in Nat
         /\ Reported(entries[first]) /\ entries[first].available \in BOOLEAN
    BY <2>9, <2>10, EntryTyped
  <2>12. entries[first] = [base |-> entries[first].base, length |-> longest, available |-> TRUE]
    BY <2>9, <2>11 DEF Region
  <2>13. Chosen = [base |-> entries[first].base, length |-> longest]
    BY <1>2, <2>8 DEF Chosen
  <2>14. entries[first].base # 0
    BY <1>2, <2>8 DEF UseFallback
  <2> QED
    BY <2>11, <2>12, <2>13, <2>14
<1> QED
  BY <1>1, <1>2

-----------------------------------------------------------------------------
(* What pmm_init marks. *)

(* Entries mark frames of the region only. *)
LEMMA EntryFramesInRegion ==
    ASSUME NEW e \in Region, NEW base \in Nat, NEW size \in Nat
    PROVE  EntryFrames(e, base, size) \subseteq 0 .. (size \div PAGE_SIZE) - 1
<1> DEFINE first == (e.base - base) \div PAGE_SIZE
           pages == CeilDiv(e.length, PAGE_SIZE)
           total == size \div PAGE_SIZE
           end == Min({first + pages, total})
<1>1. e.base \in Nat /\ e.length \in Nat /\ PAGE_SIZE \in Nat \ {0}
  BY PmmAssumption DEF Region
<1>2. CASE ~e.available /\ e.base >= base /\ e.base < base + size
  <2>1. e.base - base \in Nat
    BY <1>1, <1>2
  <2>2. first \in Nat /\ pages \in Nat /\ total \in Nat
    <3>1. first \in Nat
      BY <1>1, <2>1, Quotient
    <3>2. pages \in Nat
      BY <1>1, Ceiling
    <3>3. total \in Nat
      BY <1>1, Quotient
    <3> QED
      BY <3>1, <3>2, <3>3
  <2> HIDE DEF first, pages, total
  <2>3. end \in Int /\ end <= total
    BY <2>2, MinOfTwo
  <2> HIDE DEF end
  <2>4. first .. end - 1 \subseteq 0 .. total - 1
    BY <2>2, <2>3
  <2>5. EntryFrames(e, base, size) = first .. end - 1
    BY <1>2 DEF EntryFrames, first, pages, total, end
  <2> QED
    BY <2>4, <2>5 DEF total
<1>3. CASE ~(~e.available /\ e.base >= base /\ e.base < base + size)
  <2>1. EntryFrames(e, base, size) = {}
    BY <1>3 DEF EntryFrames
  <2> QED
    BY <2>1
<1> QED
  BY <1>2, <1>3

(* The frames marked for the bitmap are frames of the region. *)
LEMMA BitmapFramesInRegion ==
    ASSUME NEW bitmap \in Nat, NEW base \in Nat, NEW total \in Nat
    PROVE  /\ BitmapFrames(bitmap, base, total) \subseteq 0 .. total - 1
           /\ BitmapBytes(total) \in Nat
<1>1. BitmapBytes(total) \in Nat
  <2>1. CeilDiv(total, FRAMES_PER_WORD) \in Nat /\ WORD_BYTES \in Nat
    BY Ceiling, PmmAssumption
  <2> QED
    BY <2>1 DEF BitmapBytes
<1>2. CASE bitmap < base
  BY <1>1, <1>2 DEF BitmapFrames
<1>3. CASE ~(bitmap < base)
  <2> DEFINE first == (bitmap - base) \div PAGE_SIZE
             frames == CeilDiv(BitmapBytes(total), PAGE_SIZE)
  <2>1. bitmap - base \in Nat /\ PAGE_SIZE \in Nat \ {0}
    BY <1>3, PmmAssumption
  <2>2. first \in Nat /\ frames \in Nat
    <3>1. first \in Nat
      BY <2>1, Quotient
    <3>2. frames \in Nat
      BY <1>1, <2>1, Ceiling
    <3> QED
      BY <3>1, <3>2
  <2>3. BitmapFrames(bitmap, base, total) = {f \in first .. first + frames - 1 : f < total}
    BY <1>3 DEF BitmapFrames
  <2> HIDE DEF first, frames
  <2> QED
    BY <1>1, <2>2, <2>3
<1> QED
  BY <1>2, <1>3

(* find_bitmap_location gives an address, found or not. *)
LEMMA BitmapLocation ==
    ASSUME MapState, NEW bytes \in Nat
    PROVE  find_bitmap_location(bytes) \in Nat
<1> DEFINE fitting == {k \in Available : RoomFor(entries[k], bytes)}
<1>1. CASE fitting = {}
  BY <1>1, PmmAssumption DEF find_bitmap_location
<1>2. CASE fitting # {}
  <2>1. fitting \subseteq DOMAIN entries
    BY DEF Available
  <2>2. fitting \in SUBSET Nat
    BY <2>1, EntryTyped
  <2>3. Min(fitting) \in fitting
    <3> HIDE DEF fitting
    <3> QED
      BY <1>2, <2>2, MinIsLeast
  <2> DEFINE e == entries[Min(fitting)]
  <2>4. e \in Region /\ e.base \in Nat
    <3> HIDE DEF fitting
    <3> QED
      BY <2>1, <2>3, EntryTyped
  <2>5. find_bitmap_location(bytes) = Clipped(e).base + PAGE_SIZE
    BY <1>2 DEF find_bitmap_location
  <2> HIDE DEF e
  <2>6. Clipped(e).base \in Nat
    BY <2>4, PmmAssumption DEF Clipped, Region
  <2> QED
    BY <2>5, <2>6, PmmAssumption
<1> QED
  BY <1>1, <1>2

(* The marks of a table of frames below a bound are finitely many, and at    *)
(* least as many as the frames.                                              *)
LEMMA MarksCounted ==
    ASSUME NEW n \in Nat, NEW total \in Nat,
           NEW mapped, DOMAIN mapped = 1 .. n,
           \A k \in 1 .. n : mapped[k] \subseteq 0 .. total - 1
    PROVE  /\ AllOf(mapped) \subseteq 0 .. total - 1
           /\ IsFiniteSet(AllOf(mapped)) /\ IsFiniteSet(MarksOf(mapped))
           /\ Cardinality(MarksOf(mapped)) \in Nat /\ Cardinality(AllOf(mapped)) \in Nat
           /\ Cardinality(AllOf(mapped)) <= Cardinality(MarksOf(mapped))
<1>1. AllOf(mapped) \subseteq 0 .. total - 1
  <2>1. ASSUME NEW f \in AllOf(mapped) PROVE \E k \in 1 .. n : f \in mapped[k]
    BY <2>1 DEF AllOf
  <2> QED
    BY <2>1
<1>2. IsFiniteSet(AllOf(mapped)) /\ IsFiniteSet(1 .. n)
  <2>1. IsFiniteSet(0 .. total - 1) /\ IsFiniteSet(1 .. n)
    BY FS_Interval
  <2> QED
    BY <1>1, <2>1, FS_Subset
<1>3. IsFiniteSet(MarksOf(mapped))
  <2>1. IsFiniteSet((1 .. n) \X AllOf(mapped))
    BY <1>2, FS_Product
  <2>2. MarksOf(mapped) \in SUBSET ((1 .. n) \X AllOf(mapped))
    BY DEF MarksOf
  <2> QED
    BY <2>1, <2>2, FS_Subset
<1>4. Cardinality(AllOf(mapped)) <= Cardinality(MarksOf(mapped))
  <2> DEFINE frame == [m \in MarksOf(mapped) |-> m[2]]
  <2>1. \A m \in MarksOf(mapped) : m[2] \in AllOf(mapped)
    BY DEF MarksOf
  <2>2. \A f \in AllOf(mapped) : \E m \in MarksOf(mapped) : m[2] = f
    <3> TAKE f \in AllOf(mapped)
    <3>1. PICK k \in 1 .. n : f \in mapped[k]
      BY DEF AllOf
    <3>2. <<k, f>> \in MarksOf(mapped)
      BY <3>1 DEF MarksOf
    <3> QED
      BY <3>2
  <2>3. frame \in Surjection(MarksOf(mapped), AllOf(mapped))
    BY <2>1, <2>2 DEF Surjection
  <2> QED
    BY <1>3, <2>3, FS_Surjection
<1> QED
  BY <1>1, <1>2, <1>3, <1>4, FS_CardinalityType

-----------------------------------------------------------------------------
(* The inductive invariant. *)

(* Before the boot there is no manager to be wrong. *)
LEMMA InitIInv == Init => IInv
<1> SUFFICES ASSUME Init PROVE IInv
  OBVIOUS
<1>1. MapState
  BY InitMapState DEF Init
<1>2. TypeOK
  BY <1>1 DEF MapState, TypeOK, Init
<1>3. RegionState /\ HeldState /\ SearchState
  BY DEF Init, RegionState, HeldState, SearchState, ManagedIsRAM, Ready, NothingSkipped
<1> QED
  BY <1>1, <1>2, <1>3 DEF IInv

(* The tags are read before the manager is there. *)
LEMMA DetectIInv ==
    ASSUME IInv, memory_detect,
           UNCHANGED <<region, pc, used, pmm_used_frames, locals, answer, held>>
    PROVE  IInv'
<1>1. ~Ready /\ pc' = "boot" /\ ~Ready'
  <2>1. ~detected
    BY DEF memory_detect, DetectBasic, DetectMap, DetectOther, DetectDone, AtTag
  <2> QED
    BY <2>1 DEF IInv, RegionState, Ready
<1>2. MapState'
  BY DetectKeepsMapState DEF IInv
<1>3. TypeOK'
  BY <1>2 DEF IInv, TypeOK, region, locals, MapState, Frame
<1>4. RegionState' /\ HeldState' /\ SearchState'
  BY <1>1 DEF IInv, RegionState, HeldState, SearchState, ManagedIsRAM, Ready,
              NothingSkipped, region, locals
<1> QED
  BY <1>2, <1>3, <1>4 DEF IInv

(* pmm_init sets exactly the bits of Marked, and nobody holds a page yet.    *)
LEMMA InitManagerMarks ==
    ASSUME MapState, NEW base \in Nat, NEW size \in Nat, pmm_init(base, size),
           UNCHANGED mapVars
    PROVE  /\ used' = Marked' /\ used' \subseteq Frame'
           /\ pmm_memory_base' = base /\ pmm_memory_size' = size
           /\ pmm_total_frames' = size \div PAGE_SIZE /\ pmm_total_frames' \in Nat
           /\ pmm_bitmap' \in Nat /\ pmm_reserved_frames' \in Nat
           /\ pmm_used_frames' \in Nat
           /\ pmm_used_frames' = Cardinality(used') + CountedTwice'
<1> DEFINE total == size \div PAGE_SIZE
           bitmap == find_bitmap_location(BitmapBytes(total))
           mapped == [k \in DOMAIN entries |-> EntryFrames(entries[k], base, size)]
           own == BitmapFrames(bitmap, base, total)
           kernel == {f \in 0 .. KERNEL_FRAMES - 1 : f < total}
<1>0. PAGE_SIZE \in Nat \ {0} /\ KERNEL_FRAMES \in Nat
  BY PmmAssumption
<1>1. /\ pmm_memory_base' = base /\ pmm_memory_size' = size
      /\ pmm_total_frames' = total /\ pmm_bitmap' = bitmap
      /\ used' = AllOf(mapped) \cup own \cup kernel
      /\ pmm_used_frames' = BootCount(mapped, own, kernel)
      /\ pmm_reserved_frames' = CeilDiv(BitmapBytes(total), PAGE_SIZE) + KERNEL_FRAMES
      /\ entries' = entries
  BY DEF pmm_init, mapVars
<1>2. total \in Nat
  BY <1>0, Quotient
<1> HIDE DEF total
<1>3. BitmapBytes(total) \in Nat
  BY <1>2, <1>0, BitmapFramesInRegion
<1>4. bitmap \in Nat
  BY <1>3, BitmapLocation
<1> HIDE DEF bitmap
<1>5. own \subseteq 0 .. total - 1 /\ kernel \subseteq 0 .. total - 1
  <2>1. own \subseteq 0 .. total - 1
    BY <1>2, <1>4, BitmapFramesInRegion
  <2>2. kernel \subseteq 0 .. total - 1
    BY <1>0, <1>2
  <2> QED
    BY <2>1, <2>2
<1>6. /\ DOMAIN mapped = 1 .. Len(entries) /\ Len(entries) \in Nat
      /\ \A k \in 1 .. Len(entries) : mapped[k] \subseteq 0 .. total - 1
  <2>1. DOMAIN entries = 1 .. Len(entries) /\ Len(entries) \in Nat
    BY LenProperties DEF MapState
  <2>2. ASSUME NEW k \in DOMAIN entries
        PROVE  EntryFrames(entries[k], base, size) \subseteq 0 .. total - 1
    BY EntryTyped, EntryFramesInRegion DEF total
  <2> QED
    BY <2>1, <2>2
<1>7. Mapped' = mapped
  BY <1>1 DEF Mapped
<1>8. BitmapFramesNow' = own
  BY <1>1 DEF BitmapFramesNow
<1>9. {f \in Frame : f < KERNEL_FRAMES}' = kernel /\ Frame' = 0 .. total - 1
  BY <1>0, <1>1, <1>2 DEF Frame
<1> HIDE DEF mapped, own, kernel
<1>10. Marked' = AllOf(mapped) \cup own \cup kernel
  BY <1>7, <1>8, <1>9 DEF Marked
<1>11. /\ AllOf(mapped) \subseteq 0 .. total - 1
       /\ IsFiniteSet(AllOf(mapped))
       /\ Cardinality(MarksOf(mapped)) \in Nat /\ Cardinality(AllOf(mapped)) \in Nat
  BY <1>2, <1>6, MarksCounted
<1>12. used' \subseteq Frame'
  BY <1>1, <1>5, <1>9, <1>11
<1> DEFINE rest == (own \cup kernel) \ AllOf(mapped)
<1>13. IsFiniteSet(rest) /\ Cardinality(rest) \in Nat
  <2>1. IsFiniteSet(0 .. total - 1)
    BY <1>2, FS_Interval
  <2>2. rest \in SUBSET (0 .. total - 1)
    BY <1>5
  <2> HIDE DEF rest
  <2> QED
    BY <2>1, <2>2, FS_Subset, FS_CardinalityType
<1>14. Cardinality(used') = Cardinality(AllOf(mapped)) + Cardinality(rest)
  <2>1. used' = AllOf(mapped) \cup rest /\ AllOf(mapped) \cap rest = {}
    BY <1>1
  <2> HIDE DEF rest
  <2>2. Cardinality(AllOf(mapped) \cup rest)
          = Cardinality(AllOf(mapped)) + Cardinality(rest) - Cardinality(AllOf(mapped) \cap rest)
    BY <1>11, <1>13, FS_Union
  <2>3. Cardinality(AllOf(mapped) \cap rest) = 0
    BY <2>1, FS_EmptySet
  <2>4. Cardinality(used') = Cardinality(AllOf(mapped) \cup rest)
    BY <2>1
  <2> QED
    BY <1>11, <1>13, <2>2, <2>3, <2>4
<1>15. pmm_used_frames' = Cardinality(MarksOf(mapped)) + Cardinality(rest)
  BY <1>1 DEF BootCount
<1>16. CountedTwice' = Cardinality(MarksOf(mapped)) - Cardinality(AllOf(mapped))
  BY <1>7 DEF CountedTwice
<1>17. pmm_reserved_frames' \in Nat
  <2>1. CeilDiv(BitmapBytes(total), PAGE_SIZE) \in Nat
    BY <1>0, <1>3, Ceiling
  <2> QED
    BY <1>0, <1>1, <2>1
<1> HIDE DEF rest
<1>18. pmm_used_frames' \in Nat /\ pmm_used_frames' = Cardinality(used') + CountedTwice'
  BY <1>11, <1>13, <1>14, <1>15, <1>16
<1> QED
  BY <1>1, <1>2, <1>4, <1>10, <1>12, <1>17, <1>18 DEF total

(* pmm_init sets the manager up, all it must not give away marked. *)
LEMMA InitManagerIInv ==
    ASSUME IInv, detected, pc = "boot", pmm_init(Chosen.base, Chosen.length),
           pc' = "idle", UNCHANGED <<mapVars, locals, answer, held>>
    PROVE  IInv'
<1>1. MapState /\ held = {}
  BY DEF IInv, HeldState, Ready
<1>2. /\ Chosen.base \in Nat \ {0} /\ Chosen.length \in Nat
      /\ \/ Reported([base |-> Chosen.base, length |-> Chosen.length, available |-> TRUE])
         \/ Chosen.base = FALLBACK_BASE /\ Chosen.length = FALLBACK_SIZE
  BY <1>1, ChosenRegion
<1> DEFINE base == Chosen.base
           size == Chosen.length
<1> HIDE DEF base, size
<1>3. base \in Nat \ {0} /\ size \in Nat /\ pmm_init(base, size)
  BY <1>2 DEF base, size
<1>4. /\ used' = Marked' /\ used' \subseteq Frame'
      /\ pmm_memory_base' = base /\ pmm_memory_size' = size
      /\ pmm_total_frames' = size \div PAGE_SIZE /\ pmm_total_frames' \in Nat
      /\ pmm_bitmap' \in Nat /\ pmm_reserved_frames' \in Nat
      /\ pmm_used_frames' \in Nat
  BY <1>1, <1>3, InitManagerMarks
<1>5. count' = 0 /\ i' = 0 /\ start' = 0 /\ contiguous' = 0 /\ answer' = answer /\ held' = {}
  BY <1>1 DEF IInv, SearchState, locals
<1>6. MapState'
  BY <1>1 DEF MapState, Reported, mapVars
<1>7. TypeOK'
  <2>1. Len(entries') <= MEMORY_MAP_SIZE /\ answer' \in Nat
    BY <1>5, <1>6 DEF MapState, IInv, TypeOK
  <2> QED
    BY <1>3, <1>4, <1>5, <2>1 DEF TypeOK
<1>8. RegionState'
  <2>1. ManagedIsRAM'
    <3>1. CASE Reported([base |-> base, length |-> size, available |-> TRUE])
      <4>1. tags' = tags
        BY DEF mapVars
      <4> QED
        BY <1>4, <3>1, <4>1 DEF Reported, ManagedIsRAM
    <3>2. CASE base = FALLBACK_BASE /\ size = FALLBACK_SIZE
      BY <1>4, <3>2 DEF ManagedIsRAM
    <3> QED
      BY <1>2, <3>1, <3>2 DEF base, size
  <2>2. detected'
    BY DEF mapVars
  <2> QED
    BY <1>3, <1>4, <2>1, <2>2 DEF RegionState
<1>9. HeldState'
  <2>1. Own' = {}
    BY <1>4 DEF Own
  <2>2. Pages(base, {}) = {}
    BY <1>3, PagesOfUnion
  <2> QED
    BY <1>4, <1>5, <2>1, <2>2 DEF HeldState, Ready
<1>10. SearchState'
  BY <1>5 DEF SearchState, NothingSkipped
<1> QED
  BY <1>6, <1>7, <1>8, <1>9, <1>10 DEF IInv

(* From then on the map, the region and what it reserves stay as they are. *)
LEMMA RegionStays ==
    ASSUME IInv, UNCHANGED <<mapVars, region>>, Ready, Ready'
    PROVE  /\ MapState' /\ RegionState' /\ Marked' = Marked /\ Frame' = Frame
           /\ pmm_memory_base' = pmm_memory_base /\ pmm_memory_base \in Nat
           /\ pmm_total_frames' = pmm_total_frames /\ pmm_total_frames \in Nat
           /\ CountedTwice' = CountedTwice /\ used \subseteq Frame
           /\ Marked \subseteq used
<1>1. MapState' /\ RegionState'
  BY DEF IInv, MapState, Reported, RegionState, ManagedIsRAM, mapVars, region
<1>2. Marked' = Marked /\ Frame' = Frame /\ CountedTwice' = CountedTwice
  BY DEF Marked, Mapped, BitmapFramesNow, Frame, CountedTwice, mapVars, region
<1>3. /\ pmm_memory_base' = pmm_memory_base /\ pmm_memory_base \in Nat
      /\ pmm_total_frames' = pmm_total_frames /\ pmm_total_frames \in Nat
      /\ used \subseteq Frame
  BY DEF IInv, TypeOK, region
<1>4. Marked \subseteq used
  BY DEF IInv, HeldState
<1> QED
  BY <1>1, <1>2, <1>3, <1>4

(* The types of what no call changes. *)
LEMMA RegionTyped ==
    ASSUME IInv, UNCHANGED <<mapVars, region>>, Ready, Ready',
           pc' \in {"idle", "find one", "find run"},
           used' \subseteq Frame, pmm_used_frames' \in Nat,
           count' \in Nat, contiguous' \in Nat,
           i' \in 0 .. pmm_total_frames, start' \in 0 .. pmm_total_frames,
           answer' \in Nat, held' \subseteq Nat
    PROVE  TypeOK'
<1>1. Frame' = Frame
  BY RegionStays
<1> QED
  BY <1>1 DEF IInv, TypeOK, region, mapVars

(* A step that sets and clears no bit. *)
LEMMA BitsStay ==
    ASSUME IInv, UNCHANGED <<mapVars, region, used, pmm_used_frames, held>>, Ready, Ready',
           pc' \in {"idle", "find one", "find run"},
           count' \in Nat, contiguous' \in Nat,
           i' \in 0 .. pmm_total_frames, start' \in 0 .. pmm_total_frames,
           answer' \in Nat, SearchState'
    PROVE  IInv'
<1>1. MapState' /\ RegionState' /\ Marked' = Marked /\ pmm_memory_base' = pmm_memory_base
  BY RegionStays
<1>2. HeldState'
  BY <1>1 DEF IInv, HeldState, Own
<1>3. TypeOK'
  <2>1. used' \subseteq Frame /\ pmm_used_frames' \in Nat /\ held' \subseteq Nat
    BY DEF IInv, TypeOK
  <2> QED
    BY <2>1, RegionTyped
<1> QED
  BY <1>1, <1>2, <1>3 DEF IInv

(* pmm_alloc_frames starts its search at frame 0. *)
LEMMA AskIInv ==
    ASSUME IInv, NEW n \in Counts, pmm_alloc_frames(n)
    PROVE  IInv'
<1>0. n \in Nat /\ Ready
  BY PmmAssumption DEF pmm_alloc_frames, Ready
<1>1. CASE n = 0
  <2>1. pc' = "idle" /\ UNCHANGED locals /\ answer' = 0
    BY <1>1 DEF pmm_alloc_frames
  <2>2. SearchState'
    BY <2>1 DEF IInv, SearchState, NothingSkipped, locals, pmm_alloc_frames
  <2>3. count' \in Nat /\ contiguous' \in Nat /\ i' \in 0 .. pmm_total_frames
        /\ start' \in 0 .. pmm_total_frames
    BY <2>1 DEF IInv, TypeOK, locals
  <2> QED
    BY <1>0, <2>1, <2>2, <2>3, BitsStay DEF Ready, pmm_alloc_frames
<1>2. CASE n # 0
  <2>1. /\ pc' = IF n = 1 THEN "find one" ELSE "find run"
        /\ count' = n /\ i' = 0 /\ contiguous' = 0 /\ start' = 0 /\ answer' = answer
    BY <1>2 DEF pmm_alloc_frames
  <2>2. pmm_total_frames \in Nat /\ answer \in Nat /\ pmm_total_frames' = pmm_total_frames
    BY DEF IInv, TypeOK, pmm_alloc_frames, region
  <2>3. NothingSkipped'
    <3>1. Frame' \subseteq Nat
      BY <2>2 DEF Frame
    <3>2. \A f \in Frame' : ~(f + n <= 0)
      BY <1>0, <1>2, <3>1
    <3>3. \A f \in Frame' : ~(f + count' <= i')
      BY <2>1, <3>2
    <3>4. contiguous' = 0 /\ i' = 0
      BY <2>1, Zenon
    <3>5. ~(contiguous' > 0) /\ ~(contiguous' < i')
      BY <3>4
    <3> QED
      BY <3>3, <3>5 DEF NothingSkipped
  <2>4. SearchState'
    <3>1. CASE n = 1
      BY <2>1, <2>3, <3>1 DEF SearchState
    <3>2. CASE n # 1
      <4>1. n > 1 /\ 0 < n
        BY <1>0, <1>2, <3>2
      <4>2. pc' = "find run" /\ count' > 1 /\ contiguous' < count'
        BY <2>1, <3>2, <4>1
      <4> QED
        BY <2>3, <4>2 DEF SearchState
    <3> QED
      BY <3>1, <3>2
  <2>5. pc' \in {"idle", "find one", "find run"} /\ 0 \in 0 .. pmm_total_frames
    <3>1. pc' \in {"idle", "find one", "find run"}
      BY <2>1, Zenon
    <3>2. 0 \in 0 .. pmm_total_frames
      BY <2>2
    <3> QED
      BY <3>1, <3>2
  <2> QED
    BY <1>0, <2>1, <2>2, <2>4, <2>5, BitsStay DEF Ready, pmm_alloc_frames
<1> QED
  BY <1>1, <1>2

(* A search that finds nothing more to look at leaves no locals behind. *)
LEMMA ReturnedState ==
    ASSUME NEW a, Return(a)
    PROVE  /\ SearchState' /\ pc' = "idle" /\ answer' = a
           /\ count' = 0 /\ i' = 0 /\ contiguous' = 0 /\ start' = 0
BY DEF Return, SearchState, NothingSkipped

(* The search that reaches the last frame answers 0. *)
LEMMA FindFailIInv ==
    ASSUME IInv, FindFail
    PROVE  IInv'
<1>1. /\ SearchState' /\ pc' = "idle" /\ answer' = 0
      /\ count' = 0 /\ i' = 0 /\ contiguous' = 0 /\ start' = 0
  BY ReturnedState DEF FindFail
<1>2. Ready /\ Ready'
  BY <1>1 DEF FindFail, Ready
<1>3. 0 \in 0 .. pmm_total_frames
  <2>1. pmm_total_frames \in Nat
    BY DEF IInv, TypeOK
  <2> QED
    BY <2>1
<1> QED
  BY <1>1, <1>2, <1>3, BitsStay DEF FindFail

(* The pages of consecutive frames, as pmm_alloc_frames' caller sees them. *)
LEMMA PagesOfRun ==
    ASSUME NEW b \in Nat, NEW first \in Nat, NEW n \in Nat
    PROVE  {b + first * PAGE_SIZE + k * PAGE_SIZE : k \in 0 .. n - 1}
             = Pages(b, first .. first + n - 1)
<1> DEFINE Run == {b + first * PAGE_SIZE + k * PAGE_SIZE : k \in 0 .. n - 1}
<1>0. PAGE_SIZE \in Nat \ {0}
  BY PmmAssumption
<1>1. ASSUME NEW k \in Int
      PROVE  b + first * PAGE_SIZE + k * PAGE_SIZE = b + (first + k) * PAGE_SIZE
  BY <1>0
<1>2. ASSUME NEW a \in Run PROVE a \in Pages(b, first .. first + n - 1)
  <2>1. PICK k \in 0 .. n - 1 : a = b + first * PAGE_SIZE + k * PAGE_SIZE
    BY <1>2
  <2>2. first + k \in first .. first + n - 1 /\ k \in Int
    BY <2>1
  <2>3. a = b + (first + k) * PAGE_SIZE
    BY <1>1, <2>1, <2>2
  <2> QED
    BY <2>2, <2>3 DEF Pages
<1>3. ASSUME NEW a \in Pages(b, first .. first + n - 1) PROVE a \in Run
  <2>1. PICK f \in first .. first + n - 1 : a = b + f * PAGE_SIZE
    BY <1>3 DEF Pages
  <2>2. f - first \in 0 .. n - 1 /\ first + (f - first) = f
    BY <2>1
  <2>3. a = b + first * PAGE_SIZE + (f - first) * PAGE_SIZE
    BY <1>1, <2>1, <2>2
  <2> QED
    BY <2>2, <2>3
<1> QED
  BY <1>2, <1>3

(* A run of clear bits is granted whole: its frames and no others are out    *)
(* afterwards that were not before.                                          *)
LEMMA GrantIInv ==
    ASSUME IInv, Ready, NEW first \in Nat, Clear(first, count), count # 0,
           Grant(first), UNCHANGED <<mapVars, region>>
    PROVE  /\ IInv' /\ first .. first + count - 1 \subseteq Frame \ used
           /\ used' = used \cup (first .. first + count - 1)
           /\ held' = held \cup Pages(pmm_memory_base, first .. first + count - 1)
           /\ pmm_memory_base' = pmm_memory_base /\ Frame' = Frame
<1> DEFINE run == first .. first + count - 1
<1>1. /\ SearchState' /\ pc' = "idle" /\ answer' = AddrOf(first)
      /\ count' = 0 /\ i' = 0 /\ contiguous' = 0 /\ start' = 0
  BY ReturnedState DEF Grant
<1>2. Ready'
  BY <1>1 DEF Ready
<1>3. /\ MapState' /\ RegionState' /\ Marked' = Marked /\ Frame' = Frame
      /\ pmm_memory_base' = pmm_memory_base /\ pmm_memory_base \in Nat
      /\ pmm_total_frames' = pmm_total_frames /\ pmm_total_frames \in Nat
      /\ used \subseteq Frame /\ Marked \subseteq used
  BY <1>2, RegionStays
<1>4. count \in Nat /\ pmm_used_frames \in Nat
  BY DEF IInv, TypeOK
<1>5. run \subseteq Frame \ used
  BY DEF Clear
<1>6. Taken(first, count) = run
  BY <1>3, <1>5 DEF Taken, Frame
<1>7. used' = used \cup run
  BY <1>6 DEF Grant
<1>8. held' = held \cup Pages(pmm_memory_base, run)
  <2>1. held' = held \cup {pmm_memory_base + first * PAGE_SIZE + k * PAGE_SIZE : k \in 0 .. count - 1}
    BY DEF Grant, AddrOf
  <2> QED
    BY <1>3, <1>4, <2>1, PagesOfRun
<1>9. HeldState'
  <2>1. Own' = Own \cup run
    BY <1>3, <1>5, <1>7 DEF Own
  <2>2. held = Pages(pmm_memory_base, Own)
    BY DEF IInv, HeldState
  <2>3. Own \in SUBSET Int /\ run \in SUBSET Int
    BY <1>3, <1>5 DEF Own, Frame
  <2> HIDE DEF run
  <2>4. Pages(pmm_memory_base, Own \cup run) = held \cup Pages(pmm_memory_base, run)
    BY <1>3, <2>2, <2>3, PagesOfUnion
  <2> QED
    BY <1>2, <1>3, <1>7, <1>8, <2>1, <2>4 DEF HeldState
<1>10. TypeOK'
  <2>1. used' \subseteq Frame /\ pmm_used_frames' \in Nat
    BY <1>3, <1>4, <1>5, <1>7 DEF Grant
  <2>2. AddrOf(first) \in Nat
    BY <1>3, PmmAssumption DEF AddrOf
  <2>3. Pages(pmm_memory_base, run) \subseteq Nat
    <3>1. \A f \in run : f \in Nat
      BY <1>3, <1>5 DEF Frame
    <3>2. \A f \in run : pmm_memory_base + f * PAGE_SIZE \in Nat
      BY <1>3, <3>1, PmmAssumption
    <3> HIDE DEF run
    <3> QED
      BY <3>2 DEF Pages
  <2>4. held' \subseteq Nat
    BY <1>8, <2>3 DEF IInv, TypeOK
  <2>5. 0 \in 0 .. pmm_total_frames
    BY <1>3
  <2> QED
    BY <1>1, <1>2, <2>1, <2>2, <2>4, <2>5, RegionTyped
<1> QED
  BY <1>1, <1>3, <1>5, <1>7, <1>8, <1>9, <1>10 DEF IInv

(* What the loop looks at: the bit of a frame of the region. *)
LEMMA BitTested ==
    ASSUME IInv, InLoop(i)
    PROVE  /\ i \in Frame /\ i \in Nat /\ i + 1 \in 0 .. pmm_total_frames
           /\ pmm_test_frame(i) <=> i \in used
<1>1. i \in 0 .. pmm_total_frames /\ pmm_total_frames \in Nat /\ i < pmm_total_frames
  BY DEF IInv, TypeOK, InLoop
<1> QED
  BY <1>1 DEF Frame, pmm_test_frame

(* Clear bits before a clear bit are a run that is one longer. *)
LEMMA ClearGrows ==
    ASSUME NEW f \in Nat, NEW n \in Nat, n > 0 => Clear(f, n), f + n \in Frame \ used
    PROVE  Clear(f, n + 1)
<1> SUFFICES ASSUME NEW g \in f .. f + (n + 1) - 1 PROVE g \in Frame /\ g \notin used
  BY DEF Clear
<1>1. g = f + n \/ (n > 0 /\ g \in f .. f + n - 1)
  OBVIOUS
<1> QED
  BY <1>1 DEF Clear

(* A run that contains a set bit will not do. *)
LEMMA NoneAround ==
    ASSUME NEW f \in Int, NEW n \in Int, NEW j \in Int, j \in used, f <= j, j < f + n
    PROVE  ~Clear(f, n)
<1>1. j \in f .. f + n - 1
  OBVIOUS
<1> QED
  BY <1>1 DEF Clear

Searching == pc \in {"find one", "find run"}

(* The locals of a search that goes on, as NothingSkipped relates them. *)
LEMMA SearchFacts ==
    ASSUME IInv, InLoop(i), Searching
    PROVE  /\ i \in Frame /\ i \in Nat /\ i + 1 \in 0 .. pmm_total_frames
           /\ Frame \subseteq Nat /\ used \subseteq Frame
           /\ count \in Nat \ {0} /\ contiguous \in Nat /\ contiguous <= i
           /\ start \in Nat /\ start \in 0 .. pmm_total_frames
           /\ \A f \in Frame : f + count <= i => ~Clear(f, count)
           /\ contiguous > 0 => start + contiguous = i /\ Clear(start, contiguous)
           /\ contiguous < i => i - contiguous - 1 \in used
<1>1. /\ count \in Nat /\ contiguous \in Nat /\ start \in 0 .. pmm_total_frames
      /\ pmm_total_frames \in Nat /\ used \subseteq Frame
  BY Zenon DEF IInv, TypeOK
<1>2. /\ \A f \in Frame : f + count <= i => ~Clear(f, count)
      /\ contiguous > 0 => start + contiguous = i /\ Clear(start, contiguous)
      /\ contiguous < i => i - contiguous - 1 \in used
  BY Zenon DEF Searching, IInv, SearchState, NothingSkipped
<1>3. count = 1 \/ count > 1
  BY Zenon DEF Searching, IInv, SearchState
<1>4. /\ i \in Frame /\ i \in Nat /\ i + 1 \in 0 .. pmm_total_frames
  BY BitTested
<1>5. Frame \subseteq Nat
  BY <1>1 DEF Frame
<1>6. contiguous <= i
  BY <1>1, <1>2, <1>4
<1> QED
  BY <1>1, <1>2, <1>3, <1>4, <1>5, <1>6

(* The search goes on behind a used frame: no run it passed by would do.     *)
LEMMA SkipUsed ==
    ASSUME IInv, InLoop(i), Searching, i \in used
    PROVE  /\ \A f \in Frame : f + count <= i + 1 => ~Clear(f, count)
           /\ i + 1 - 0 - 1 \in used
<1>1. /\ i \in Nat /\ Frame \subseteq Nat /\ count \in Nat \ {0}
      /\ \A f \in Frame : f + count <= i => ~Clear(f, count)
  BY SearchFacts
<1>2. ASSUME NEW f \in Frame, f + count <= i + 1 PROVE ~Clear(f, count)
  <2>1. f \in Nat
    BY <1>1
  <2>2. CASE f + count <= i
    BY <1>1, <2>2
  <2>3. CASE ~(f + count <= i)
    <3>1. f <= i /\ i < f + count
      BY <1>1, <1>2, <2>1, <2>3
    <3> QED
      BY <1>1, <2>1, <3>1, NoneAround
  <2> QED
    BY <2>2, <2>3
<1>3. i + 1 - 0 - 1 = i
  BY <1>1
<1> QED
  BY <1>2, <1>3

(* A free frame makes the run one longer, and no run that is too short will  *)
(* do.                                                                       *)
LEMMA ExtendRun ==
    ASSUME IInv, InLoop(i), Searching, i \notin used
    PROVE  /\ RunStart \in 0 .. pmm_total_frames /\ RunStart \in Nat
           /\ RunStart + (contiguous + 1) = i + 1
           /\ Clear(RunStart, contiguous + 1)
           /\ contiguous + 1 < i + 1 => i + 1 - (contiguous + 1) - 1 \in used
           /\ contiguous + 1 < count =>
                 \A f \in Frame : f + count <= i + 1 => ~Clear(f, count)
<1>1. /\ i \in Frame /\ i \in Nat /\ i + 1 \in 0 .. pmm_total_frames
      /\ Frame \subseteq Nat /\ used \subseteq Frame
      /\ count \in Nat \ {0} /\ contiguous \in Nat /\ contiguous <= i
      /\ start \in Nat /\ start \in 0 .. pmm_total_frames
      /\ \A f \in Frame : f + count <= i => ~Clear(f, count)
      /\ contiguous > 0 => start + contiguous = i /\ Clear(start, contiguous)
      /\ contiguous < i => i - contiguous - 1 \in used
  BY SearchFacts
<1>2. pmm_total_frames \in Nat
  BY Zenon DEF IInv, TypeOK
<1>3. /\ RunStart \in 0 .. pmm_total_frames /\ RunStart \in Nat
      /\ RunStart + contiguous = i
  BY <1>1, <1>2 DEF RunStart
<1>4. contiguous > 0 => Clear(RunStart, contiguous)
  <2>1. contiguous > 0 => RunStart = start
    BY <1>1 DEF RunStart
  <2> QED
    BY <1>1, <2>1
<1>5. Clear(RunStart, contiguous + 1)
  BY <1>1, <1>3, <1>4, ClearGrows
<1>6. contiguous + 1 < i + 1 => i + 1 - (contiguous + 1) - 1 \in used
  <2>1. i + 1 - (contiguous + 1) - 1 = i - contiguous - 1
    BY <1>1
  <2>2. contiguous + 1 < i + 1 => contiguous < i
    BY <1>1
  <2> QED
    BY <1>1, <2>1, <2>2
<1>7. ASSUME contiguous + 1 < count, NEW f \in Frame, f + count <= i + 1
      PROVE  ~Clear(f, count)
  <2>1. f \in Nat
    BY <1>1
  <2>2. CASE f + count <= i
    BY <1>1, <2>2
  <2>3. CASE ~(f + count <= i)
    <3>1. contiguous < i
      BY <1>1, <1>7, <2>1, <2>3
    <3> DEFINE j == i - contiguous - 1
    <3>2. j \in used
      BY <1>1, <3>1
    <3>3. j \in Int /\ f <= j /\ j < f + count
      BY <1>1, <1>7, <2>1, <2>3
    <3> HIDE DEF j
    <3> QED
      BY <1>1, <2>1, <3>2, <3>3, NoneAround
  <2> QED
    BY <2>2, <2>3
<1>8. RunStart + (contiguous + 1) = i + 1
  BY <1>1, <1>3
<1> QED
  BY <1>3, <1>5, <1>6, <1>7, <1>8

(* NothingSkipped for the locals after a step. *)
LEMMA StillSearching ==
    ASSUME Frame' = Frame, used' = used,
           \A f \in Frame : f + count' <= i' => ~Clear(f, count'),
           contiguous' > 0 => start' + contiguous' = i' /\ Clear(start', contiguous'),
           contiguous' < i' => i' - contiguous' - 1 \in used
    PROVE  NothingSkipped'
<1>1. \A f, m : (f \in Frame /\ f \notin used)' <=> f \in Frame /\ f \notin used
  OBVIOUS
<1>2. Clear(start, contiguous)' <=> Clear(start', contiguous')
  BY <1>1 DEF Clear
<1>3. ASSUME NEW f PROVE Clear(f, count)' <=> Clear(f, count')
  BY <1>1 DEF Clear
<1> QED
  BY <1>2, <1>3, Zenon DEF NothingSkipped

(* A step of a loop that looks at one frame and goes on to the next. *)
LEMMA NextFrameIInv ==
    ASSUME IInv, Searching, InLoop(i),
           UNCHANGED <<mapVars, region, pc, count, used, pmm_used_frames, answer, held>>,
           i' \in 0 .. pmm_total_frames, contiguous' \in Nat,
           start' \in 0 .. pmm_total_frames, NothingSkipped',
           pc = "find one" => contiguous' = 0, pc = "find run" => contiguous' < count
    PROVE  IInv'
<1>1. count' \in Nat /\ answer' \in Nat
  BY Zenon DEF IInv, TypeOK
<1>2. Ready /\ Ready' /\ pc' \in {"idle", "find one", "find run"}
  BY Zenon DEF Searching, Ready
<1>3. SearchState'
  BY Zenon DEF Searching, IInv, SearchState
<1> QED
  BY <1>1, <1>2, <1>3, BitsStay

(* What one iteration of a search does to the bitmap: it grants a clear run, *)
(* or nothing.                                                               *)
Found ==
    /\ Ready /\ UNCHANGED <<mapVars, region>> /\ count # 0
    /\ \E first \in Nat : Clear(first, count) /\ Grant(first)
GoesOn == UNCHANGED <<mapVars, region, used, pmm_used_frames, held, answer, count, pc>>

(* One iteration of the search for a single frame. *)
LEMMA FindOneIInv ==
    ASSUME IInv, FindOne
    PROVE  IInv' /\ (Found \/ GoesOn)
<1>1. /\ Searching /\ InLoop(i) /\ Ready /\ count = 1 /\ contiguous = 0
      /\ UNCHANGED <<mapVars, region>>
  BY Zenon DEF FindOne, Searching, Ready, IInv, SearchState
<1>2. /\ i \in Frame /\ i \in Nat /\ i + 1 \in 0 .. pmm_total_frames
      /\ pmm_test_frame(i) <=> i \in used
  BY <1>1, BitTested
<1>3. CASE ~pmm_test_frame(i)
  <2>1. Grant(i)
    BY <1>3 DEF FindOne
  <2>2. Clear(i, count)
    <3>1. 0 \in Nat /\ ~(0 > 0) /\ i + 0 \in Frame \ used
      BY <1>2, <1>3
    <3>2. Clear(i, 0 + 1)
      BY <1>2, <3>1, ClearGrows
    <3>3. 0 + 1 = count
      BY <1>1
    <3> QED
      BY <3>2, <3>3
  <2>3. count # 0
    BY <1>1
  <2> QED
    BY <1>1, <1>2, <2>1, <2>2, <2>3, GrantIInv DEF Found
<1>4. CASE pmm_test_frame(i)
  <2>1. /\ i' = i + 1
        /\ UNCHANGED <<pc, count, contiguous, start, used, pmm_used_frames, answer, held>>
    BY <1>4 DEF FindOne, Advance
  <2>2. /\ \A f \in Frame : f + count <= i + 1 => ~Clear(f, count)
        /\ i + 1 - 0 - 1 \in used
    BY <1>1, <1>2, <1>4, SkipUsed
  <2>3. Frame' = Frame /\ ~(0 > 0)
    BY <1>1 DEF Frame, region
  <2>4. NothingSkipped'
    <3>1. count' = count /\ i' = i + 1 /\ contiguous' = 0 /\ used' = used
      BY <1>1, <2>1
    <3>2. \A f \in Frame : f + count' <= i' => ~Clear(f, count')
      BY <2>2, <3>1, Zenon
    <3>3. ~(contiguous' > 0)
      BY <3>1
    <3>4. i' - contiguous' - 1 \in used
      <4>1. i' = i + 1 /\ contiguous' = 0
        BY <3>1
      <4>2. i' - contiguous' - 1 = i + 1 - 0 - 1
        BY <1>2, <4>1
      <4> QED
        BY <2>2, <4>2, Zenon
    <3> QED
      BY <2>3, <3>1, <3>2, <3>3, <3>4, StillSearching, Zenon
  <2>5. i' \in 0 .. pmm_total_frames /\ start' \in 0 .. pmm_total_frames /\ contiguous' = 0
    BY <1>1, <1>2, <2>1, Zenon DEF IInv, TypeOK
  <2>6. pc = "find one" /\ contiguous' \in Nat
    <3>1. 0 \in Nat
      OBVIOUS
    <3> QED
      BY <2>5, <3>1, Zenon DEF FindOne
  <2>7. pc = "find run" => contiguous' < count
    BY <2>6
  <2> QED
    BY <1>1, <2>1, <2>4, <2>5, <2>6, <2>7, NextFrameIInv DEF GoesOn
<1> QED
  BY <1>3, <1>4

(* And one of the search for several. *)
LEMMA FindRunIInv ==
    ASSUME IInv, FindRun
    PROVE  IInv' /\ (Found \/ GoesOn)
<1>1. /\ Searching /\ InLoop(i) /\ Ready /\ contiguous < count
      /\ UNCHANGED <<mapVars, region>>
  BY Zenon DEF FindRun, Searching, Ready, IInv, SearchState
<1>2. /\ i \in Frame /\ i \in Nat /\ i + 1 \in 0 .. pmm_total_frames
      /\ pmm_test_frame(i) <=> i \in used
  BY <1>1, BitTested
<1>3. count \in Nat \ {0} /\ contiguous \in Nat
  BY <1>1, SearchFacts
<1>4. CASE ~pmm_test_frame(i)
  <2>1. /\ RunStart \in 0 .. pmm_total_frames /\ RunStart \in Nat
        /\ RunStart + (contiguous + 1) = i + 1
        /\ Clear(RunStart, contiguous + 1)
        /\ contiguous + 1 < i + 1 => i + 1 - (contiguous + 1) - 1 \in used
        /\ contiguous + 1 < count =>
              \A f \in Frame : f + count <= i + 1 => ~Clear(f, count)
    BY <1>1, <1>2, <1>4, ExtendRun
  <2>2. CASE contiguous + 1 = count
    <3>1. Grant(RunStart)
      BY <1>4, <2>2, Zenon DEF FindRun
    <3>2. Clear(RunStart, count) /\ count # 0
      BY <1>3, <2>1, <2>2
    <3> QED
      BY <1>1, <2>1, <3>1, <3>2, GrantIInv DEF Found
  <2>3. CASE contiguous + 1 # count
    <3>1. /\ i' = i + 1 /\ contiguous' = contiguous + 1 /\ start' = RunStart
          /\ UNCHANGED <<pc, count, used, pmm_used_frames, answer, held>>
      BY <1>4, <2>3, Zenon DEF FindRun, Advance
    <3>2. contiguous + 1 < count /\ contiguous + 1 \in Nat
      BY <1>1, <1>3, <2>3
    <3>3. Frame' = Frame
      BY <1>1, Zenon DEF Frame, region
    <3>4. NothingSkipped'
      <4>1. /\ count' = count /\ i' = i + 1 /\ contiguous' = contiguous + 1
            /\ start' = RunStart /\ used' = used
        BY <3>1
      <4>2. \A f \in Frame : f + count <= i + 1 => ~Clear(f, count)
        BY <2>1, <3>2
      <4>3. \A f \in Frame : f + count' <= i' => ~Clear(f, count')
        BY <4>1, <4>2, Zenon
      <4>4. start' + contiguous' = i' /\ Clear(start', contiguous')
        BY <2>1, <4>1, Zenon
      <4>5. contiguous' < i' => i' - contiguous' - 1 \in used
        <5>1. i' = i + 1 /\ contiguous' = contiguous + 1
          BY <4>1
        <5>2. /\ contiguous' < i' <=> contiguous + 1 < i + 1
              /\ i' - contiguous' - 1 = i + 1 - (contiguous + 1) - 1
          BY <1>2, <1>3, <5>1
        <5> QED
          BY <2>1, <5>2, Zenon
      <4> QED
        BY <3>3, <4>1, <4>3, <4>4, <4>5, StillSearching, Zenon
    <3>5. /\ i' \in 0 .. pmm_total_frames /\ start' \in 0 .. pmm_total_frames
          /\ contiguous' \in Nat /\ contiguous' < count
      BY <1>2, <2>1, <3>1, <3>2
    <3>6. pc # "find one"
      BY DEF FindRun
    <3> QED
      BY <1>1, <3>1, <3>4, <3>5, <3>6, NextFrameIInv DEF GoesOn
  <2> QED
    BY <2>2, <2>3
<1>5. CASE pmm_test_frame(i)
  <2>1. /\ i' = i + 1 /\ contiguous' = 0
        /\ UNCHANGED <<pc, count, start, used, pmm_used_frames, answer, held>>
    BY <1>5, Zenon DEF FindRun, Advance, AfterUsed
  <2>2. /\ \A f \in Frame : f + count <= i + 1 => ~Clear(f, count)
        /\ i + 1 - 0 - 1 \in used
    BY <1>1, <1>2, <1>5, SkipUsed
  <2>3. Frame' = Frame /\ ~(0 > 0)
    BY <1>1 DEF Frame, region
  <2>4. NothingSkipped'
    <3>1. count' = count /\ i' = i + 1 /\ contiguous' = 0 /\ used' = used
      BY <2>1
    <3>2. \A f \in Frame : f + count' <= i' => ~Clear(f, count')
      BY <2>2, <3>1, Zenon
    <3>3. ~(contiguous' > 0)
      BY <3>1
    <3>4. i' - contiguous' - 1 \in used
      <4>1. i' = i + 1 /\ contiguous' = 0
        BY <3>1
      <4>2. i' - contiguous' - 1 = i + 1 - 0 - 1
        BY <1>2, <4>1
      <4> QED
        BY <2>2, <4>2, Zenon
    <3> QED
      BY <2>3, <3>1, <3>2, <3>3, <3>4, StillSearching, Zenon
  <2>5. i' \in 0 .. pmm_total_frames /\ start' \in 0 .. pmm_total_frames
    BY <1>2, <2>1, Zenon DEF IInv, TypeOK
  <2>6. contiguous' \in Nat /\ contiguous' < count
    BY <1>3, <2>1
  <2>7. pc # "find one"
    BY DEF FindRun
  <2> QED
    BY <1>1, <2>1, <2>4, <2>5, <2>6, <2>7, NextFrameIInv DEF GoesOn
<1> QED
  BY <1>4, <1>5

-----------------------------------------------------------------------------
(* Giving frames back. *)

(* pmm_free_frames computes, from an address a caller got, the frame it was  *)
(* computed from, so the frames that are held are the caller-visible ones.   *)
LEMMA HeldAreOwn ==
    ASSUME IInv, Ready
    PROVE  /\ HeldFrames = Own /\ \A a \in held : a = AddrOf(FrameOf(a))
           /\ \A f \in Int : FrameOf(AddrOf(f)) = f
<1>0. held = Pages(pmm_memory_base, Own)
  BY Zenon DEF IInv, HeldState
<1>1. pmm_memory_base \in Nat /\ pmm_total_frames \in Nat /\ used \subseteq Frame
  BY Zenon DEF IInv, TypeOK
<1>2. \A f \in Int : FrameOf(AddrOf(f)) = f
  <2> TAKE f \in Int
  <2>1. PAGE_SIZE \in Nat \ {0}
    BY PmmAssumption
  <2>2. (pmm_memory_base + f * PAGE_SIZE) - pmm_memory_base = f * PAGE_SIZE
    BY <1>1, <2>1
  <2> QED
    BY <2>2, PageArithmetic DEF FrameOf, AddrOf
<1>3. Own \subseteq Int
  <2>1. \A f \in Own : f \in Frame
    BY <1>1, Zenon DEF Own
  <2>2. Frame \subseteq Int
    BY DEF Frame
  <2> QED
    BY <2>1, <2>2
<1>4. \A a : a \in held <=> \E f \in Own : a = AddrOf(f)
  BY <1>0 DEF Pages, AddrOf
<1>5. HeldFrames = Own
  BY <1>2, <1>3, <1>4, Zenon DEF HeldFrames
<1>6. \A a \in held : a = AddrOf(FrameOf(a))
  BY <1>2, <1>3, <1>4, Zenon
<1> QED
  BY <1>2, <1>5, <1>6

(* pmm_free_frames clears the caller's frames, and counts within 0. *)
LEMMA FreeIInv ==
    ASSUME IInv, NEW a \in Address, NEW n \in Counts, Free(a, n)
    PROVE  /\ IInv' /\ Releases(a, n) \subseteq Own
           /\ used' = used \ Releases(a, n)
           /\ held' = held \ Pages(pmm_memory_base, Releases(a, n))
           /\ pmm_used_frames' = Decrement(Releases(a, n), n)
           /\ Ready /\ Ready' /\ UNCHANGED <<mapVars, region>>
<1> DEFINE cleared == Releases(a, n)
<1>1. Ready /\ Ready' /\ pc' = "idle" /\ UNCHANGED <<mapVars, region, locals, answer, pc>>
  BY DEF Free, pmm_free_frames, Ready
<1>2. /\ used' = used \ cleared /\ pmm_used_frames' = Decrement(cleared, n)
      /\ held' = held \ {AddrOf(f) : f \in cleared}
  BY DEF Free, pmm_free_frames
<1>3. cleared \subseteq Own
  BY <1>1, HeldAreOwn DEF Free
<1>4. held' = held \ Pages(pmm_memory_base, cleared)
  BY <1>2, Zenon DEF AddrOf, Pages
<1> HIDE DEF cleared
<1>5. /\ MapState' /\ RegionState' /\ Marked' = Marked /\ Frame' = Frame
      /\ pmm_memory_base' = pmm_memory_base /\ pmm_memory_base \in Nat
      /\ pmm_total_frames \in Nat /\ used \subseteq Frame /\ Marked \subseteq used
  BY <1>1, RegionStays
<1>6. HeldState'
  <2>1. Own' = Own \ cleared /\ Marked' \subseteq used'
    BY <1>2, <1>3, <1>5 DEF Own
  <2>2. Own \in SUBSET Int /\ cleared \in SUBSET Int
    BY <1>3, <1>5 DEF Own, Frame
  <2>3. Pages(pmm_memory_base, Own \ cleared) = Pages(pmm_memory_base, Own) \ Pages(pmm_memory_base, cleared)
    BY <1>5, <2>2, PagesOfUnion
  <2>4. held = Pages(pmm_memory_base, Own)
    BY <1>1 DEF IInv, HeldState
  <2> QED
    BY <1>1, <1>4, <1>5, <2>1, <2>3, <2>4 DEF HeldState
<1>7. pmm_used_frames' \in Nat
  <2>1. IsFiniteSet(cleared)
    <3>1. IsFiniteSet(0 .. pmm_total_frames - 1)
      BY <1>5, FS_Interval
    <3>2. cleared \in SUBSET (0 .. pmm_total_frames - 1)
      BY <1>3, <1>5 DEF Own, Frame
    <3> QED
      BY <3>1, <3>2, FS_Subset
  <2>2. Cardinality(cleared) \in Nat
    BY <2>1, FS_CardinalityType
  <2>3. pmm_used_frames \in Nat
    BY DEF IInv, TypeOK
  <2>4. pmm_used_frames - Cardinality(cleared) \in Int
    BY <2>2, <2>3
  <2>5. Max({0, pmm_used_frames - Cardinality(cleared)}) \in Nat
    BY <2>4, ClippedAtZero
  <2> QED
    BY <1>2, <2>5 DEF Decrement
<1>8. SearchState'
  <2>1. pc' = "idle" /\ count' = 0 /\ i' = 0 /\ start' = 0 /\ contiguous' = 0
    BY <1>1, Zenon DEF IInv, SearchState, locals
  <2> QED
    BY <2>1 DEF SearchState, NothingSkipped
<1>9. TypeOK'
  <2>1. used' \subseteq Frame /\ held' \subseteq Nat
    BY <1>2, <1>4, <1>5, Zenon DEF IInv, TypeOK
  <2>2. /\ count' \in Nat /\ contiguous' \in Nat /\ answer' \in Nat
        /\ i' \in 0 .. pmm_total_frames /\ start' \in 0 .. pmm_total_frames
    BY <1>1, Zenon DEF IInv, TypeOK, locals
  <2> QED
    BY <1>1, <1>7, <2>1, <2>2, RegionTyped
<1> QED
  BY <1>1, <1>2, <1>3, <1>4, <1>5, <1>6, <1>8, <1>9 DEF IInv, cleared

(* Every step of the manager keeps the invariant. *)
LEMMA NextIInv == IInv /\ [Next]_vars => IInv'
<1> SUFFICES ASSUME IInv, [Next]_vars PROVE IInv'
  OBVIOUS
<1>1. CASE Boot
  BY <1>1, DetectIInv, InitManagerIInv DEF Boot
<1>2. CASE FindOne
  BY <1>2, FindOneIInv
<1>3. CASE FindRun
  BY <1>3, FindRunIInv
<1>4. CASE FindFail
  BY <1>4, FindFailIInv
<1>5. ASSUME NEW n \in Counts, pmm_alloc_frames(n) PROVE IInv'
  BY <1>5, AskIInv
<1>6. ASSUME NEW a \in Address, NEW n \in Counts, Free(a, n) PROVE IInv'
  BY <1>6, FreeIInv
<1>7. CASE UNCHANGED vars
  <2>1. UNCHANGED <<mapVars, region, locals, pc, used, pmm_used_frames, answer, held>>
    BY <1>7 DEF vars
  <2>2. Frame' = Frame /\ Marked' = Marked
    BY <2>1 DEF Frame, Marked, Mapped, BitmapFramesNow, mapVars, region
  <2>3. TypeOK'
    BY <2>1, <2>2 DEF IInv, TypeOK, mapVars, region, locals
  <2>4. MapState' /\ RegionState'
    BY <2>1 DEF IInv, MapState, RegionState, Reported, ManagedIsRAM, Ready, mapVars, region
  <2>5. HeldState'
    BY <2>1, <2>2 DEF IInv, HeldState, Own, Ready, region
  <2>6. SearchState'
    <3>1. NothingSkipped' <=> NothingSkipped
      BY <2>1, <2>2 DEF NothingSkipped, Clear, locals
    <3> QED
      BY <2>1, <3>1, Zenon DEF IInv, SearchState, locals
  <2> QED
    BY <2>3, <2>4, <2>5, <2>6 DEF IInv
<1> QED
  BY <1>1, <1>2, <1>3, <1>4, <1>5, <1>6, <1>7 DEF Next, Step

(* So it always holds. *)
LEMMA AlwaysIInv == Spec => []IInv
BY InitIInv, NextIInv, PTL DEF Spec

(* memory_info, the region and the search variables keep their types.        *)
THEOREM FramesTyped == Spec => []TypeOK
<1>1. IInv => TypeOK
  BY DEF IInv
<1> QED
  BY <1>1, AlwaysIInv, PTL

(* pmm_init is given RAM the firmware's map reports, or the fallback: the    *)
(* index kernel_main keeps of the longest region names one it stored.        *)
THEOREM OnlyRAMIsManaged == Spec => []ManagedIsRAM
<1>1. IInv => ManagedIsRAM
  BY DEF IInv, RegionState
<1> QED
  BY <1>1, AlwaysIInv, PTL

(* pmm_find_contiguous_frames passes over no run that would do.              *)
THEOREM SearchIsFirstFit == Spec => []NothingSkipped
<1>1. IInv => NothingSkipped
  BY DEF IInv, SearchState
<1> QED
  BY <1>1, AlwaysIInv, PTL

(* A set bit of the bitmap is a page somebody holds or a mark of pmm_init,   *)
(* never both, whatever callers allocate and free.                           *)
THEOREM BitmapStaysExact == Spec => []BitmapIsExact
<1>1. ASSUME IInv, Ready
      PROVE  /\ used = HeldFrames \cup Marked /\ HeldFrames \cap Marked = {}
             /\ \A a \in held : a = AddrOf(FrameOf(a))
  <2>1. HeldFrames = Own /\ \A a \in held : a = AddrOf(FrameOf(a))
    BY <1>1, HeldAreOwn
  <2>2. Marked \subseteq used
    BY <1>1 DEF IInv, HeldState
  <2> QED
    BY <2>1, <2>2 DEF Own
<1>2. IInv => BitmapIsExact
  BY <1>1 DEF BitmapIsExact
<1> QED
  BY <1>2, AlwaysIInv, PTL

-----------------------------------------------------------------------------
(* The counter of set bits. *)

(* The bits and the marks of the entries are finitely many, and no fewer     *)
(* marks than frames marked.                                                 *)
LEMMA BitsCounted ==
    ASSUME IInv, Ready
    PROVE  /\ IsFiniteSet(used) /\ Cardinality(used) \in Nat /\ CountedTwice \in Nat
<1>1. pmm_total_frames \in Nat /\ used \subseteq Frame /\ pmm_memory_base \in Nat
      /\ pmm_memory_size \in Nat
  BY Zenon DEF IInv, TypeOK
<1>2. IsFiniteSet(used)
  <2>1. IsFiniteSet(0 .. pmm_total_frames - 1)
    BY <1>1, FS_Interval
  <2> QED
    BY <1>1, <2>1, FS_Subset DEF Frame
<1>3. pmm_total_frames = pmm_memory_size \div PAGE_SIZE /\ MapState
  BY DEF IInv, RegionState
<1>4. /\ Len(entries) \in Nat /\ DOMAIN entries = 1 .. Len(entries)
      /\ DOMAIN Mapped = DOMAIN entries
  BY <1>3, LenProperties DEF MapState, Mapped
<1>5. ASSUME NEW k \in 1 .. Len(entries)
      PROVE  Mapped[k] \subseteq 0 .. pmm_total_frames - 1
  <2>1. entries[k] \in Region /\ k \in DOMAIN entries
    BY <1>3, <1>4, EntryTyped
  <2>2. Mapped[k] = EntryFrames(entries[k], pmm_memory_base, pmm_memory_size)
    BY <2>1 DEF Mapped
  <2> QED
    BY <1>1, <1>3, <2>1, <2>2, EntryFramesInRegion
<1>6. /\ Cardinality(MarksOf(Mapped)) \in Nat /\ Cardinality(AllOf(Mapped)) \in Nat
      /\ Cardinality(AllOf(Mapped)) <= Cardinality(MarksOf(Mapped))
  <2> DEFINE m == Mapped
  <2>1. DOMAIN m = 1 .. Len(entries) /\ \A k \in 1 .. Len(entries) : m[k] \subseteq 0 .. pmm_total_frames - 1
    BY <1>4, <1>5
  <2> HIDE DEF m
  <2>2. /\ Cardinality(MarksOf(m)) \in Nat /\ Cardinality(AllOf(m)) \in Nat
        /\ Cardinality(AllOf(m)) <= Cardinality(MarksOf(m))
    BY <1>1, <1>4, <2>1, MarksCounted
  <2> QED
    BY <2>2 DEF m
<1>7. CountedTwice \in Nat
  BY <1>6 DEF CountedTwice
<1> QED
  BY <1>2, <1>7, FS_CardinalityType

(* Sets of bits are added and removed as their numbers are. *)
LEMMA CountOfUnion ==
    ASSUME NEW S, NEW T, IsFiniteSet(S), IsFiniteSet(T)
    PROVE  /\ S \cap T = {} => Cardinality(S \cup T) = Cardinality(S) + Cardinality(T)
           /\ T \subseteq S => /\ Cardinality(S \ T) = Cardinality(S) - Cardinality(T)
                               /\ Cardinality(T) <= Cardinality(S)
<1>1. Cardinality(S) \in Nat /\ Cardinality(T) \in Nat
  BY FS_CardinalityType
<1>2. ASSUME S \cap T = {} PROVE Cardinality(S \cup T) = Cardinality(S) + Cardinality(T)
  <2>1. Cardinality(S \cup T) = Cardinality(S) + Cardinality(T) - Cardinality(S \cap T)
    BY FS_Union
  <2>2. Cardinality(S \cap T) = 0
    BY <1>2, FS_EmptySet
  <2> QED
    BY <1>1, <2>1, <2>2
<1>3. ASSUME T \subseteq S
      PROVE  /\ Cardinality(S \ T) = Cardinality(S) - Cardinality(T)
             /\ Cardinality(T) <= Cardinality(S)
  <2>1. Cardinality(S \ T) = Cardinality(S) - Cardinality(S \cap T)
    BY FS_Difference
  <2>2. S \cap T = T
    BY <1>3
  <2>3. Cardinality(T) <= Cardinality(S)
    BY <1>3, FS_Subset
  <2> QED
    BY <2>1, <2>2, <2>3
<1> QED
  BY <1>2, <1>3

(* A grant adds to the counter the frames it marks. *)
LEMMA FoundIsCounted ==
    ASSUME IInv, UsedIsCounted, Found
    PROVE  UsedIsCounted'
<1>1. PICK first \in Nat : Clear(first, count) /\ Grant(first)
  BY DEF Found
<1> DEFINE run == first .. first + count - 1
<1>2. Ready /\ count # 0 /\ UNCHANGED <<mapVars, region>>
  BY DEF Found
<1>3. run \subseteq Frame \ used /\ used' = used \cup run
  BY <1>1, <1>2, GrantIInv
<1>4. pmm_used_frames' = pmm_used_frames + count /\ Ready'
  BY <1>1 DEF Grant, Return, Ready
<1>5. CountedTwice' = CountedTwice
  BY <1>2, <1>4, RegionStays
<1>6. IsFiniteSet(used) /\ Cardinality(used) \in Nat /\ CountedTwice \in Nat
  BY <1>2, BitsCounted
<1>7. count \in Nat \ {0} /\ pmm_used_frames = Cardinality(used) + CountedTwice
  <2>1. count \in Nat
    BY DEF IInv, TypeOK
  <2> QED
    BY <1>2, <2>1 DEF UsedIsCounted
<1>8. IsFiniteSet(run) /\ Cardinality(run) = count
  <2> DEFINE last == first + count - 1
  <2>1. first \in Int /\ last \in Int /\ ~(first > last) /\ last - first + 1 = count
    BY <1>7
  <2> HIDE DEF last
  <2>2. IsFiniteSet(first .. last) /\ Cardinality(first .. last) = last - first + 1
    BY <2>1, FS_Interval
  <2> QED
    BY <2>1, <2>2 DEF last
<1> HIDE DEF run
<1>9. Cardinality(used \cup run) = Cardinality(used) + count
  <2>1. used \cap run = {}
    BY <1>3
  <2> QED
    BY <1>6, <1>8, <2>1, CountOfUnion
<1>10. Cardinality(used') = Cardinality(used) + count
  BY <1>3, <1>9
<1>11. pmm_used_frames' = Cardinality(used') + CountedTwice'
  <2> DEFINE c == Cardinality(used)
             d == CountedTwice
  <2>1. /\ c \in Nat /\ d \in Nat /\ pmm_used_frames' = (c + d) + count
        /\ Cardinality(used') = c + count /\ CountedTwice' = d
    BY <1>4, <1>5, <1>6, <1>7, <1>10
  <2> HIDE DEF c, d
  <2> QED
    BY <1>7, <2>1
<1> QED
  BY <1>11 DEF UsedIsCounted

(* A release takes from the counter the frames it clears. *)
LEMMA FreeIsCounted ==
    ASSUME IInv, UsedIsCounted, NEW a \in Address, NEW n \in Counts, Free(a, n)
    PROVE  UsedIsCounted'
<1> DEFINE cleared == Releases(a, n)
<1>1. /\ cleared \subseteq Own /\ used' = used \ cleared
      /\ pmm_used_frames' = Decrement(cleared, n)
      /\ Ready /\ Ready' /\ UNCHANGED <<mapVars, region>>
  BY FreeIInv
<1> HIDE DEF cleared
<1>2. CountedTwice' = CountedTwice
  BY <1>1, RegionStays
<1>3. IsFiniteSet(used) /\ Cardinality(used) \in Nat /\ CountedTwice \in Nat
  BY <1>1, BitsCounted
<1>4. cleared \subseteq used
  BY <1>1 DEF Own
<1>5. IsFiniteSet(cleared) /\ Cardinality(cleared) \in Nat
  BY <1>3, <1>4, FS_Subset, FS_CardinalityType
<1>6. /\ Cardinality(used \ cleared) = Cardinality(used) - Cardinality(cleared)
      /\ Cardinality(cleared) <= Cardinality(used)
  BY <1>3, <1>4, <1>5, CountOfUnion
<1> DEFINE c == Cardinality(used)
           d == CountedTwice
           r == Cardinality(cleared)
<1>7. pmm_used_frames = c + d /\ c \in Nat /\ d \in Nat /\ r \in Nat /\ r <= c
  BY <1>1, <1>3, <1>5, <1>6 DEF UsedIsCounted
<1>8. Cardinality(used') = c - r
  BY <1>1, <1>6
<1>9. pmm_used_frames' = Max({0, pmm_used_frames - r})
  BY <1>1 DEF Decrement
<1> HIDE DEF c, d, r
<1>10. pmm_used_frames - r \in Nat
  BY <1>7
<1>11. pmm_used_frames' = pmm_used_frames - r
  BY <1>9, <1>10, ClippedAtZero
<1>12. pmm_used_frames' = Cardinality(used') + CountedTwice'
  <2>1. CountedTwice' = d
    BY <1>2 DEF d
  <2> QED
    BY <1>7, <1>8, <1>11, <2>1
<1> QED
  BY <1>12 DEF UsedIsCounted

(* What pmm_get_stats reports is the number of set bits and what overlapping *)
(* reserved entries counted twice at boot: frees below zero, stale frees and *)
(* refused requests leave no drift.                                          *)
THEOREM CounterMatchesBitmap == Spec => []UsedIsCounted
<1>1. Init => UsedIsCounted
  BY DEF Init, UsedIsCounted, Ready
<1>2. ASSUME IInv, UsedIsCounted, [Next]_vars PROVE UsedIsCounted'
  <2>1. ASSUME UNCHANGED <<mapVars, region, used, pmm_used_frames>>, Ready \/ ~Ready'
        PROVE  UsedIsCounted'
    BY <1>2, <2>1 DEF UsedIsCounted, CountedTwice, Mapped, mapVars, region
  <2>2. CASE Boot
    <3>1. CASE pc' = "boot"
      BY <3>1 DEF UsedIsCounted, Ready
    <3>2. CASE pc' # "boot"
      <4>1. /\ detected /\ pc = "boot" /\ pmm_init(Chosen.base, Chosen.length)
            /\ UNCHANGED mapVars
        BY <1>2, <2>2, <3>2 DEF Boot, memory_detect, DetectBasic, DetectMap, DetectOther,
                                DetectDone, AtTag, IInv, RegionState, Ready
      <4>2. MapState /\ Chosen.base \in Nat \ {0} /\ Chosen.length \in Nat
        BY <1>2, ChosenRegion DEF IInv
      <4>3. pmm_used_frames' = Cardinality(used') + CountedTwice'
        BY <4>1, <4>2, InitManagerMarks
      <4> QED
        BY <4>3 DEF UsedIsCounted
    <3> QED
      BY <3>1, <3>2
  <2>3. CASE FindOne \/ FindRun
    <3>1. Found \/ GoesOn
      BY <1>2, <2>3, FindOneIInv, FindRunIInv
    <3>2. CASE Found
      BY <1>2, <3>2, FoundIsCounted
    <3>3. CASE GoesOn
      BY <2>1, <3>3 DEF GoesOn, Ready
    <3> QED
      BY <3>1, <3>2, <3>3
  <2>4. CASE FindFail
    BY <2>1, <2>4 DEF FindFail, Ready
  <2>5. ASSUME NEW n \in Counts, pmm_alloc_frames(n) PROVE UsedIsCounted'
    BY <2>1, <2>5 DEF pmm_alloc_frames, Ready
  <2>6. ASSUME NEW a \in Address, NEW n \in Counts, Free(a, n) PROVE UsedIsCounted'
    BY <1>2, <2>6, FreeIsCounted
  <2>7. CASE UNCHANGED vars
    BY <2>1, <2>7 DEF vars, Ready
  <2> QED
    BY <1>2, <2>2, <2>3, <2>4, <2>5, <2>6, <2>7 DEF Next, Step
<1> QED
  BY <1>1, <1>2, AlwaysIInv, PTL DEF Spec

-----------------------------------------------------------------------------
(* Callers see the pool of FrameSpec. *)

Pool == {AddrOf(f) : f \in Frame \ used}

(* The pool of the abstract allocator is the pages of clear bits. *)
LEMMA PoolIsPages ==
    ASSUME IInv
    PROVE  /\ Pool = Pages(pmm_memory_base, Frame \ used)
           /\ Frame \ used \in SUBSET Nat /\ pmm_memory_base \in Nat
<1>1. Pool = Pages(pmm_memory_base, Frame \ used)
  BY Zenon DEF Pool, Pages, AddrOf
<1>2. pmm_memory_base \in Nat /\ pmm_total_frames \in Nat
  BY Zenon DEF IInv, TypeOK
<1>3. Frame \subseteq Nat
  BY <1>2 DEF Frame
<1> QED
  BY <1>1, <1>2, <1>3

(* What a caller of pmm_alloc_frames gets, from the frame it starts at. *)
LEMMA RunIsPages ==
    ASSUME IInv, NEW f \in Nat, NEW n \in Nat
    PROVE  /\ Abstract!Run(AddrOf(f), n) = Pages(pmm_memory_base, f .. f + n - 1)
           /\ Abstract!Run(AddrOf(f), n) \subseteq Pool <=> Clear(f, n)
<1>1. /\ Pool = Pages(pmm_memory_base, Frame \ used)
      /\ Frame \ used \in SUBSET Nat /\ pmm_memory_base \in Nat
  BY PoolIsPages
<1>2. Abstract!Run(AddrOf(f), n) = Pages(pmm_memory_base, f .. f + n - 1)
  <2>1. Abstract!Run(AddrOf(f), n)
          = {pmm_memory_base + f * PAGE_SIZE + k * PAGE_SIZE : k \in 0 .. n - 1}
    BY Zenon DEF Abstract!Run, AddrOf
  <2> QED
    BY <1>1, <2>1, PagesOfRun
<1> DEFINE run == f .. f + n - 1
<1>3. run \in SUBSET Int /\ Frame \ used \in SUBSET Int
  BY <1>1
<1>4. run \subseteq Frame \ used <=> Clear(f, n)
  BY Zenon DEF Clear
<1> HIDE DEF run
<1>5. Pages(pmm_memory_base, run) \subseteq Pages(pmm_memory_base, Frame \ used)
        <=> run \subseteq Frame \ used
  <2> DEFINE free == Frame \ used
             base == pmm_memory_base
  <2>1. free \in SUBSET Int /\ base \in Nat /\ run \in SUBSET Int
    BY <1>1, <1>3
  <2> HIDE DEF free, base
  <2>2. Pages(base, run) \subseteq Pages(base, free) <=> run \subseteq free
    BY <2>1, PagesOfUnion
  <2> QED
    BY <2>2 DEF free, base
<1> QED
  BY <1>1, <1>2, <1>4, <1>5 DEF run

(* A search that succeeds is a grant of free consecutive pages. *)
LEMMA FoundRefines ==
    ASSUME IInv, Found
    PROVE  Abstract!Grant(answer')
<1>1. PICK first \in Nat : Clear(first, count) /\ Grant(first)
  BY DEF Found
<1> DEFINE run == first .. first + count - 1
<1>2. Ready /\ count # 0 /\ UNCHANGED <<mapVars, region>> /\ count \in Nat
  BY DEF Found, IInv, TypeOK
<1>3. /\ run \subseteq Frame \ used /\ used' = used \cup run
      /\ held' = held \cup Pages(pmm_memory_base, run)
      /\ pmm_memory_base' = pmm_memory_base /\ Frame' = Frame /\ IInv'
  BY <1>1, <1>2, GrantIInv
<1>4. answer' = AddrOf(first) /\ count' = 0 /\ Ready'
  BY <1>1 DEF Grant, Return, Ready
<1>5. /\ Abstract!Run(answer', count) = Pages(pmm_memory_base, run)
      /\ Abstract!Run(answer', count) \subseteq Pool
  BY <1>1, <1>2, <1>4, RunIsPages
<1>6. answer' # 0
  <2>1. pmm_memory_base \in Nat /\ pmm_memory_base # 0 /\ PAGE_SIZE \in Nat \ {0}
    BY <1>2, PmmAssumption DEF IInv, RegionState, TypeOK
  <2>2. first * PAGE_SIZE \in Nat
    BY <2>1
  <2> QED
    BY <1>4, <2>1, <2>2 DEF AddrOf
<1>7. Pool' = Pool \ Pages(pmm_memory_base, run)
  <2>1. /\ Pool = Pages(pmm_memory_base, Frame \ used)
        /\ Frame \ used \in SUBSET Nat /\ pmm_memory_base \in Nat
    BY PoolIsPages
  <2>2. (Pool = Pages(pmm_memory_base, Frame \ used))'
    BY <1>3 DEF Pool, Pages, AddrOf, IInv, TypeOK
  <2>3. (Frame \ used)' = (Frame \ used) \ run
    BY <1>3
  <2>4. run \in SUBSET Int /\ Frame \ used \in SUBSET Int
    BY <1>3, <2>1
  <2> HIDE DEF run
  <2>5. Pages(pmm_memory_base, (Frame \ used) \ run)
          = Pages(pmm_memory_base, Frame \ used) \ Pages(pmm_memory_base, run)
    <3> DEFINE free == Frame \ used
               base == pmm_memory_base
    <3>1. free \in SUBSET Int /\ base \in Nat
      BY <2>1, <2>4
    <3> HIDE DEF free, base
    <3>2. Pages(base, free \ run) = Pages(base, free) \ Pages(base, run)
      BY <2>4, <3>1, PagesOfUnion
    <3> QED
      BY <3>2 DEF free, base
  <2>6. Pool' = Pages(pmm_memory_base, (Frame \ used)')
    BY <1>3, <2>2
  <2> QED
    BY <2>1, <2>3, <2>5, <2>6
<1> HIDE DEF run
<1> QED
  BY <1>2, <1>3, <1>4, <1>5, <1>6, <1>7 DEF Abstract!Grant, Pool

(* A search that ends without a hit has looked at every run.                 *)
LEMMA FailRefines ==
    ASSUME IInv, FindFail
    PROVE  Abstract!Refuse
<1>1. Searching /\ count' = 0 /\ answer' = 0
      /\ UNCHANGED <<mapVars, region, used, pmm_used_frames, held>> /\ ~InLoop(i)
  BY DEF FindFail, Return, Searching
<1>2. /\ Ready /\ Ready'
  BY DEF FindFail, Ready, Return
<1>3. /\ count \in Nat \ {0}
      /\ \A f \in Frame : f + count <= i => ~Clear(f, count)
  <2>1. \A f \in Frame : f + count <= i => ~Clear(f, count)
    BY <1>1, Zenon DEF Searching, IInv, SearchState, NothingSkipped
  <2>2. count = 1 \/ count > 1
    BY <1>1, Zenon DEF Searching, IInv, SearchState
  <2>3. count \in Nat
    BY Zenon DEF IInv, TypeOK
  <2> QED
    BY <2>1, <2>2, <2>3
<1>4. i = pmm_total_frames /\ pmm_total_frames \in Nat
  <2>1. i \in 0 .. pmm_total_frames /\ pmm_total_frames \in Nat
    BY Zenon DEF IInv, TypeOK
  <2>2. ~(i < pmm_total_frames)
    BY <1>1 DEF InLoop
  <2> QED
    BY <2>1, <2>2
<1>5. ASSUME NEW a \in Pool PROVE ~(Abstract!Run(a, count) \subseteq Pool)
  <2>1. PICK f \in Frame \ used : a = AddrOf(f)
    BY DEF Pool
  <2>2. f \in Nat /\ f \in Frame
    BY <1>4 DEF Frame
  <2>3. ~Clear(f, count)
    <3>1. CASE f + count <= i
      BY <1>3, <2>2, <3>1
    <3>2. CASE ~(f + count <= i)
      <4> DEFINE last == f + count - 1
      <4>1. last \in f .. f + count - 1 /\ ~(last <= pmm_total_frames - 1)
        BY <1>3, <1>4, <2>2, <3>2
      <4>2. last \notin Frame
        BY <1>4, <4>1 DEF Frame
      <4> HIDE DEF last
      <4> QED
        BY <4>1, <4>2, Zenon DEF Clear
    <3> QED
      BY <3>1, <3>2
  <2> QED
    BY <1>3, <2>1, <2>2, <2>3, RunIsPages
<1>6. Pool' = Pool
  BY <1>1 DEF Pool, AddrOf, Frame, region
<1>7. count # 0 /\ UNCHANGED held
  BY <1>1, <1>3
<1> QED
  BY <1>1, <1>2, <1>5, <1>6, <1>7, Zenon DEF Abstract!Refuse, Pool

(* pmm_free_frames returns to the pool what its caller held, or nothing. *)
LEMMA FreeRefines ==
    ASSUME IInv, NEW a \in Address, NEW n \in Counts, Free(a, n)
    PROVE  Abstract!Release(held \ held')
<1> DEFINE cleared == Releases(a, n)
<1>1. /\ cleared \subseteq Own /\ used' = used \ cleared
      /\ held' = held \ Pages(pmm_memory_base, cleared)
      /\ Ready /\ Ready' /\ UNCHANGED <<mapVars, region>>
  BY FreeIInv
<1>2. count = 0 /\ UNCHANGED <<answer, count>>
  BY DEF Free, pmm_free_frames, IInv, SearchState, locals
<1> HIDE DEF cleared
<1>3. /\ pmm_memory_base \in Nat /\ pmm_total_frames \in Nat /\ used \subseteq Frame
      /\ Frame' = Frame /\ pmm_memory_base' = pmm_memory_base
  BY <1>1, RegionStays
<1>4. Frame \in SUBSET Int /\ Own \in SUBSET Int /\ cleared \in SUBSET Int
  <2>1. Frame \in SUBSET Int
    BY DEF Frame
  <2> QED
    BY <1>1, <1>3, <2>1 DEF Own
<1>5. held = Pages(pmm_memory_base, Own)
  BY <1>1 DEF IInv, HeldState
<1>6. Pages(pmm_memory_base, cleared) \subseteq held
  BY <1>1, <1>3, <1>4, <1>5, PagesOfUnion
<1>7. held \ held' = Pages(pmm_memory_base, cleared)
  BY <1>1, <1>6
<1>8. Pool' = Pool \cup Pages(pmm_memory_base, cleared)
  <2>1. (Frame \ used)' = (Frame \ used) \cup cleared
    BY <1>1, <1>3 DEF Own
  <2>2. Pool = Pages(pmm_memory_base, Frame \ used)
    BY PoolIsPages
  <2>3. Pool' = Pages(pmm_memory_base, (Frame \ used)')
    BY <1>3, Zenon DEF Pool, Pages, AddrOf
  <2>4. Frame \ used \in SUBSET Int
    BY <1>4
  <2>5. Pages(pmm_memory_base, (Frame \ used) \cup cleared)
          = Pages(pmm_memory_base, Frame \ used) \cup Pages(pmm_memory_base, cleared)
    <3> DEFINE free == Frame \ used
               base == pmm_memory_base
    <3>1. free \in SUBSET Int /\ base \in Nat
      BY <1>3, <2>4
    <3> HIDE DEF free, base
    <3>2. Pages(base, free \cup cleared) = Pages(base, free) \cup Pages(base, cleared)
      BY <1>4, <3>1, PagesOfUnion
    <3> QED
      BY <3>2 DEF free, base
  <2> QED
    BY <2>1, <2>2, <2>3, <2>5
<1>9. held' = held \ (held \ held') /\ held \ held' \subseteq held
  BY <1>1, <1>7
<1> QED
  BY <1>1, <1>2, <1>7, <1>8, <1>9, Zenon DEF Abstract!Release, Pool

(* Every step is one of the abstract allocator, or leaves its pool alone. *)
LEMMA NextRefines ==
    ASSUME IInv, [Next]_vars
    PROVE  [Abstract!Next]_(Abstract!vars)
<1>1. ASSUME UNCHANGED <<region, used, held, count, answer>>, Ready <=> Ready'
      PROVE  UNCHANGED Abstract!vars
  BY <1>1, Zenon DEF Abstract!vars, Frame, AddrOf, region
<1>2. CASE Boot
  <2>1. CASE memory_detect /\ UNCHANGED <<region, pc, used, pmm_used_frames, locals, answer, held>>
    BY <1>1, <2>1 DEF Ready, locals
  <2>2. CASE pc = "boot" /\ pc' = "idle" /\ UNCHANGED <<mapVars, locals, answer, held>>
    BY <2>2 DEF Abstract!Next, Abstract!Open, Ready, locals
  <2> QED
    BY <1>2, <2>1, <2>2 DEF Boot
<1>3. CASE FindOne \/ FindRun
  <2>1. Found \/ GoesOn
    BY <1>3, FindOneIInv, FindRunIInv
  <2>2. CASE Found
    BY <2>2, FoundRefines DEF Abstract!Next
  <2>3. CASE GoesOn
    BY <1>1, <2>3 DEF GoesOn, Ready
  <2> QED
    BY <2>1, <2>2, <2>3
<1>4. CASE FindFail
  BY <1>4, FailRefines DEF Abstract!Next
<1>5. ASSUME NEW n \in Counts, pmm_alloc_frames(n)
      PROVE  Abstract!Next
  <2>1. /\ pc = "idle" /\ count = 0 /\ UNCHANGED <<mapVars, region, used, held>>
    BY <1>5 DEF pmm_alloc_frames, IInv, SearchState
  <2>2. /\ Ready /\ Ready' /\ Pool' = Pool
    BY <1>5, <2>1 DEF pmm_alloc_frames, Ready, Pool, Frame, AddrOf, region
  <2>3. CASE n = 0
    <3>1. answer' = 0 /\ UNCHANGED <<count, held>>
      BY <1>5, <2>1, <2>3 DEF pmm_alloc_frames, locals
    <3> QED
      BY <2>2, <3>1, Zenon DEF Abstract!Next, Abstract!RefuseZero, Pool
  <2>4. CASE n # 0
    <3>1. count' = n /\ answer' = answer /\ held' = held
      BY <1>5, <2>1, <2>4 DEF pmm_alloc_frames
    <3>2. count' # count /\ count' # 0
      BY <2>1, <2>4, <3>1
    <3>3. Abstract!Ask(count')
      BY <2>1, <2>2, <3>1, <3>2, Zenon DEF Abstract!Ask, Pool
    <3> QED
      BY <3>2, <3>3 DEF Abstract!Next
  <2> QED
    BY <2>3, <2>4
<1>6. ASSUME NEW a \in Address, NEW n \in Counts, Free(a, n)
      PROVE  Abstract!Next
  BY <1>6, FreeRefines DEF Abstract!Next
<1>7. CASE UNCHANGED vars
  BY <1>1, <1>7 DEF vars, Ready, locals
<1> QED
  BY <1>2, <1>3, <1>4, <1>5, <1>6, <1>7 DEF Next, Step

(* The bitmap, its index arithmetic and its loops implement a pool of pages  *)
(* from which whole runs are taken, refused only if there is none.           *)
THEOREM BitmapImplementsPool == Spec => ImplementsFrameSpec
<1>1. Init => Abstract!Init
  <2> SUFFICES ASSUME Init PROVE Abstract!Init
    OBVIOUS
  <2>1. Frame = {}
    BY DEF Init, Frame
  <2> QED
    BY <2>1 DEF Init, Abstract!Init, Ready
<1>2. IInv /\ [Next]_vars => [Abstract!Next]_(Abstract!vars)
  BY NextRefines
<1> QED
  BY <1>1, <1>2, AlwaysIInv, PTL DEF Spec, ImplementsFrameSpec, Abstract!Spec

-----------------------------------------------------------------------------
(* What is marked is not held, in bytes. *)

(* A page that is none of n consecutive pages shares no byte with them.      *)
LEMMA PageApart ==
    ASSUME NEW b \in Nat, NEW f \in Int, NEW first \in Int, NEW n \in Int,
           ~(f \in first .. first + n - 1),
           NEW x \in Int, NEW len \in Int,
           b + first * PAGE_SIZE <= x, x + len <= b + (first + n) * PAGE_SIZE
    PROVE  ~Meets(b + f * PAGE_SIZE, PAGE_SIZE, x, len)
<1>1. PAGE_SIZE \in Nat \ {0}
  BY PmmAssumption
<1> DEFINE p == f * PAGE_SIZE
           q == first * PAGE_SIZE
           r == (first + n) * PAGE_SIZE
<1>2. p \in Int /\ q \in Int /\ r \in Int
  BY <1>1
<1>3. CASE f < first
  <2>1. p + PAGE_SIZE <= q
    BY <1>3, PageArithmetic
  <2> HIDE DEF p, q, r
  <2>2. ~(x < b + p + PAGE_SIZE)
    BY <1>1, <1>2, <2>1 DEF q
  <2> QED
    BY <2>2 DEF Meets, p
<1>4. CASE ~(f < first)
  <2>1. first + n <= f
    BY <1>4
  <2>2. r <= p
    <3>1. CASE first + n = f
      BY <3>1, <1>2
    <3>2. CASE first + n < f
      <4>1. r + PAGE_SIZE <= p
        BY <3>2, PageArithmetic
      <4> HIDE DEF p, q, r
      <4> QED
        BY <1>1, <1>2, <4>1
    <3> QED
      BY <2>1, <3>1, <3>2
  <2> HIDE DEF p, q, r
  <2>3. ~(b + p < x + len)
    BY <1>1, <1>2, <2>2 DEF r
  <2> QED
    BY <2>3 DEF Meets, p
<1> QED
  BY <1>3, <1>4

(* Quotient and remainder of the page a byte lies in. *)
LEMMA InItsPage ==
    ASSUME NEW d \in Nat, NEW n \in Nat \ {0}
    PROVE  /\ d = (d \div n) * n + (d % n) /\ d % n \in 0 .. n - 1 /\ d \div n \in Nat
<1>1. d \div n \in Nat
  BY Quotient
<1>2. d % n \in 0 .. n - 1
  OBVIOUS
<1>3. d = (d \div n) * n + (d % n)
  OBVIOUS
<1> QED
  BY <1>1, <1>2, <1>3

(* A page held is the page of a frame of the region that pmm_init did not    *)
(* mark.                                                                     *)
LEMMA HeldPage ==
    ASSUME IInv, NEW a \in held
    PROVE  /\ Ready
           /\ \E f \in Nat : /\ f < pmm_total_frames /\ f \notin Marked
                             /\ a = pmm_memory_base + f * PAGE_SIZE
<1>1. Ready /\ held = Pages(pmm_memory_base, Own)
  BY DEF IInv, HeldState
<1>2. pmm_total_frames \in Nat /\ used \subseteq Frame
  BY Zenon DEF IInv, TypeOK
<1>3. PICK f \in Own : a = pmm_memory_base + f * PAGE_SIZE
  BY <1>1 DEF Pages
<1>4. f \in Frame /\ f \notin Marked
  BY <1>2 DEF Own
<1>5. f \in Nat /\ f < pmm_total_frames
  BY <1>2, <1>4 DEF Frame
<1> QED
  BY <1>1, <1>3, <1>4, <1>5

(* The bytes pmm_init marks for the kernel and for reserved entries.         *)
KernelAndMapNeverHeld ==
    \A a \in held :
        /\ ~Meets(a, PAGE_SIZE, pmm_memory_base, KERNEL_FRAMES * PAGE_SIZE)
        /\ \A k \in DOMAIN entries :
              ~entries[k].available =>
                 ~Meets(a, PAGE_SIZE, entries[k].base, MarkedBytes(entries[k]))

(* A frame that is not marked meets no reserved entry of the map. *)
LEMMA EntryNotHeld ==
    ASSUME IInv, Ready, NEW k \in DOMAIN entries, ~entries[k].available,
           NEW f \in Nat, f < pmm_total_frames, f \notin Marked
    PROVE  ~Meets(pmm_memory_base + f * PAGE_SIZE, PAGE_SIZE,
                  entries[k].base, MarkedBytes(entries[k]))
<1> DEFINE e == entries[k]
           base == pmm_memory_base
           size == pmm_memory_size
           total == pmm_total_frames
           d == e.base - base
           first == d \div PAGE_SIZE
           skipped == d % PAGE_SIZE
           pages == CeilDiv(e.length, PAGE_SIZE)
           page == base + f * PAGE_SIZE
<1>1. base \in Nat /\ size \in Nat /\ total \in Nat /\ PAGE_SIZE \in Nat \ {0}
  BY PmmAssumption, Zenon DEF IInv, TypeOK
<1>2. total = size \div PAGE_SIZE /\ MapState
  BY DEF IInv, RegionState
<1>3. e \in Region /\ e.base \in Nat /\ e.length \in Nat
  BY <1>2, EntryTyped
<1>4. page \in Nat /\ page >= base
  <2>1. f * PAGE_SIZE \in Nat
    BY <1>1
  <2> QED
    BY <1>1, <2>1
<1>5. f \notin EntryFrames(e, base, size)
  <2>1. EntryFrames(e, base, size) \subseteq Marked
    BY DEF Marked, AllOf, Mapped
  <2> QED
    BY <2>1
<1>6. CASE e.base < base
  <2>1. MarkedBytes(e) = 0
    BY <1>6 DEF MarkedBytes
  <2> HIDE DEF e, base, page
  <2>2. ~Meets(page, PAGE_SIZE, e.base, 0)
    BY <1>1, <1>3, <1>4, <1>6 DEF Meets
  <2> QED
    BY <2>1, <2>2 DEF e, base, page
<1>7. CASE ~(e.base < base)
  <2>0. d \in Nat
    BY <1>1, <1>3, <1>7
  <2>1. MarkedBytes(e) = Min({e.length, pages * PAGE_SIZE - skipped})
    BY <1>7 DEF MarkedBytes
  <2>2. /\ first \in Nat /\ skipped \in 0 .. PAGE_SIZE - 1
        /\ d = first * PAGE_SIZE + skipped
    BY <1>1, <2>0, InItsPage
  <2>3. pages \in Nat
    BY <1>1, <1>3, Ceiling
  <2> DEFINE marked == MarkedBytes(e)
             covered == pages * PAGE_SIZE
             before == first * PAGE_SIZE
  <2>4. covered \in Nat /\ before \in Nat /\ (first + pages) * PAGE_SIZE = before + covered
    BY <1>1, <2>2, <2>3
  <2>5. marked \in Int /\ marked <= covered - skipped
    <3> DEFINE rest == covered - skipped
    <3>1. rest \in Int /\ e.length \in Int
      BY <1>3, <2>2, <2>4
    <3>2. marked = Min({e.length, rest})
      BY <2>1
    <3> HIDE DEF marked, rest, e
    <3>3. marked \in Int /\ marked <= rest
      BY <3>1, <3>2, MinOfTwo
    <3> QED
      BY <3>3 DEF rest
  <2>6. CASE e.base < base + size
    <3>1. EntryFrames(e, base, size) = first .. Min({first + pages, total}) - 1
      <4>1. e.base >= base
        <5> DEFINE x == e.base
        <5>1. x \in Nat /\ ~(x < base)
          BY <1>3, <1>7
        <5> HIDE DEF x, base
        <5>2. x >= base
          BY <1>1, <5>1
        <5> QED
          BY <5>2 DEF x
      <4> HIDE DEF base
      <4> QED
        BY <1>2, <2>6, <4>1, Zenon DEF EntryFrames
    <3>2. Min({first + pages, total}) = IF first + pages <= total THEN first + pages ELSE total
      <4> HIDE DEF first, pages, total
      <4> QED
        BY <1>1, <2>2, <2>3, MinOfTwo
    <3>3. ~(f \in first .. first + pages - 1)
      <4> DEFINE end == Min({first + pages, total})
      <4>1. f < total /\ ~(f \in first .. end - 1)
        BY <1>5, <3>1
      <4> HIDE DEF first, pages, total, end
      <4>2. end = IF first + pages <= total THEN first + pages ELSE total
        BY <3>2 DEF end
      <4> QED
        BY <1>1, <2>2, <2>3, <4>1, <4>2
    <3>4. base + first * PAGE_SIZE <= e.base /\ e.base + marked <= base + (first + pages) * PAGE_SIZE
      <4>1. e.base = base + before + skipped
        <5> DEFINE x == e.base
        <5>1. x \in Nat
          BY <1>3
        <5>2. x - base = before + skipped
          BY <2>2
        <5> HIDE DEF x, base, before, skipped
        <5>3. skipped \in Nat /\ before \in Nat
          BY <2>2, <2>4
        <5> HIDE DEF skipped
        <5>4. x = base + before + skipped
          BY <1>1, <5>1, <5>2, <5>3
        <5> QED
          BY <5>4 DEF x
      <4> HIDE DEF e, base, before, skipped, covered, marked, first, pages
      <4>2. base + before <= e.base /\ e.base + marked <= base + (before + covered)
        BY <1>1, <1>3, <2>2, <2>4, <2>5, <4>1
      <4> QED
        BY <2>4, <4>2 DEF before
    <3> HIDE DEF e, base, first, pages, marked
    <3>5. first \in Int /\ pages \in Int /\ f \in Int /\ e.base \in Int
      BY <1>3, <2>2, <2>3
    <3>6. ~Meets(base + f * PAGE_SIZE, PAGE_SIZE, e.base, marked)
      BY <1>1, <2>5, <3>3, <3>4, <3>5, PageApart, Zenon
    <3> QED
      BY <3>6 DEF e, base, marked
  <2>7. CASE ~(e.base < base + size)
    <3>1. page + PAGE_SIZE <= base + total * PAGE_SIZE
      <4>1. f * PAGE_SIZE + PAGE_SIZE <= total * PAGE_SIZE
        BY <1>1, PageArithmetic
      <4>2. f * PAGE_SIZE \in Nat /\ total * PAGE_SIZE \in Nat
        BY <1>1
      <4> QED
        BY <1>1, <4>1, <4>2
    <3>2. total * PAGE_SIZE <= size
      BY <1>1, <1>2, Quotient
    <3>3. total * PAGE_SIZE \in Nat
      BY <1>1
    <3> DEFINE bytes == total * PAGE_SIZE
               x == e.base
    <3> HIDE DEF page, bytes, x, base, size
    <3>4. page + PAGE_SIZE <= x
      <4>1. x \in Nat /\ base + size <= x /\ bytes \in Nat /\ bytes <= size
            /\ page + PAGE_SIZE <= base + bytes
        BY <1>1, <1>3, <2>7, <3>1, <3>2, <3>3 DEF bytes, x
      <4> QED
        BY <1>1, <1>4, <4>1
    <3>5. ~(x < page + PAGE_SIZE)
      BY <1>1, <1>3, <1>4, <3>4 DEF x
    <3> QED
      BY <3>5 DEF Meets, page, x, base
  <2> QED
    BY <2>6, <2>7
<1> QED
  BY <1>6, <1>7

(* So no caller is given the kernel's frames or reserved memory. *)
LEMMA KernelAndMapKept == IInv => KernelAndMapNeverHeld
<1> SUFFICES ASSUME IInv, NEW a \in held
             PROVE  /\ ~Meets(a, PAGE_SIZE, pmm_memory_base, KERNEL_FRAMES * PAGE_SIZE)
                    /\ \A k \in DOMAIN entries :
                          ~entries[k].available =>
                             ~Meets(a, PAGE_SIZE, entries[k].base, MarkedBytes(entries[k]))
  BY DEF KernelAndMapNeverHeld
<1>1. Ready
  BY HeldPage
<1>2. PICK f \in Nat : /\ f < pmm_total_frames /\ f \notin Marked
                       /\ a = pmm_memory_base + f * PAGE_SIZE
  BY HeldPage
<1>3. \A k \in DOMAIN entries :
         ~entries[k].available =>
            ~Meets(a, PAGE_SIZE, entries[k].base, MarkedBytes(entries[k]))
  BY <1>1, <1>2, EntryNotHeld
<1>4. ~Meets(a, PAGE_SIZE, pmm_memory_base, KERNEL_FRAMES * PAGE_SIZE)
  <2>0. /\ pmm_memory_base \in Nat /\ PAGE_SIZE \in Nat \ {0} /\ KERNEL_FRAMES \in Nat
        /\ pmm_total_frames \in Nat
    BY PmmAssumption, Zenon DEF IInv, TypeOK
  <2>1. f \in Frame
    BY <1>2, <2>0 DEF Frame
  <2>2. ~(f < KERNEL_FRAMES)
    BY <1>2, <2>1 DEF Marked
  <2>3. ~(f \in 0 .. 0 + KERNEL_FRAMES - 1)
    BY <1>2, <2>0, <2>2
  <2> DEFINE bytes == KERNEL_FRAMES * PAGE_SIZE
             base == pmm_memory_base
  <2>4. /\ bytes \in Nat /\ 0 * PAGE_SIZE = 0 /\ 0 + KERNEL_FRAMES = KERNEL_FRAMES
        /\ 0 \in Int
    BY <2>0
  <2>5. base + 0 * PAGE_SIZE <= base /\ base + bytes <= base + (0 + KERNEL_FRAMES) * PAGE_SIZE
    BY <2>0, <2>4
  <2> HIDE DEF base, bytes
  <2>6. ~Meets(base + f * PAGE_SIZE, PAGE_SIZE, base, bytes)
    <3>1. f \in Int /\ KERNEL_FRAMES \in Int /\ base \in Nat /\ base \in Int /\ bytes \in Int
      BY <2>0, <2>4 DEF base
    <3> QED
      BY <2>3, <2>4, <2>5, <3>1, PageApart, Zenon
  <2> QED
    BY <1>2, <2>6 DEF base, bytes
<1> QED
  BY <1>3, <1>4

(* The frames of the kernel and the bytes pmm_init marks of the firmware's   *)
(* reserved entries are never handed to a caller of pmm_alloc_frames,        *)
(* wherever the entries begin and whatever stale addresses are freed.        *)
THEOREM KernelAndMapStayReserved == Spec => []KernelAndMapNeverHeld
BY KernelAndMapKept, AlwaysIInv, PTL

(* pmm_init marks as many pages as the bitmap's bytes fill, from the one it  *)
(* starts in: they hold all of it if it starts at a page of the region, or   *)
(* if it is not in the region at all.                                        *)
BitmapOnPages ==
    \/ /\ pmm_bitmap >= pmm_memory_base
       /\ (pmm_bitmap - pmm_memory_base) % PAGE_SIZE = 0
    \/ pmm_bitmap + BitmapBytes(pmm_total_frames) <= pmm_memory_base
    \/ pmm_bitmap >= pmm_memory_base + pmm_memory_size

(* Nor does it meet the bitmap, when this starts at a page. *)
LEMMA BitmapNotHeld ==
    ASSUME IInv, Ready, BitmapOnPages,
           NEW f \in Nat, f < pmm_total_frames, f \notin Marked
    PROVE  ~Meets(pmm_memory_base + f * PAGE_SIZE, PAGE_SIZE,
                  pmm_bitmap, BitmapBytes(pmm_total_frames))
<1> DEFINE base == pmm_memory_base
           size == pmm_memory_size
           total == pmm_total_frames
           bitmap == pmm_bitmap
           bytes == BitmapBytes(total)
           d == bitmap - base
           first == d \div PAGE_SIZE
           pages == CeilDiv(bytes, PAGE_SIZE)
           page == base + f * PAGE_SIZE
<1>1. /\ base \in Nat /\ size \in Nat /\ total \in Nat /\ bitmap \in Nat
      /\ PAGE_SIZE \in Nat \ {0}
  BY PmmAssumption, Zenon DEF IInv, TypeOK
<1>2. total = size \div PAGE_SIZE
  BY DEF IInv, RegionState
<1>3. bytes \in Nat
  BY <1>1, BitmapFramesInRegion
<1>4. page \in Nat /\ page >= base
  <2>1. f * PAGE_SIZE \in Nat
    BY <1>1
  <2> QED
    BY <1>1, <2>1
<1>5. CASE bitmap >= base /\ d % PAGE_SIZE = 0
  <2>1. d \in Nat
    BY <1>1, <1>5
  <2>2. first \in Nat /\ d = first * PAGE_SIZE + (d % PAGE_SIZE)
    BY <1>1, <2>1, InItsPage
  <2>3. pages \in Nat /\ bytes <= pages * PAGE_SIZE
    <3> HIDE DEF bytes
    <3> QED
      BY <1>1, <1>3, Ceiling
  <2>4. f \notin BitmapFrames(bitmap, base, total)
    BY DEF Marked, BitmapFramesNow
  <2>5. BitmapFrames(bitmap, base, total) = {g \in first .. first + pages - 1 : g < total}
    BY <1>1, <1>5 DEF BitmapFrames
  <2>6. ~(f \in first .. first + pages - 1)
    <3> HIDE DEF first, pages, bitmap, base
    <3> QED
      BY <2>4, <2>5 DEF total
  <2> DEFINE before == first * PAGE_SIZE
             covered == pages * PAGE_SIZE
  <2>7. before \in Nat /\ covered \in Nat /\ (first + pages) * PAGE_SIZE = before + covered
    <3> HIDE DEF first, pages
    <3> QED
      BY <1>1, <2>2, <2>3
  <2>8. bitmap - base = before
    <3>1. d = before + (d % PAGE_SIZE)
      BY <2>2
    <3>2. d = before + 0
      BY <1>5, <3>1
    <3> HIDE DEF before
    <3> QED
      BY <2>7, <3>2
  <2>9. base + before <= bitmap /\ bitmap + bytes <= base + (before + covered)
    <3> HIDE DEF before, covered, bytes, base, bitmap, first, pages
    <3>1. bytes <= covered
      BY <2>3 DEF covered
    <3> QED
      BY <1>1, <1>3, <2>7, <2>8, <3>1
  <2>10. base + first * PAGE_SIZE <= bitmap /\ bitmap + bytes <= base + (first + pages) * PAGE_SIZE
    BY <2>7, <2>9
  <2> HIDE DEF base, bitmap, bytes, first, pages
  <2>11. ~Meets(base + f * PAGE_SIZE, PAGE_SIZE, bitmap, bytes)
    <3>1. /\ f \in Int /\ first \in Int /\ pages \in Int
          /\ bitmap \in Int /\ bytes \in Int
      BY <1>1, <1>3, <2>2, <2>3
    <3> QED
      BY <1>1, <2>6, <2>10, <3>1, PageApart, Zenon
  <2> QED
    BY <2>11 DEF base, bitmap, bytes, total
<1>6. CASE bitmap + bytes <= base
  <2> HIDE DEF base, bitmap, bytes, page
  <2>1. ~(page < bitmap + bytes)
    BY <1>1, <1>3, <1>4, <1>6
  <2> QED
    BY <2>1 DEF Meets, page, base, bitmap, bytes, total
<1>7. CASE bitmap >= base + size
  <2>1. f * PAGE_SIZE + PAGE_SIZE <= total * PAGE_SIZE
    BY <1>1, PageArithmetic
  <2>2. total * PAGE_SIZE <= size
    BY <1>1, <1>2, Quotient
  <2> DEFINE p == f * PAGE_SIZE
             t == total * PAGE_SIZE
  <2>3. p \in Nat /\ t \in Nat
    BY <1>1
  <2> HIDE DEF base, bitmap, p, t, size
  <2>4. ~(bitmap < base + p + PAGE_SIZE)
    BY <1>1, <1>7, <2>1, <2>2, <2>3 DEF p, t
  <2> QED
    BY <2>4 DEF Meets, base, bitmap, p
<1> QED
  BY <1>5, <1>6, <1>7 DEF BitmapOnPages

(* Nor is the bitmap itself, where it starts at a page of the region (as it  *)
(* does one page into an entry that starts at one) or lies outside.          *)
THEOREM ReservedStaysReserved == Spec => [](BitmapOnPages => ReservedNeverHeld)
<1>1. ASSUME IInv, BitmapOnPages, NEW a \in held
      PROVE  ~Meets(a, PAGE_SIZE, pmm_bitmap, BitmapBytes(pmm_total_frames))
  <2>1. Ready
    BY <1>1, HeldPage
  <2>2. PICK f \in Nat : /\ f < pmm_total_frames /\ f \notin Marked
                         /\ a = pmm_memory_base + f * PAGE_SIZE
    BY <1>1, HeldPage
  <2> QED
    BY <1>1, <2>1, <2>2, BitmapNotHeld
<1>2. IInv => (BitmapOnPages => ReservedNeverHeld)
  BY <1>1, KernelAndMapKept DEF ReservedNeverHeld, KernelAndMapNeverHeld
<1> QED
  BY <1>2, AlwaysIInv, PTL
=============================================================================
