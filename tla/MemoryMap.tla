------------------------------ MODULE MemoryMap ------------------------------
(***************************************************************************)
(* Boot-time memory detection: memory_detect of memory.c walks the tags of *)
(* the Multiboot2 information and fills memory_info; kernel_main takes the *)
(* largest available region of it, or a fixed one, for the frame allocator.*)
(*                                                                         *)
(* A tag is [type |-> "basic", lower, upper] (kilobytes), [type |-> "mmap",*)
(* regions |-> a sequence of [base, length, available]], or another type;  *)
(* an empty sequence of tags stands for a missing information structure.   *)
(***************************************************************************)
EXTENDS Integers, Sequences, FiniteSets, FiniteSetsExt

CONSTANTS
    Firmware,          \* the tag sequences a boot loader may pass
    MEMORY_MAP_SIZE,   \* entries memory_info can hold (256)
    KB,                \* bytes per unit of the basic tag (1024)
    UINT32,            \* 2^32: the product with KB wraps there
    FALLBACK_BASE,     \* 0x100000
    FALLBACK_SIZE,     \* 64 MB
    MIN_SIZE           \* 2 MB: a smaller region is not used

Region == [base : Nat, length : Nat, available : BOOLEAN]
Tag ==
    [type : {"basic"}, lower : Nat, upper : Nat]
    \cup [type : {"mmap"}, regions : Seq(Region)]
    \cup [type : {"other", "end"}]

ASSUME MemoryMapAssumption ==
    /\ Firmware \subseteq Seq(Tag)
    /\ MEMORY_MAP_SIZE \in Nat /\ KB \in Nat /\ UINT32 \in Nat \ {0}
    /\ FALLBACK_BASE \in Nat \ {0} /\ FALLBACK_SIZE \in Nat /\ MIN_SIZE \in Nat

VARIABLES
    tags,              \* the information structure; never written
    tag,               \* memory_detect's cursor
    entries,           \* memory_info.entries[0 .. count - 1]
    total_memory, available_memory,
    detected           \* memory_detect has returned

mapVars == <<tags, tag, entries, total_memory, available_memory, detected>>

MapInit ==
    /\ tags \in Firmware /\ tag = 1
    /\ entries = <<>> /\ total_memory = 0 /\ available_memory = 0
    /\ detected = FALSE

(* The loop stops at the END tag or where total_size bytes are used up. *)
AtTag(type) ==
    ~detected /\ tag \in DOMAIN tags /\ tags[tag].type = type

NextTag == tag' = tag + 1 /\ UNCHANGED <<tags, detected>>

(* mem_lower and mem_upper are uint32_t, and so is their product with 1024. *)
InBytes(kilobytes) == (kilobytes * KB) % UINT32

DetectBasic ==
    /\ AtTag("basic")
    /\ total_memory' = InBytes(tags[tag].lower) + InBytes(tags[tag].upper)
    /\ available_memory' = total_memory'
    /\ NextTag /\ UNCHANGED entries

(* Regions beyond MEMORY_MAP_SIZE are dropped (the mutant: `count <= ...`). *)
Stored_OneTooMany(regions) ==
    SubSeq(regions, 1, Min({Len(regions), MEMORY_MAP_SIZE + 1 - Len(entries)}))
Stored(regions) ==
    SubSeq(regions, 1, Min({Len(regions), MEMORY_MAP_SIZE - Len(entries)}))

LengthOf(regions, which) == MapThenSumSet(LAMBDA i : regions[i].length, which)

DetectMap ==
    LET stored == Stored(tags[tag].regions)
        usable == {i \in DOMAIN stored : stored[i].available}
    IN  /\ AtTag("mmap")
        /\ entries' = entries \o stored
        /\ total_memory' = total_memory + LengthOf(stored, DOMAIN stored)
        /\ available_memory' = available_memory + LengthOf(stored, usable)
        /\ NextTag

DetectOther ==
    /\ AtTag("other")
    /\ NextTag /\ UNCHANGED <<entries, total_memory, available_memory>>

DetectDone ==
    /\ ~detected /\ (tag \in DOMAIN tags => tags[tag].type = "end")
    /\ detected' = TRUE
    /\ UNCHANGED <<tags, tag, entries, total_memory, available_memory>>

memory_detect == DetectBasic \/ DetectMap \/ DetectOther \/ DetectDone

-----------------------------------------------------------------------------
(* kernel_main's choice: the first of the longest available regions, unless *)
(* there is none, it starts at 0 or it is too small.                        *)
Available == {i \in DOMAIN entries : entries[i].available}

(* Mutant: the type of the entry is not looked at. *)
Candidates_AnyType == {i \in DOMAIN entries : entries[i].length > 0}
Candidates == {i \in Available : entries[i].length > 0}

find_available_memory_region ==
    IF Candidates = {} THEN [base |-> 0, length |-> 0]
    ELSE LET longest == Max({entries[i].length : i \in Candidates})
             first == Min({i \in Candidates : entries[i].length = longest})
         IN  [base |-> entries[first].base, length |-> longest]

UseFallback ==
    LET region == find_available_memory_region IN
    region.base = 0 \/ region.length < MIN_SIZE

Chosen ==
    IF UseFallback THEN [base |-> FALLBACK_BASE, length |-> FALLBACK_SIZE]
    ELSE find_available_memory_region
=============================================================================
