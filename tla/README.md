# AlvOS-x64 in TLA+

AlvOS is a small 64-bit kernel: it is loaded by GRUB through Multiboot2, sets up
paging, interrupts, a physical frame allocator and a kernel heap, and runs a
shell on the VGA text console. One thread runs (`kernel_main`, then the shell);
the only concurrency is between that thread and the interrupt handlers. This
directory holds TLA+ modules for its parts, TLC configurations that check them
on small instances, and TLAPS proofs of their safety properties and refinements for
every value of the constants.

Paths are relative to `src/`. `PROJECT.json` gives the source lines of every
definition, and for every property a mutation of the code that it catches.

## 1. Inventory

| Part | Source | State | Operations | Hard behaviour | What makes it correct |
|---|---|---|---|---|---|
| Kernel heap | `kmalloc.c`, `kmalloc.h` | doubly linked block list in the heap itself, `heap_head`, `heap_initialized`, three counters | `heap_init`, `kmalloc`, `kmalloc_aligned`, `kcalloc`, `krealloc`, `kfree`, `heap_get_stats`, `heap_validate` | splits and merges rewrite fields of three headers; stale and double frees; sizes that wrap or are truncated; failure half-way through `krealloc` | blocks tile the heap, no two free neighbours, callers' bytes are disjoint and theirs, every call returns |
| Memory detection | `memory.c` (`memory_detect`), `kernel.c` (`find_available_memory_region`, `kernel_main`) | `memory_info` | read the Multiboot2 tags; choose a region or the fallback | maps longer than the array, no usable region, wrap-around in 32 bits | the chosen region is RAM or the documented fallback |
| Frame allocator | `memory.c` (`pmm_*`) | bitmap, counters, region | `pmm_init`, `pmm_alloc_frame(s)`, `pmm_free_frame(s)` | run search with restarts, bitmap inside or outside its own region, frees of free frames | reserved frames are never granted, bitmap = held + reserved, counter = set bits, first fit is found |
| Keyboard | `keyboard.c` | modifier flags, ring buffer, two positions | interrupt handler; `keyboard_getchar`, `_nonblock`, `keyboard_buffer_count`, `keyboard_clear_buffer` | handler between any two accesses of the thread; a key between the test and `hlt` | characters arrive in order, once; a sleeping reader wakes |
| Interrupts | `idt.asm`, `isr.c`, `interrupts.asm` | IDT, 8259 registers, interrupt flag | `idt_install`, `isr_install`, `pic_remap`, masks, `irq_handler`, `isr_handler` | interrupts while half set up; spurious ones; EOIs to two controllers | each line interrupt ends in `irq_handler`, EOIs balance, boot completes |
| Timer | `timer.c` | `timer_ticks`, `timer_frequency` | `timer_install`, `timer_handler`, `timer_wait` | the tick between the test and `hlt` | `timer_wait` returns |
| Panic | `panic.c` | none | `kernel_panic`, failed assertions | an interrupt after the stop | the machine stays stopped |
| Boot code | `boot.asm` | page tables, stack | page tables, paging, long mode, call of `kernel_main` | stack and tables are neighbours | the identity map stays what was built |
| Boot order, main program | `kernel.c` | none of its own | calls the initialisers, asks for the test suite, runs it or the shell | keys struck at any point of it, interrupts on while half set up | a key reaches the reader that waits for it; only the PIC's remapping may lose one |
| Console | `terminal.c` | cursor, 80x25 cells | put, scroll, clear, backspace | wrap and scroll at the last cell | screen is blank ahead of the cursor |
| Shell | `shell.c` | line, history, `argv` | read a line, parse it, dispatch a command, suggest similar ones | parsing in place, full buffers and history | parsing ends, arguments are the words of the line, the command named runs, history is the last lines |
| libc strings | `string.c` | none | copies, comparisons | where a comparison ends | `strcmp` is 0 for equal texts only, `strncmp` for prefixes |
| Tests | `test_suite.c`, `memory_tests.c`, `exception_test.c` | counters | call the above in fixed orders; read answers from the keyboard, raise exceptions on request | none of their own | none of their own |
| Virtual memory manager | `vmm.c`, `vmm.h` | empty files | none | none | none |

Interactions. Interrupts reach `irq_handler`, which calls `timer_handler` or
`keyboard_handler`; these share `timer_ticks` and the ring with the thread
through volatile variables, without locks. The shell reads the keyboard and
writes the console. `kernel_main` passes the region it chose in `memory_info` to
`pmm_init`. Neither allocator is called from a handler, so their calls run one
at a time, but the frame allocator's region and the heap's fixed addresses are
meant to be disjoint. Nothing is persisted: a restart is a new power-on.

The hazards, each at its line and with the properties aimed at it, are listed in
`PROJECT.json`; those without a property say why.

## 2. Modules

`HeapSpec` - what `kmalloc.h` promises: live allocations are disjoint intervals,
arrive zeroed, change only by their owner's hand; a resize keeps the common
prefix.

`Kmalloc` - the heap. A block header is its fields, stored at an address;
`magic` is the set of addresses where `HEAP_MAGIC` stands, so that wiping a
payload or merging a block really destroys a header. Each loop iteration of
`find_free_block` and `coalesce_blocks`, and the copy of `krealloc`, is a step
(`FindNext`, `FindHit`, `FindFail`, `AbsorbNext`, `CoalescePrev`, `FreeDone`,
`CopyAndFree`); `pc`, `current`, `want`, `request`, `old` are the locals of the
call in progress. `align_up` keeps its widths (`SIZE_MOD` is 2^64, `MASK_MOD`
2^32). `live`, `req`, `mem` are what callers see. `kfree` is called with every
address of the heap, so stale, double and wild frees are included; `krealloc`
with a live pointer, NULL or one without a header, because it tests no
`is_free` and no caller passes it a freed one. When `align_up` has truncated a
size, the block granted is smaller than what `krealloc` copies into it
(`kmalloc.c:253`, the old block's size) or what its caller stores (`CallerWrite`):
every header such a run of bytes reaches loses its magic word, its other fields read
as anything in `Garbage`, and the call ends in `pc = "corrupt"`. There the model
stops: the kernel would go on with links and sizes read out of overwritten memory.
Bytes stored past the end of the heap are outside the model.

`KmallocProofs`, `KmallocRefinement`, `PmmProofs`, `KeyboardProofs`,
`InterruptsProofs`, `SystemProofs`, `ShellProofs`, and `Extrema` (the facts about
least and greatest elements they share) - section 5.

`MemoryMap` - `memory_detect`, one action per tag, and the choice of a region.
`Pmm` extends it with the frame allocator: the bitmap is the set of indices
whose bit is set (the word arithmetic of `pmm_set_frame` and `pmm_test_frame` is
abstracted to membership), the two search loops are steps. `FrameSpec` is its
callers' view: a pool of pages, a request that is refused only if the pool has
no run long enough.

`Keyboard` - the handler is one step (it runs behind an interrupt gate); the
thread's functions are split at each access to the volatile positions, in the
order of the compiled code. One key of each kind stands for the scancode table.
`KeyQueueSpec` is what readers are promised: a FIFO that drops a character only
when full or being emptied.

`Interrupts` - power-on to shell: `kernel_main`'s steps, the gates, the two
8259 controllers with their priorities, masks and in-service bits, spurious
interrupts, the handler's dispatch, EOIs and `iretq`, `timer_wait` and what stops
the machine. Controllers, processor and boot loader are external and marked so.
`timer_ticks` appears as the distance to `timer_wait`'s target, which makes the
state finite without a bound. `keyboard_handler` is only an EOI here; what it
does is in `Keyboard`.

`System` - the composed machine. It instantiates `Interrupts` and `Keyboard` on
their own variables (the reader's `pc` becomes `reader_pc`) and adds two: `output`,
the byte in the keyboard controller, and `program`, where `kernel_main` is once
the drivers are installed (the question, the test suite, the shell's loop). A key
(`Strike`) puts its byte in the controller and raises line 1 in the same step; a
second one cannot come before `inb(0x60)` has taken the first. `irq_handler`
joins the dispatch of `Interrupts` with `keyboard_handler` for vector 33, and with
the end of the reader's `hlt` for every other. The thread is in one function at a
time: a reader, `timer_wait`, or the program between them. The order of the test
suite's calls is left open, which includes the one in `run_test_suite`.

`Terminal`, `Shell` - cursor and cells; line editor, history, parser and the
commands by their effect. The texts the commands print are shortened to a
character or two, since only wrapping, scrolling and erasing depend on them.
Command names are bound by the constant `Commands`, a table in the order of
`shell_commands`, to the short texts the run can type. `Strings` has `strlen`,
`strcmp` and `strncmp`, by which commands are found, helped with and suggested.

`Boot` - page tables and stack as dwords of `.bss`, from `start` to the calls
`kernel_main` makes.

Composition: `Pmm` extends `MemoryMap`, `Shell` extends `Terminal` and `Strings`,
`System` instantiates `Interrupts` and `Keyboard`; the abstract specifications
are instantiated in `Kmalloc`, `Pmm` and `Keyboard`. `System` is also a
refinement of its parts: `ImplementsParts` shows that it is a behaviour of
`Interrupts!Spec` and of `Keyboard!FairSpec`, so that what the runs `interrupts`
and `keyboard` show of each part alone (with larger instances) carries over.

## 3. Runs

| Run | Question | Outcome |
|---|---|---|
| `kmalloc` | Does every order of heap calls keep the list sound, serve callers as `HeapSpec`, and return? | holds |
| `kmalloc_alignment` | Are the pointers aligned, as `kmalloc.h:12` says? | violated |
| `kmalloc_truncation` | Is the size searched for at least the size asked for (`kmalloc.c:18`)? | violated |
| `pmm` | From every kind of firmware map, overlapping and unaligned entries included: bitmap, counter and callers agree, searches miss nothing, `FrameSpec` is implemented? | holds |
| `pmm_heap` | Do the frames exclude the heap (`kmalloc.h:10`, `ARCHITECTURE.md:149`)? | violated |
| `keyboard` | With interrupts between any two accesses: is what is read what was typed, is the count current, does a reader wake? | holds |
| `keyboard_shift` | Is Shift's state that of the two keys (`ARCHITECTURE.md:387`)? | violated |
| `interrupts` | With interrupts at every point of boot and run: no missing gate, balanced EOIs, restored masks, boot and waits finish, a stop is final? | holds |
| `system` | From power-on to the shell, with keys struck at any moment: does each keyboard interrupt find its byte, is no byte stranded but by `pic_remap`, does a waiting reader get the key, do the parts get the environment they assume? | holds |
| `shell` | For every sequence of keys: line, history, arguments, the command chosen and screen are right, and parsing ends? | holds |
| `shell_wrap` | Does the screen show the line while backspace is used (`FASE1.md:140`)? | violated |
| `boot_stack` | Does the identity map stay as built (`boot.asm:78`)? | violated |

The six violations are disagreements of the code with its own comments and
documents; `findings` in `PROJECT.json` quotes both sides. In short: sizes are
aligned but addresses are not; `align_up` masks a 64-bit size with a 32-bit
complement; the frame allocator never reserves the heap's frames; both Shift
keys share one flag; backspace cannot cross a screen row; `stack_top` labels the
low end of the stack area, so that the stack overwrites the last entries of
the page directory (which map memory near 1 GiB, unused so far).

One more divergence of document and code has no run of its own.
`ARCHITECTURE.md:367-369` shows as the current masks 0xFC and 0xFF, "solo Timer y
Keyboard habilitados". The code does not set them: `pic_remap` (`isr.c:102`) writes
back the masks the firmware left and the two drivers clear their own bits, so
every line the firmware had open (the cascade, a disk) stays open. `MasksKept` states what the code does; two of the
three firmware masks of the run `interrupts` lead to other masks than the document's.

### Bounds, and why they are enough

- Heap: 20 bytes, headers of 3, alignment 2, smallest rest 2. Header size and
  alignment are coprime as 29 and 16 are, so payloads fall on every residue. Up
  to four blocks fit; splitting, refusing to split, merging in both directions and
  exhaustion all happen. Sizes wrap at 256 and the mask at 64, and the `kcalloc`
  pairs include one whose product wraps. `VALIDATE_LIMIT` = 3 stands for the 10000
  blocks after which `heap_validate` stops looking, below the four that fit, so that
  its walk also ends early. No size of the run `kmalloc` is truncated, so no
  header is overwritten there, and `kmalloc_truncation` ends at the truncation itself. With
  `HeapTiling` as its invariant and 4 among its requests, TLC goes on to find a header
  overwritten, by a caller's store or by the copy of `krealloc`, in at most eight
  states. `Garbage` has two values: links NULL, or pointing back at the first block.
  `MaxAllocations` = 4 and `MaxFailed` = 1
  bound the counters: a new call starts only below them, so a run ends in states
  where only frees remain; enough to fill the heap, free in any order and fill it
  again in part. Runs for the two heap findings use the real header size (29) and
  alignment (16), or a request above `MASK_MOD`.
- Frames: a page is 2 bytes, a megabyte 4, a bitmap word 4 frames; regions have
  up to 12 frames. `MCPmm` has seven firmware maps: usual, high region (bitmap outside),
  none (fallback), too small with reserved entries (bitmap above the kernel's
  frames), one from address 0 with tags after END, one with a hole and more
  entries than fit, and one whose reserved entries overlap, begin below the region and
  begin inside a page. `pmm_init` adds an overlap to `pmm_used_frames` twice:
  `UsedIsCounted` states the exact excess (`CountedTwice`). It marks as many frames as
  an entry's length rounded up, from the frame the entry starts in: the end of an
  entry that starts inside a page may stay unmarked, and `ReservedNeverHeld`
  is about the marked bytes.
- Keyboard: a ring of 4 slots instead of 256, with `UINT8` scaled alike; it fills, and
  wraps around arbitrarily often: nothing else is bounded.
- Interrupts: timer, keyboard, one master line and one slave line, the last two
  also spurious; three firmware masks (everything, usual, cascade closed); delays
  of 0, 2 and 3 ticks (5, 20 and 30 ms at 100 Hz; `timer_wait` rounds down).
  `UINT32` is only scaled because TLC's integers have 32 bits; the products stay
  below it.
- System: the two lines that have drivers, a ring of two slots (so one character), two
  keys' make codes, one delay, one fault, a firmware that left all lines masked. Keys
  that make no character, releases and other masks are in the runs of the parts;
  what the composition adds happens with these: keys struck before and after
  `pic_remap`, while masked, while the ring is full, between test and `hlt`.
- Shell: seven commands, among them names that begin others; screen of 5x4, lines of up to 5 characters, history of 2, two arguments, and
  every sequence of at most `MaxKeys` = 8 keys: room to fill the buffer, wrap twice,
  scroll, enter three commands.
- Boot: tables of 4 entries, frames of one and three qwords.

The constants of the code are recorded beside each CONSTANT declaration.

### Deadlock

Deadlock is checked except in `interrupts`, `system`, `shell`, `shell_wrap` and `boot_stack`: a
halted machine, the key bound and the depth bound stop these on purpose.

## 4. Fairness

- `Kmalloc`, `Pmm`, `Keyboard`: weak fairness of the steps of a call under way. The
  processor executes the thread; nobody is obliged to start a call.
- `Keyboard`: also weak fairness of `Tick`. The timer is unmasked before the keyboard
  (`kernel.c` installs it first) and its PIT fires for ever, so a halted thread
  is woken. Nothing is assumed of keys.
- `Interrupts`: weak fairness of the handler's steps, of accepting what stands at
  the processor's pin, and of line 0 rising. Boot and waiting have strong
  fairness, since each interrupt disables the thread for a moment: handlers are
  microseconds long and ticks 10 ms apart, so the thread always gets its turn.
- `System`: as in `Interrupts`, and strong fairness of the reader's steps for the
  same reason. For the keyboard's interrupt also strong fairness of its acceptance
  and `[]<>Quiet`: again and again no handler runs and no tick is pending. Without it the tick, whose priority
  is higher, could be pending whenever a handler ends, for ever; handlers take microseconds
  of the 10 ms between ticks. Nothing is assumed of keys. The fairness that `Keyboard` assumes
  alone (a reader that goes on, a tick that ends its `hlt`) is not assumed here
  but shown, by `ImplementsParts`.
- `Shell`: weak fairness of the parser's steps. Nobody is obliged to type.

## 5. What is proved

Every invariant, every action property and every refinement of safety that a passing
run checks is also a theorem, for every value of the constants that satisfies the
assumptions named below (the heap's theorems and one of the frame allocator's
have a condition, explained there). Each component
has a proof module of its own. The pattern is always the same: an inductive
invariant that implies the property, one lemma per action (or group of actions) for
the part of it the action can disturb, and a temporal step at the end.

### The heap: `KmallocProofs`, `KmallocRefinement`

| Theorem | Statement |
|---|---|
| `TypeCorrect` | `NoTruncation => (Spec => []TypeOK)` |
| `HeapStaysTiled` | `NoTruncation => (Spec => []HeapTiling)` |
| `FreeBlocksMerged` | `NoTruncation => (Spec => []NoAdjacentFree)` |
| `SearchIsComplete` | `NoTruncation => (Spec => []NothingSkipped)` |
| `NothingLeaks` | `NoTruncation => (Spec => []LiveIsUsed)` |
| `StaleFreeHarmless` | `NoTruncation => (Spec => StaleFreeIgnored)` |
| `StatisticsBalance` | `NoTruncation => (Spec => []StatsBalance)` |
| `GrantsCoverRequests` | `NoTruncation => (Spec => []GrantedEnough)` |
| `HeapImplementsSpec` | `NoTruncation => (Spec => ImplementsHeapSpec)` |

Assumed: `HeapAssumption` (positive sizes, a heap larger than one header).

`NoTruncation` says that every size asked for, rounded up, stays below 2^32, where
`align_up` starts to cut. All nine theorems need it. A truncated size makes
a block smaller than its caller was promised, and the bytes that are then copied or
stored run over the headers behind it: the tiling, the links, the search and the
statistics are gone with them. The sizes of the run `kmalloc` satisfy it (the largest, 40, and
an alignment of 4 against a mask of 64), those of `kmalloc_truncation` do not. Nothing is
assumed of `Garbage` or of `VALIDATE_LIMIT` beyond their types: the proofs use neither.

`HeapTiling` says that headers are consecutive and that each link
names a neighbour. It is not inductive alone: a step must know that the local it works
with still is a header. `Layout` = `TypeOK`, `HeapTiling` and `CallState` (what a
call in progress knows). The hard steps are `FindHit`, which splits a block and
must show that no header stood in the payload it clears (`NothingInside`,
`SplitTiling`), and `AbsorbNext`, which removes the middle one of three headers.
The others leave the list alone (`SameShape`), provided that `CopyAndFree` and
`CallerWrite` overwrite no header. `IInv` adds to `Layout`
the one-to-one correspondence of used blocks and pointers, the merged free blocks
and the completeness of the search. Two free neighbours
can exist only where `coalesce_blocks` stands; the proof follows it backwards
along `prev`.

`Grants` is what keeps the stores inside: a caller's block is at least as large
as what it asked for, the search looks for no less, and `krealloc` moves only to a block
larger than the old one. The bytes stored lie in one payload, and headers
of a tiled heap lie outside every payload (`PayloadReachesNothing`,
`CopyReachesNothing`, `WriteReachesNothing`). The inductive invariant is `HeapInv` =
`IInv` and `Grants` together: each needs the other for its step (`NextIInv`,
`NextHeapInv`), and only `Grants` needs `NoTruncation`, where a search begins
(`AlignUpCovers`, `CallocProduct`).

`StatsBalance` is about the walks of `heap_get_stats` and `heap_validate`. The blocks
below a header fill the heap up to it (`BlocksBelow`), so all of them fill it. After
`n` steps a walk has met every block before the one it stands at, and stands at
least `n` headers behind the start (`WalkAdvances`), so it has met them all and is over
after `HEAP_SIZE \div HDR` steps. `UsedCounted`, inductive together with `HeapInv`,
ties the used blocks to the two counters.

With `HeapInv` each step of the heap is a step of `HeapSpec` or a stutter: split and
search steps touch no byte of a live allocation because owned bytes lie inside blocks
and blocks are disjoint.

### Memory detection and frames: `PmmProofs`

| Theorem | Statement |
|---|---|
| `FramesTyped` | `Spec => []TypeOK` |
| `OnlyRAMIsManaged` | `Spec => []ManagedIsRAM` |
| `SearchIsFirstFit` | `Spec => []NothingSkipped` |
| `BitmapStaysExact` | `Spec => []BitmapIsExact` |
| `CounterMatchesBitmap` | `Spec => []UsedIsCounted` |
| `KernelAndMapStayReserved` | `Spec => []KernelAndMapNeverHeld` |
| `ReservedStaysReserved` | `Spec => [](BitmapOnPages => ReservedNeverHeld)` |
| `BitmapImplementsPool` | `Spec => ImplementsFrameSpec` |

Assumed: `MemoryMapAssumption`, `PmmAssumption`: sizes are positive and `Firmware`
holds sequences of tags, any sequences.

`IInv`: every stored entry is one the firmware reported (`MapState`); the region is
one of them or the fallback (`RegionState`); what callers hold is the image of
the set bits that `pmm_init` did not set itself (`HeldState`); a search has passed
no run that would do (`SearchState`). `CounterMatchesBitmap` needs the cardinality
of a union of ranges that may overlap, entry by entry, which is where
`CountedTwice` comes from.

`ReservedNeverHeld` has three parts. That the kernel's frames and the reserved
entries are never handed out holds always. That the bitmap is not holds under
`BitmapOnPages`: it starts at a page of the region, or outside the region.
Otherwise `pmm_init`, which rounds the bitmap's first frame down and its length up,
marks one frame too few when the bitmap ends in the page after. This takes
a map with an available entry that begins inside a page, for instance one below
2 MB long while the fallback region is managed, or available entries that overlap.
`BitmapOnPages` is true in every state of the run `pmm`, and wherever
region and bitmap both begin at a page, as they do when the firmware reports RAM in
whole pages that do not overlap.

### The keyboard: `KeyboardProofs`

| Theorem | Statement |
|---|---|
| `KeyboardTyped` | `Spec => []TypeOK` |
| `CountStaysCurrent` | `Spec => CountIsCurrent` |
| `RingIsQueue` | `Spec => ImplementsKeyQueue` |

Assumed: `KeyboardAssumption`: the ring has more than one slot, and the 8-bit count wraps
at its size, as 256 slots and `uint8_t` do. The branch of `keyboard_buffer_count` that
adds the size is right for no other reason.

`ReaderState`: once a reader has seen a character in the ring there is one until it
advances; the slot it has read is not written before. The refinement maps the ring
to the text between its positions; the lemmas say what a step of either position does to that
text, around the wrap included.

### Interrupts: `InterruptsProofs`

| Theorem | Statement |
|---|---|
| `InterruptsTyped` | `Spec => []TypeOK` |
| `LinesReachTheirHandler` | `Spec => []OnlyFaultsStop` |
| `EoisBalance` | `Spec => []EoiBalanced` |
| `MasksStay` | `Spec => []MasksKept` |
| `StopIsFinal` | `Spec => StopsForGood` |

Assumed: `InterruptsAssumption` (the lines, masks and faults are of the machine's).

`BootState` and `MaskState` give gates, offsets and masks for each step of `kernel_main`;
the flag is set only once all gates stand. `HandlerState` says what is in service while
a handler runs: its line, none if it was spurious, the cascade until the
master's EOI. This is what each EOI, which ends the HIGHEST line in service, needs to
end the right one.

### The machine: `SystemProofs`

| Theorem | Statement |
|---|---|
| `SystemTyped` | `Spec => []TypeOK` |
| `BytesHaveTheirInterrupt` | `Spec => []InterruptPerByte` |
| `OnlyRemapStrands` | `Spec => StrandedOnlyAtRemap` |
| `SystemHasItsParts` | `Spec => I!Spec /\ K!Spec` |
| `InterruptsStaySound` | `Spec => [](I!OnlyFaultsStop /\ I!EoiBalanced /\ I!MasksKept)` |

Assumed: `SystemAssumption`, which contains the two parts' assumptions.

The invariant is that of the two parts, taken from their modules through INSTANCE, and what
relates them: a byte in the controller has its interrupt pending or in its
handler, unless stranded; the thread is in one function at a time. `SystemHasItsParts` is the
safety part of `ImplementsParts`; the fairness in it is model-checked.

### Console, shell, comparisons: `ShellProofs`

| Theorem | Statement |
|---|---|
| `ShellTyped` | `Spec => []TypeOK` |
| `ScreenBlankAhead` | `Spec => []BlankAhead` |
| `HistoryStaysRecent` | `Spec => []HistoryIsRecent` |
| `ArgumentsStayWords` | `Spec => []ArgumentsAreWords` |
| `CommandStaysNamed` | `Spec => []CommandIsNamed` |
| `StrcmpIsEquality` | `strcmp(a, b) <=> a = b`, for all texts |
| `StrncmpIsPrefix` | `strncmp(a, b, strlen(a)) <=> IsPrefix(a, b)`, for all texts |

Assumed: `TerminalAssumption`, `ShellAssumption`: positive sizes, commands with
names, and control characters that are none of the printable ones.

`Shape` holds the types, a screen blank from the cursor on, and where editor
and parser may be. `Recent` relates the history, which drops its oldest entry, to
all the lines entered. `ParserStands` relates the parser, which writes NULs
into the buffer it still reads, to the scan that defines `Words`: the parser
stands in a gap of that scan, what lies ahead in `parse_buffer` is as typed, and
each word it has passed ends at a NUL before it. The search for a command then
compares a word with names by `strcmp`, and the two theorems on comparisons
finish the proof.

### Induction

The library's induction rules take an operator as a parameter, which the installed
provers cannot instantiate. Where a proof needs induction (walks, sums over sets, folds over
texts, runs of frames) it takes the least counterexample instead: `LeastNatural` of
`Extrema` says that a set of naturals has a least element, and `LeastPart` the same
for the finite parts of a set. `Walk` and the library's folds are recursive
functions, a CHOOSE of a function that satisfies an equation; a lemma (`WalkExists`,
`SumsExist`, `FoldExists`) shows that there is one before its value is used.

### Only model-checked

- Liveness, which depends on fairness and ENABLED, out of the prover's reach: `CallReturns`,
  `CharacterIsRead`, `BootCompletes`, `WaitReturns`, `KeyIsRead`, `LineIsParsed` and
  the fairness in `ImplementsParts`.
- `ReservedNeverHeld` where `BitmapOnPages` is false is neither proved nor among the
  maps of the run `pmm`: it does not hold there, as said above.
- `Boot`, whose only property is violated.

## 6. Not modelled

- `string.c` beyond `strlen`, `strcmp` and `strncmp`: `strncpy`, `strcat`, `strchr`,
  `memcmp` and `memmove` are called by nothing; the copies and clears of `strcpy`,
  `memcpy` and `memset` are part of the operations that call them.
- Printing, colours, number formatting, the wording of help: nothing in the
  kernel depends on them. The boxes, lines and shadows `terminal.c` can draw
  have no callers. `heap_print_info` and the
  like only read.
- `vmm.c` and `vmm.h` are empty.
- Tests: the counts and verdicts they print; their calls are among those modelled.
- `multiboot_header.h` is third-party; `Makefile`, `linker.ld`, GRUB
  configuration are build data.
- A caller's data that contains `HEAP_MAGIC` where a wild pointer looks for it.
- What the kernel does after a header was overwritten (section 2, `Kmalloc`).
- Callers that break the allocators' rules where the code cannot notice and no caller
  in the repository does it: `krealloc` of a freed pointer whose header
  still stands (it tests no `is_free`); a second `kfree` of a pointer that has been granted again
  meanwhile, which is the new owner's; `pmm_free_frames` of frames somebody else was
  given since, or of reserved frames (the kernel's, the bitmap's, the firmware's), which
  the guard of `Free` excludes.
- A keyboard controller that loses, repeats or garbles bytes, and one that holds a
  byte before the machine starts. A byte stranded by `pic_remap` stays: no code
  drains the controller, and `KeyIsRead` excepts it.
- Ticks before `timer_install` divide by a zero frequency in C; the compiler
  drops the unused result, so no build shows it.

## 7. Plan

Order of work, most important first: the allocators (what everything else will stand on),
the interrupt-shared ring, interrupts and boot, the console and shell.

Done: all the modules of section 2, the runs of section 3, the theorems of section 5.

Left:
1. For frames, a bound for what `BitmapOnPages` excludes: at most the bitmap's last
   page stays unmarked.
2. For `Boot`, the part of the identity map that does stay as built (everything below the
   entries the stack reaches), as a run and a theorem.
3. `System` with keys that make no character and with releases, once the composition
   has more than one reader of the modifier flags.
