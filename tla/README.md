# A verification project for tmos

tmos is a small x86_64 microkernel with its own boot loader. This directory holds TLA+
models of the parts of the kernel that keep state, TLC configurations that check them on
small instances, and theorems about them that TLAPS checks for every value of the
constants. Every definition was translated from the code; `PROJECT.json` maps each to
its lines.

To check one module: `tlc -config MCVmm.cfg MCVmm`. To check proofs:
`tlapm BitmapPmmProofs.tla`.

## 1. Inventory

Paths are below `src/`; `x86/` stands for `kernel/arch/x86_64/`.

| Component | State | Operations | Must be true | Model |
|---|---|---|---|---|
| Physical memory manager, `kernel/mem/bitmap.c` | two bitmaps, a count, the limits of the fast range | `_init`, `_alloc`, `_free` | no frame lent twice; only frames of available memory that do not store the bitmaps; a held frame can be given back | `BitmapPmm` implements `FrameAllocator` |
| Memory map, `kernel/mem/memory.c`, `kernel/multiboot2.c` | array of 128 regions | `mmap_insert_region`, `mmap_split_at`; filled from firmware | decreasing order; each page has the highest type given to it; insertion ends | `MemoryMap` |
| Virtual memory manager, `x86/mem/vmm.c` | page tables in physical memory, TLB, heap break | `vmm_map`, `vmm_map_to`, `vmm_free`, `vmm_unmap`, `vmm_translate`, `ksbrk`, page fault handler | a map from pages to frames of their own; no frame lost or used twice; no stale translation | `Vmm` implements `AddressSpace` |
| Its initialisation, `vmm_init` | two page table trees, one recursive slot, TLB, `cr3` | `_setup_new_pml4`, `_do_with_new_pml4`, the two remapping callbacks, `vmm_switch_addr_space` | the new tree maps what it must and nothing else; the old one is left as it was; no store goes to the wrong tree | `VmmBoot`, two instances of `Vmm` |
| Heap, `kernel/mem/heap.c`, `include/tmos/ds/list.h` | chunks, 54 lists that run through free memory | `kmalloc`, `kcalloc`, `kfree` | blocks disjoint, large enough, owned once | `Heap` |
| Logging, panic, uniprocessor lock, `kernel/klog.c`, `include/tmos/arch/x86_64/spin.h` | message buffer, lock word, interrupt flag | `klog`, `__panic`, `spin_lock`, `spin_unlock` | messages whole; interrupts come back as they were | `Klog` |
| Exceptions, `x86/cpu/idt.c` | IDT | common handler, gates | the handlers' use of the log; which interrupts have a handler | in `Klog` and `Timer` |
| PIC, PIT and idle loop, `x86/dev/`, `x86/boot/kinit.c` | registers of the controllers, channels, tick count | `pic_init`, `pic_send_eoi`, `pit_start_counter`, tick handler, idle loop | interrupts served through controllers that were set up, and acknowledged; ticks shown | `Timer`, on top of `Klog` |
| SMP lock, `x86/spin.asm` | lock word | `spin_lock`, `spin_lock_intsafe`, `spin_unlock` | mutual exclusion; no deadlock with handlers | `SpinSmp` |
| Formatted output, `kernel/vsprintf.c` | none | `vsnprintf`, `snprintf` | a number's text says its value in its width; stays in the buffer; ends | `Format` |
| C library, `libc/string.c`, `libc/ctype.c` | none | block and string functions | moves, searches and comparisons agree | `Strings` |
| Serial port, `x86/serial.c` and the boot loader's copy | registers and transmitter of the UART | `serial_init`, `serial_write_byte`, `serial_write_str` | what is written arrives, whole and in order | `Serial` |
| Boot loader stage 2, `bootloader/stage2/mem.c` | BIOS map, regions built behind it | `_sort_map`, `_translate` | each page that the BIOS describes in one way gets that type | `Stage2` |
| Start-up, `x86/boot/kinit.c` | which services are up | `kinit_multiboot2`, `_init_mem_mngr`, `_remap_cb_multiboot2` | what each service is given, and when | in `MemoryMap`, `VmmBoot`, `Timer` |
| Boot loader stage 1, descriptor tables, entry code, build | | see section 5 | | not modelled |

How they interact. `kinit_multiboot2` fills the memory map from the loader's table, marks
the table and the kernel in it, and hands the part from the highest available region
downwards to the physical memory manager. `vmm_init` takes frames from that manager for a
new tree of page tables, has the kernel and the manager's own bitmaps remapped by
callbacks, and switches. From then on the virtual memory manager takes frames for tables
and, in the page fault handler, for pages; it gives them back in `_do_free`. The heap
grows through `ksbrk`. Every component logs and panics through `klog.c`, which formats
with `vsnprintf` and writes to the serial port; the page fault handler and the common
exception handler log too, and so may interrupt another `klog`. Devices are set up before
interrupts are enabled (`kinit.c:90-130`); after that the tick may interrupt anything that runs
with interrupts on, and start-up ends in a loop that logs the tick count and halts. The
kernel runs on one CPU today; `spin.asm` is built only with `__TMOS_CFG_SMP__`.

What is hard here: bit arithmetic on two levels that must agree after any history;
an in-place insertion loop whose indices move under it; lists stored in the memory they
manage; page tables that are edited through the tables themselves, with a TLB between,
and at boot through another tree's tables; one lock word, one interrupt flag and one
buffer shared by nested activations and ticks; devices that remember how far an
initialisation sequence has come. The list `hazards` in `PROJECT.json` gives each at its
line, with the properties that watch it.

## 2. Modules and their correspondence to the code

**FrameAllocator** is what `struct pmmgr` promises its users: a pool that is fixed once,
frames lent and taken back, no frame lent twice.

**BitmapPmm** is `bitmap.c`. A bitmap is the set of its set bits; addresses are frame
numbers. `PmmInit` is the whole of `_init`: the choice of a region for the bitmaps, the
memset, the freeing of available memory and the marking of the bitmaps, with the summary
bits that the order of these leaves (`EmptiedWords`, `FilledWords`). `_alloc` is the
disjunction `Alloc`: `FirstClear` says where the loop with `1 << j` may stop, which is
nondeterministic where the shift is undefined in C (either the masked shift of x86 or a
64-bit one). `Free` is `_free` with its assertions; callers give back what they hold, or
frame 0 (see `Vmm`). Running out, panics, assertions and reads past the bitmap are
values of `phase`.

**MemoryMap** keeps the array whole, with what lies behind its end, because the code
reads and moves that too. An insertion is in progress when `ins` is set; each path
through the body of its loop is an action (`LoopSkipHigher`, `LoopDropNext`,
`LoopRetype`, `LoopSplit`, `LoopExtendNext`), and each way out too (`Finish...`);
`_move_left` running off the array is the stop `out_of_bounds` too (`LeftRunsOff`). The
entries arrive as `_fill_mmap` rounds them, then the loader's table, then the kernel, as
`mem_load_mb2_mmap` and `kinit_multiboot2` do; `SplitAt` is `mmap_split_at`. `Handed` is
the slice that `_init_mem_mngr` hands over. Writes that leave the array stop the model
(`out_of_bounds`), as do the code's own panics. `want` is a ghost variable: the highest type inserted over each page. `clean` is another: the firmware's entries and the loads
overlap as they like, and it says that no insertion has yet gone one of three ways, each of
which spoils the map. They are an entry that rounding has turned inside out
(multiboot2.c:69); a split, which runs on into the next assignment (memory.c:114,
`LoopSplit`); and the removal of a region that has the
inserted type already (memory.c:98, `LoopDropNext`), if it is the last of the insertion or the
one below it has a higher type: its pages fall to that one.

**AddressSpace** is what `memory.h` promises of virtual memory: each page unmapped,
reserved, backed by a frame that backs no other page, or mapped to a given address.

**Vmm** is `vmm.c` after `vmm_init`. Tables are contents of frames; a path of indices
names a table and also the page of the recursive window through which the code edits
that table, so `ReadEntry` and the writes go through `Reached`, which prefers the TLB
(`tlb`) to the tables as a processor may. `vmm_map`, `vmm_map_to`, `vmm_free`,
`vmm_unmap` and `ksbrk` start a job, whose steps are those of the loops: `PtExists`,
`PtCreate`, `SetLeaf`, `PtChild`, `ClearLeaf`, `FreeTable`, `KeepTable`. `Access` is a
store by running code, `PageFault` the handler. A frame may be any that the allocator
has, so nothing here depends on the order in which `_alloc` searches. The TLB keeps the
translations of the window that the code has used, until `Evict` drops one that is no longer
right; those of a table stand also for what the processor's paging-structure caches keep.
`_do_free` invalidates the page alone (line 128). So when a table is made where an
earlier one was freed, `PtCreate` may zero the earlier one's frame: the kernel is then
`astray`, the new table holds what its frame held before, and what happens from there on is
not modelled. `MCVmmStaleWindow` shows that it comes to that.

**VmmBoot** is `vmm_init`. The calls it makes, with those of its callbacks, are a
sequence (`vmm_init`, built by operators named after the functions), which `Proceed`
executes: `StartCall` begins a call of `vmm_map_to` or `vmm_unmap`, `CallStep` is a step of
it, and `Redirect`, `Restore`, `Flush`, `Switch` are the stores and register loads
between. `Old` and `New` are `Vmm` with the root of one tree or the other; the entry that
makes the window decides which of them a call edits, while the processor translates
through the old one, or through what its TLB kept. `Evict` lets the TLB forget at any
time. Frames come lowest first, as `_alloc` gives them at boot: `WindowRight` depends on
that, and the run shows it, since with any frame instead it fails. The
size of a section is not rounded up (`kinit.c:60` drops the result); `SpacesExact` holds
because `linker.ld` aligns the sections to pages, which the sections of `MCVmmBoot` do.

**Heap** is `heap.c` on `list.h`. Chunks are numbered in address order, the last being
`_heap.last`; sizes are real. `link` holds what the first two words of each chunk hold,
list node or user data, so that list operations on used memory do what they do in the
code. Owners store what they like there, data, NULL or the address of a block that kmalloc
has returned (`Storable`; which blocks is bounded by `Pointers`). A pointer that cannot be
followed is the stop `wild_pointer`. A block that is given out while it has an owner ends the
model (`given_twice`): two callers writing into each other's data have no properties left.
`MCHeapLists` shows how that comes about. Footers and the
previous-in-use bit are written but never read by an operation, and left out.

**Klog** is `klog.c` on the uniprocessor half of `spin.h`, as a stack of activations on
one CPU: callers of `klog` and `__panic`, the page fault handler and the other exception
handlers, each of which logs. `ReadFlags` is pushf and the test, `Lock` the disabling of
interrupts and the setting of the word, `LeaveLock` the way past both; with `Unlock` they do
to lock word and interrupt flag what the code does. Formatting is two steps so that a fault in
an argument can come between (`FaultsIn`: in running code, in arguments). No message that the
kernel prints today has an argument on a page still to be allocated, but nothing in `klog`
asks for that.

**Timer** extends `Klog` with what may interrupt it. `PicWrite` is a byte written to one of
a controller's two registers: after the first initialisation word the data register
takes three more before it is the mask again. `pic_init` is the bytes that the code
writes, in order; as `PIC_SLAVE_DATA` is the slave's command port, the slave never gets
through. `Initialised` is what becomes of a controller, since the code sends its words to
both in turn and neither sees the other's. `pic_send_eoi` has the code's comparisons (that of the slave's range is always
true). `TakeTick` and `IsrPit` are the handler's entry and the rest; `TakeOther` is an
unmasked line other than the timer's, for which the IDT has no gate. `Idle` is the loop of
`kinit_multiboot2`, and `KlogStarts` is other code that logs, faults or panics. The handler
saves no register that the C function it calls may change, whatever it interrupts: a `klog` may
lose its arguments, the flags that it has read into a register and not yet tested
(`FlagsRead`), or a pointer that it formats with (`lost`, `AtRisk`). It may then fault
(`FormatFaults`), and nothing is said of what it prints. `KeepsCounting` says whether channel 0, which never gets a count, ticks anyway;
`TRUE` is what the kernel counts on, and some firmware leaves.

**SpinSmp** is `spin.asm`: one action per access to the lock word, for tasks and
interrupt handlers of any set of CPUs. Tasks run with interrupts on or off (`TaskFlag`) and lock
either way, with one rule that any use of a plain lock needs: where handlers take the
lock too (`Handlers`), `spin_lock` is called with interrupts off. The lock bit and the bit for
interrupts share the word, and line 48 clears the former where it means to set the latter: so
a task that calls `spin_lock_intsafe` with interrupts on, as `klog` is called in
`kinit.c:130-132`, leaves the lock free (`MCSpinSmpBits`).

**Strings** is `string.c`: operators on a memory, with bytes as signed `char`. For a negative `char` the macro `tolower` reads before its table; it is modelled as no letter, and no property depends on it. `strcpy` and `strcat` leave out the terminator, as the code does; `strncpy` copies at most the string. A
loop is the sequence of its offsets (`Upwards`, `Downwards`) and a recursive function that
makes its assignments in that order (`Assigned`), so that what an overlap does is seen.

**Format** is `vsprintf.c`. A format is a sequence of records (flags, width, precision,
qualifier, conversion, argument); `ItemText` is what each conversion writes, with the
countdown of `size` in `_number` and the widths of the C types (`Bits`). `Items` are the
records that the scanner of lines 156 to 217 may come to, and `Fits` says that the arguments
are of the types that the conversions take, as C demands of a caller. `vsnprintf` puts one item after the
other into the memory (`PutItem`, `Formatted`) and says whether the copy loop of line 292 ends: once the buffer is full it
does not advance.

**Serial** is the UART's registers, the two drivers (the boot loader's tests the number of
the status port instead of its contents), and the transmitter, which holds one byte: a
second replaces it. `_init_com` is its writes in their order; as the access bit decides
whether a write to the data port is half of the divisor or a byte to send, the order matters.

**Library** composes the three: one caller that moves blocks and strings, formats a message
and has it written, as `klog` does. Its assumption says that memories are finite, and that
a message's arguments fit its format; texts hold no NUL.

**Stage2** is `mem.c` of the boot loader: each pass of the sort and each entry that
`_translate` takes is a step. `PAGE_ALGN_UP` and `PAGE_ALGN_DWN` are `& !4095`, which is
`& 0`: so a gap is always seen, an overlap never, and lines 73 to 172 cannot be reached.
Entries that end together keep the order in which they come, although the comment on line 27
sorts them by base; no page's type depends on it. The caller's `*regions` is never set. An empty map, on which `len - 1` wraps, is
assumed away by `Stage2Assumption`.

**MC...** modules give the constants of a model their small values. Definitions whose
comment calls them "the form of X that ..." are faulty variants of X; each is used to
see that a property notices such a fault, and by nothing else.

## 3. Runs and bounds

Passing runs:

| Run | Bounds | Shows |
|---|---|---|
| `MCBitmapPmm` | words of 4 bits, int of 2, five memory maps of up to 32 frames | `BitmapExact`, `SummarySound`, `HeldFreeable`, implements `FrameAllocator` |
| `MCMemoryMap` | array of 8, pages 0 to 9, up to 4 firmware entries, then a table, a kernel and one split, overlapping as they like | `Ordered`, `MapIsHighestType`, `HandedToPmmOk` of maps that are not spoiled; every insertion ends |
| `MCHeap` | three splits, requests of two neighbouring small classes and a large one, and two that are refused; owners store data, NULL or a pointer to the first block | `Tiled`, `LastHasRoom`, `BlocksDisjoint`, `BlockFits` |
| `MCVmm` | 6 interchangeable frames, tables of 2 entries, pages 3 to 5, calls of up to 2 pages, a heap of pages 3 and 4 | frames, tables, TLB, heap and contents stay consistent; implements `AddressSpace` |
| `MCVmmBoot` | tables of 4 entries, 14 frames, five sections, three of them mapped, over two tables, a guard page, a multiboot2 table of 2 pages, one page of bitmaps | `SpacesExact`, `FramesAccounted`, `WindowRight`; the switch is reached |
| `MCSpinSmp` | 2 CPUs, both ways of locking, handlers that lock, tasks with interrupts on or off | no wait for the interrupted task; a wanted free lock is taken |
| `MCKlog` | 6 activations, faults in running code, panics, other exceptions; the lines of timer and keyboard, the latter masked or not; 3 ticks | flag given back, `LockMeansOff`; interrupts served in order; ticks shown |
| `MCLibrary` | memories of 5 bytes over {0, 'A', 'a'} and {0, 'a', 200}; types of 4, 6 and 8 bits; all flags; widths, precisions and buffers around the text's length | the string functions agree, numbers read back, the buffer is kept, the line gets the text |
| `MCStage2` | pages of 2 bytes, up to 3 entries of three types and three lengths, in any order and alignment | each page that the BIOS describes in one way gets that type, also beside and under overlaps |

Why these bounds are enough. The bitmap geometry has two levels, so the maps cover a
summary word that is full, half reserved and partial, bitmaps inside and outside the
fast range, and no room for them; 4-bit words with a 2-bit int keep the order of widths
32 < 64 and the overlap of the sign-extended shift. Four firmware entries and two loads
reach every path of the insertion loop, and an array of 8 is large enough to hold what
they split into and small enough to be filled, and to be overrun where the loop runs on. In `MCVmm` pages
3 and 4 differ in all indices but the first, and 4 and 5 in the last alone, with tables of two
entries: tables are created and freed on every level, in a call that crosses the boundary and in
two that meet there, and a table is kept because of a sibling; 6 frames run out in the middle
of a call. Frames are only compared, so permuting them is a symmetry. `MCVmmBoot` executes one program; its sections cross from
one table into the next, so that tables are made on every level in the new tree, and the
choices are the TLB's. Three splits of the heap give neighbours on both sides
of a chunk and make the heap grow, and neighbouring classes let a block be reused
by another class; one pointer is enough to make both words of a block addresses. Two CPUs are
a holder and a waiter, each with its handler. The stack of six activations holds a panic in the handler of a fault in
a task with its own log calls; an NMI may come at any point once. Three ticks are one
before, one in and one after a round of the idle loop. A memory of five bytes holds two
strings that overlap, adjoin or lie apart, and one that contains the other; types of 4 to
8 bits wrap as those of 16 to 64 do, with three digits in base 10. Three entries of the
BIOS map give one on either side of another, equal ends, gaps of less than a page, and a
page shared by two.

Runs that end in a violation, each of a sentence of the repository:

| Run | Sentence | What the code does |
|---|---|---|
| `MCHeapUsedMemory` | heap.c:23 "In case of used chunk, it stores just the size" | a split writes a link into a block in use |
| `MCVmmStaleWindow` | vmm.c:97 "Zero out the entry and return" | a new table is zeroed through the translation of a freed one; whether a processor keeps it is its own affair, and the architecture permits it |
| `MCSpinSmpBits` | spin.asm:48 "Set bit 1 to denote that interrupts were enabled" | `and` for `or`: the lock is cleared, and a second CPU gets in; latent, as the file is not in the default build |

Further configurations, for running by hand, in which a property of the same modules is
violated. Where one lists several properties each is violated by itself; TLC stops at the
first, so leave the one of interest.

| Configuration | Property | What the code does |
|---|---|---|
| `MCBitmapPmmUnreachable` | `NeverUnreachable`: bitmap.c:140 "We know j < WORD_SIZE" | `1 << j` is an int; the upper half of a word is not tested, and the panic behind is reached |
| `MCMemoryMapOrder` | `AlwaysOrdered`: memory.c:79 "The memory map is stored in decreasing order of memory addresses" | a split runs on into the next assignment (line 114), here with entries of whole pages only; with `MCFwEntries` in their place one entry is enough, of available memory that covers no whole page and is inserted inside out (multiboot2.c:69) |
| `MCMemoryMapHanded` | `HandedEndsWithMap`: memory.h:14 "the region with a start address of 0 denotes the end of the map" | what is handed to the frame allocator starts further down but has as many entries as the whole map (kinit.c:152, 159) |
| `MCHeapLists` | `OneOwner`: heap.c:322 "Check if bin has free nodes. If yes, allocate" | a bin that a split has damaged still leads to a block that it gave out; once its owner has stored pointers there, it is given out again |
| | `NoFreeBlockLost`: list.h:31 "Add an entry to the list after the head node" | `node->next = prev` (line 26) cuts off the entries that were there |
| `MCHeapBinBounds` | `BinsInBounds`: heap.c:239 "Handle requests larger than 3840 bytes" | sizes from 3329 reach past the last bin |
| `MCVmmFreeUntouched` | `PagesCanBeFreed`: vmm.c:298 "Free n virtual memory pages" | an untouched page gives back frame 0, an assertion |
| `MCSpinSmpRestore` | `InterruptsComeBack` | the bit that is to bring interrupts back is never set (spin.asm:55) |
| `MCKlogNested` | `UnlockRestores`: spin.h:30 "Release a spinlock. If interrupts were enabled before locking, enable interrupts" | the klog in a panic gives up the panic's lock and enables interrupts that were off when it was called |
| | `MessagesIntact`: klog.h:7 "Write a log message" | a page fault in an argument logs into the buffer that is being filled: the message is part one, part the other |
| `MCTimerRegisters` | `SectionIsQuiet`: spin.h:25 "Acquire a spinlock, disabling interrupts when it has been acquired" | a tick changes the register with the flags before they are tested: klog goes on with interrupts on |
| | `ArgumentsKept` | a tick between the loading of klog's arguments and their use changes them |
| `MCTimerDevices` | `TimerProgrammed`: pit.c:55 "Configure the PIT for a continuous timer tick" | the command selects channel 0, the count goes to channel 2 (line 63): channel 0 waits |
| | `PicsInitialised`: pic.c:27 "Initialize the PIC, and set the base interrupt numbers" | the slave's words go to the wrong register |
| `MCLibraryStrcpy` | `StrcpyMakesCopy`: string.c:82 "Copy null-terminated string from src to dest" | no terminator is copied |
| `MCLibraryHang` | `FormatsEnd` | an unknown conversion behind the end of the buffer keeps the copy loop running (vsprintf.c:292) |
| `MCLibraryStage2` | `WireIsText`, for the boot loader's driver | it tests the port's number (io/serial.c:82): a byte overtakes the one that is still being sent |
| `MCStage2Overlap` | `OverlapsCleaned`: mem.h:3-5 "it could have overlaps ... sorts and cleans the BIOS memory map" | no overlap is recognised (mem.c:16), and a page that is reserved too stays available |

Deadlock checking is off where the system really stops: after a panic or a failed
assertion, when memory or the model's bound on chunks, entries, pages or ticks is used up,
in `crash_and_burn`, after the switch in `VmmBoot`, and where a message has been written
or a map translated. `SpinSmp` is checked for deadlock.

Fairness. `MemoryMap` assumes weak fairness of the steps of an insertion in progress, and
`VmmBoot` of the steps of `vmm_init`: start-up runs on one CPU without preemption, so what
can go on does. The TLB's forgetting is not made fair. `Timer` assumes it of `Progress`, that is of the
processor's next step or its taking of a pending interrupt, and of the timer's raising of
its line, up to the bound on ticks. Logging, faults and panics by other code are not made
fair: nothing promises that they come. `SpinSmp` assumes it of the return of a handler, and strong fairness
of every thread's steps inside a lock operation, from the call to the release: a task
whose poll is interrupted again and again still executes between two interrupts, which
weak fairness does not promise, since the step is disabled while the handler runs. `Vmm`,
`Heap`, `BitmapPmm`, `Library` and `Stage2` assume none. Nothing is assumed of calls being
made, of faults, or of other interrupts arriving. `LockIsTaken` promises no thread a turn;
the lock does not either. `TicksShown` excuses a last tick that came between the reading of
the count and the halt: with no tick after it nothing wakes the processor.

## 4. Proofs

| Module | Theorems | Assumptions |
|---|---|---|
| `MemoryMapProofs` | `RegionsTellTheMap` | `Stage2Assumption`: maps that are not empty and end below `Top`, which is 16 TiB: from there on `REGION_START`, a shift of a 44-bit field, loses bits |
| | `MapTypeCorrect`, `MapStaysOrdered`, `MapGivesHighestType`, `HandedMapOk` | `MapAssumption`: at least two entries in the array; the loads and what the firmware lists are ranges of bytes that are not empty |
| `VmmProofs` | `EveryFrameAccounted`, `NoTableLeftEmpty`, `TlbIsCoherent`, `HeapIsMapped`, `PagesUntouched`, `SpaceRefinement` | `VmmAssumption`; device memory is one value (`After(Device) = Device`); for the last, that no frame is named as a page's state |
| `BitmapPmmProofs` | `TypeCorrect`, `BitmapIsExact`, `SummaryIsSound`, `HeldIsFreeable`, `Refinement` | `PmmAssumption`: word wider than an int, memory maps as `kinit.c` hands them over, memory below the end of the fast range |
| `HeapProofs` | `ClassFits`, `HeapTypeCorrect`, `HeapIsTiled`, `LastChunkHasRoom`, `BlocksAreDisjoint`, `EveryBlockFits` | `HeapAssumption`: requests are sizes, pointers chunks |
| `SpinSmpProofs` | `HandlersDoNotDeadlock` | `SmpAssumption`: nothing but the kind of a constant |
| `TimerProofs` | `KlogTypeCorrect`, `LockWordMeansOff` | `KlogAssumption` |
| | `TickFindsLockFree`, `InterruptsAreServed` | `KlogAssumption`, `TimerAssumption` |
| | `TickReturnsFlag` | also `ArgumentsMapped`: no argument of a message lies on a page still to be allocated |
| `LibraryProofs` | `StringsAgree`, `NumbersSayTheirValue`, `MessageFits` | `BitsAssumption`, `LibraryAssumption`: any finite memory, any widths of the integer types in their order, any formats whose arguments fit |
| | `LineCarriesText` | also `Driver = "kernel"`: with the boot loader's driver it is false (`MCLibraryStage2`) |

`BitmapPmmProofs`. The invariant `IInv` joins type correctness, exactness of the bitmap
and soundness of the summary. `BitmapExact` alone is not inductive: `_alloc` finds a
frame through the summary, and needs that a clear summary bit lies over a word of the
bitmap, and that what is lent is at or above `fast_start`, which follows from the
rounding of the limits. The arithmetic of rounding and of words and bits is stated once
in `DivisionFacts`. `Refinement` maps `phase`, the reserved frames and `held` to the
abstract allocator: `PmmInit` opens it, `AllocFrame` and `Free` lend and take back, and
every other step stutters.

`MemoryMapProofs`. Two invariants. Of any map (`TInv`) the indices of an insertion lie in
the array while it is in progress, those between the two start inside the range that
is inserted until its end is aligned (`Fresh`), and where the code would leave the array
the model has seen it stop. Of a map that no insertion has spoiled (`CleanInv`) much more is
true, after every pass of the loop and whatever it overlaps: the array is in decreasing order
(`Sorted`); the indices are where the loop's own comparisons rely on them to be (`Placed`); every
page has the highest type given to it, but for those that the insertion has not come to, from
its start up to `Limit`, which still have what they had (`Right`); and the highest region is
of no type, so that there is always one above. The lemmas say what `FirstBelow` finds in an
ordered array, what that array and the types of pages become when entries are put in, retyped,
given a new start or removed, and that none of this depends on what lies behind the entry that
ends the map (`SameMap`). The three ways to spoil a map have no such lemma: see
`MCMemoryMapOrder`; after the third, pages have a wrong type in an
ordered map.

The same module proves `RegionsTrue` of the boot loader's map. Of the sort, `Stage2Inv` says that the
entries are those of the BIOS (`SameEntries`) and that those passed end no lower than
those that follow (`EntriesSorted`). Of the translation it says, page by page (`PagesRight`), that
the first region starting at or below the page has the type that the map wants of its
last byte (`PageWants`), and that there is such a region once an entry that holds that byte
was translated, unless the page is to be reserved. The last byte is enough because a start is
rounded down: a region reaches a page exactly when its address is below the page's end
(`StartFacts`). The sort is needed for one thing, that the gap put above an entry covers no page
of an entry still to come. Overlaps do no harm to pages on which the entries agree, though a
region's start may move up again where a reserved one was entered twice, which is why nothing
is said of reserved pages being covered.

`VmmProofs`. The tables are a tree: a level for each frame, below the root three for tables and one for pages,
such that every entry leads to a frame one level down, no two entries lead to the same
frame, and the frames that have a level are those that the allocator has given out
(`Tree`). A call stands at a table on the way to its page (`JobAt`); a table is empty only if
the call has just made it or is about to free it (`Filled`); what the TLB holds of pages is what
the tables say, and of a table that is in use it holds the right frame or nothing, whatever it holds
of those that were freed (`TlbOk`); the heap's pages are mapped up to the break, but for those that a call
of `ksbrk` has not come to (`HeapOk`). Levels and walk are quantified in `IInv`, which names
some tree rather than computing it. Each step either leaves the pages' entries alone or
changes one (`SameLeaves`, `OneLeaf`); the refinement maps those to a stutter or to a step
of `AddressSpace`. So a call always edits the tables themselves, and the one thing that goes
wrong is the zeroing of a new table through a stale translation. All of this holds until then
(`OnCourse`), and the last step of the refinement is that it is `lost`; `HeapIsMapped` and
`NoTableLeftEmpty` speak of times between calls, which a kernel that is astray does not see again.
`DivisionFacts` says how a page's index splits into the four of its path.

`HeapProofs`. The lists of free chunks go wrong in this code (the violations above), so no
invariant may say that they are lists of free chunks. What survives is weaker and is
enough: a link that can be followed leads to a bin head or to a chunk that exists
(`LinksLive`), and only chunks that exist are given out (`OwnedExist`). Then every
operation keeps the chunks tiling the heap (`Tiled`), any two of them apart
(`ChunksApart`, which says of any pair what `Tiled` says of neighbours), and the last one
large enough for the next split (`LastHasRoom`, which holds because the largest class is
smaller than the page that `ksbrk` adds). `BlocksDisjoint` follows. `ClassFits` is a fact
about the size classes alone: for every size that `kmalloc` serves, the bin that
`_get_bin_idx` picks holds blocks at least as large.

`BlockFits` needs to know what a bin may lead to (`OInv`). A split overwrites a
link of the last chunk but one, and if that is free its bin is damaged: a bin can lead to
a chunk in use, whose two words are whatever its owner has stored. If they can be followed the
chunk is given out twice, which ends the model; otherwise unlinking it goes wrong. Until then
whichever chunk a bin leads to has a size of that bin's class (`BinsLead`), also when it is in
use, and `ClassFits` does the rest.

`SpinSmpProofs`. What the interrupt-safe lock is for holds although the lock word does not keep
CPUs apart. The invariant says that a handler interrupts a task that is in no call or between
two attempts of an interrupt-safe one (`HandlersInterruptPolls`), and that everywhere else a
task runs with interrupts off, if handlers lock (`OffOutsidePolls`): so none is interrupted
while it owns the lock, whichever way it came by it and whatever the lock word says.

`TimerProofs`, of `Klog`. `LockMeansOff` needs to know who is going to unlock: while the lock word is
set some activation on the stack has locked and not unlocked, and one that has stands
above every fault whose return will enable interrupts (`StackAnswersForLock`). So an
`iret` that enables interrupts finds the lock word clear.

Of `Timer`: that invariant is taken over, since every step of `Timer` is a step of `Klog`, the
tick's coming or going, a fault of a klog that lost its arguments, or leaves Klog's
state alone (`StepKinds`), and a tick comes only where interrupts are enabled, so where the
lock word is clear. The flag comes back
because a `klog` called by running code or by the page fault handler executes either with the
lock word saying, from its `Lock` on, what the flag was, or, where a tick has changed the flags
that it read, with the word clear and the flag as it was (`KeepsFlag`), and because the fault
handler calls it with the word clear (`FaultUnlocked`). The flag needs more than the lock's
invariant says: a `klog` nested
in a panic does give back another flag (`MCKlogNested`), which is why `EndedOrTop` tells the
callers apart. Nothing is said of a `klog` that has lost its arguments or a pointer to a tick
(`lost`), and with faults in arguments the property fails; the code has no such message.
`InterruptsAreServed` rests on an invariant of its own (`PicInv`): interrupts stay off, and the
lock word clear, until start-up enables them, whatever is logged or faults before
(`QuietBoot`); `pic_init` leaves the master with its base and the firmware's mask
(`MasterInitialised`, word by word); and the end of interrupt, which clears the most urgent
line in service, clears the tick's, because line 0 is the most urgent.

`LibraryProofs`. The loops of the code are recursive functions here, and what they compute is
proved by a least counterexample in the natural numbers (`Iteration`, `Turns`), which needs no
induction theorem. For `StringsRight` the lemmas say what `strlen`, the searches and
the comparisons find, as a first index with a property (`MinFacts`), that a block copied
upwards to a lower address, or downwards to a higher one, reads each byte before it is
overwritten, and that the comparisons stop where two strings first differ. For
`NumbersReadBack` they say what a reader makes of a text built from others (`ReadingFrame`,
`FramedText`): padding, sign and prefix change nothing of what the digits say, the digits of
`n` read as `n` for each base, and `Fetched` with `Magnitude` and sign is the value in
the argument's own type. For `BufferKept` the loop over the items has the invariant `Wrote`:
the buffer holds the text so far up to its end, and nothing else was written. `WireIsText`
is the only one with an inductive invariant over time (`LineRight`, `MessageIsText`): the
device stays as `serial_init` left it, divisor 1 and 8 bits, so that no byte is garbled; a byte is
written only into an idle transmitter; and what was not yet written, sent or received is
the message. That is false of the boot loader's driver, hence the assumption.

TLC checked each inductive invariant on the instances of section 3 before it was proved,
except that of `VmmProofs`, of which it checked the parts that quantify over no tree, and the
type parts of those that speak of all sequences.

Only model-checked: the three invariants of `VmmBoot` (`SpacesExact`, `FramesAccounted`,
`WindowRight`). They speak of two trees that share frames through a borrowed window entry while
stale translations of it remain, and hold only for the order in which frames come, so
the invariant of `VmmProofs`, which rests on one tree that its own window shows, is no
use there. Liveness and ENABLED (`InsertTerminates`, `LockIsTaken`, `BootEnds`, `TicksShown`)
are out of this prover's reach. No module declares a RECURSIVE operator.

## 5. Not modelled, and why

Stage 1 of the boot loader: what it decides depends on carry flags that the BIOS returns,
and each failure is a message and a halt. Of stage 2, its own formatter, integer
conversions and logging, which print numbers while it runs; it does not load a kernel
yet. The walk over the tags of the multiboot2 table, which the loader wrote. The bits of
the entries of GDT and IDT, stores without decisions: `Timer` and `Klog` have which
vectors have a gate and what an interrupt gate does to the flag. The entry code in
assembly is a straight line. Printing (`mmap_print`, `vmm_print_ptable`) changes no state.
`stdlib.c` and most of `ctype.c` are not used by the kernel. Headers and build files have
no state.

Within the modelled parts: what follows once two callers own one block of the heap, or a page
table has been made of something else; flags of page table entries other than presence, reservation
and size, so that nothing is write-protected; the bytes of reserved memory in which the
frame allocator's bitmaps could come to lie; the slave controller's devices, all masked in use. In
`Vmm` the frame allocator is its abstract promise; `BitmapPmm` shows that the real one
keeps it, and adds the panic that it does not promise. Reading a format's own characters
is abstracted to records.

`Klog`, `Vmm` and `SpinSmp` state a `TypeOK` that no run lists: it documents their state;
for `Klog` it is proved, for `SpinSmp` it is part of the proved invariant, and the proved
invariant of `Vmm` types what it speaks of in `Tree` and `JobOk`.

## 6. Plan

Done, in order of importance: memory managers from the bottom up (`BitmapPmm`,
`MemoryMap`, `Vmm`, `Heap`), locks and logging (`SpinSmp`, `Klog`), then what start-up does
with them (`VmmBoot`), what interrupts them (`Timer`), what they print with (`Strings`,
`Format`, `Serial`, `Library`) and the boot loader's map (`Stage2`), with the proofs of
section 4.

Left:
1. `FramesAccounted` of `VmmBoot`, from the tree of `VmmProofs` for each of the two roots.
2. A composition of `BitmapPmm`, `MemoryMap` and `Vmm` as `_init_mem_mngr` makes it, in which
   the frame allocator's panic on an empty pool is seen by the page fault handler.
