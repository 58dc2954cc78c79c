# A TLA+ model of the WaterBuffalo kernel

WaterBuffalo is a small x86-64 kernel. It is loaded by Limine, sets up its
descriptor tables and a serial port, takes over physical memory with a bitmap
allocator, builds its own page tables, switches to them, draws a picture and ends
in a deliberate page fault. One CPU runs and interrupts stay off, so the difficulty is
mostly not concurrency but state that a long sequence of calls, a failure half-way or an
unusual memory map can put out of step. Two parts do interleave: the serial driver with
its device and the other end of the line, and exceptions with whatever they interrupt.

## Inventory

| Part | Source (`src/src/`) | Depends on | Modules | State of the work |
|---|---|---|---|---|
| Physical memory manager | `mm/pmm.cpp` | memory map | `Pmm`, `FrameAllocator`, `PmmProofs` | modelled, checked, proved |
| Entries and addresses | `mm/vmm.hpp` | | `Paging`, `VmmBase` | modelled, checked, proved |
| Page-table builder | `mm/vmm.cpp` | frame allocator | `Vmm`, `AddressMap`, `VmmBase`, `VmmInvariants`, `VmmRefinement`, `VmmTheorems` | modelled, checked, proved while frames last |
| Kernel address space | `mm/vmm.cpp:521` | page-table builder, EFER | `Kernel` | modelled, checked |
| Boot sequence | `main.cpp` | all of the above | `Exceptions`, `Kernel` | modelled in two parts |
| Serial port | `arch/x86_64/serial.cpp` | UART | `Serial`, `SerialProofs` | modelled, checked, proved but for `LostOnlyToTimeouts` |
| Printing | `lib/print.cpp` | serial port | `Kprintf` | modelled, checked |
| `mem*` functions | `lib/string.cpp` | | `Mem`, `MemProofs` | modelled, checked, proved |
| Exceptions, descriptor tables | `arch/x86_64/{interrupts,idt,gdt}.cpp`, `isr.S` | serial port, printing | `Exceptions`, `ExceptionsProofs` | modelled but for the return path, checked, proved |

`PROJECT.json` lists the hazards of each part with their lines.

## Modules

**`Pmm`** has the static variables of `pmm.cpp` as its variables. The bitmap is a
function from words to the set of bits that are 1. `mm::init` is a state machine:
`phase` says which of its loops runs, `i` is the loop's index, and each action
(`scan_region`, `size_bitmap`, `place_bitmap`, `no_place`, `free_region`,
`reserve_bitmap`) is one iteration or the code between two loops. `alloc_frame` and
`free_frame` are one action each. Two variables are history: `ret`, the last result
of `alloc_frame`, and `held`, the frames callers have. Sums are naturals: physical
addresses stay below 2^52, so the code's 64-bit sums do not wrap. Two next-state
relations share the actions: `Next` (memory maps as the boot protocol promises them,
callers that free what they hold) and `NextMisuse` (usable regions merely disjoint,
callers that free any address at any time).

**`FrameAllocator`** is what the manager promises: a set of free frames and a set of
held ones; an allocation moves any one over, or returns 0 when there is none.

**`Paging`** has page-table entries, address decomposition, canonical addresses and,
as the CPU's part, the page walk and the rights it grants. Sizes are parameters;
walks always have four levels.

**`Vmm`** has memory as a function from frames to tables, so that tables are really
linked through frame numbers and a frame used twice is seen. Frames hold garbage until
zeroed. A mapping call is a sequence of steps: `enter_page` (the argument checks),
`ensure_table` once per level, `write_leaf`, and for the range forms the next page.
The small and the large form are one set of actions with the page size in `call.page`.
The allocator is the abstract one, taking the lowest frame (theorem `AllocTakesLowest`).
`allocate_table` compares with UINT64_MAX as the code does.

**`AddressMap`** is what the mapping functions promise: an address space is a set of
translations that grows by one small or one large page at a time.

**`Kernel`** composes the actions of `Vmm` with `kmain` and `build_kernel_address_space`.
The bootloader's answers and the linker's symbols are one record, `boot`; its memory map
is copied entry by entry into `regions`, kmain's array, with its types converted. The rest
of the code reads `regions`, the properties read `boot`. `mm::init` is abstracted to the set of frames it leaves free. A write to a page not mapped writable
leads to the handler's halt loop; `.text` not executable after the switch is a triple fault.

**`Serial`** has the driver and the 16550. The driver takes one step per port access and
per poll of the line status; between any two the device may shift a byte out and the
other end may send one. The device has its FIFOs, divisor latch and loopback, and may be
missing, in which case ports read 255. Histories record what the driver was asked to
send, what it gave the device, what reached the line, arrived and was read; they start
afresh when `init` clears the FIFOs.

**`Kprintf`** is the scanner and the digit loops of `kprintf`. An argument is a slot of
`LongBits` bits, of which a conversion to `int` reads the low ones. A call without `fmt`
stands for a null format.

**`Mem`** has the four memory functions over one memory of bytes, one byte per step, so
that areas really overlap. The loop variable is a `size_t` of `SizeT` values and wraps.

**`Exceptions`** has the descriptors and gates encoded as in the code, the words that the
CPU, the stub and `isr_common` push, the structure `isr_handler` reads them as, and the
dump line by line. An exception can come between the first calls of `kmain`, after them,
and between two lines of a dump. Each report carries, as history, what it ought to show.
The code does not limit exceptions within exceptions; the stack does, at `StackDepth`
activations of the handler. One more takes the state to `overrun`, where the model ends.
"Shown" and "reported" mean handed to the port: the characters that `putc` drops when the
device does not take them in time (`serial.cpp:133`) are in `Serial` only.

**`MCPmm`, `MCVmm`, `MCKernel`, `MCSerial`, `MCKprintf`, `MCMem`, `MCExceptions`** give the
constants values for TLC. `MCKprintf` puts formats together from tokens together with
what they mean, from a definition of numerals of its own.

Definitions whose name ends in a suffix (`FirstFree_Highest`) and whose comment says
"Mutant" are deliberately wrong variants; `PROJECT.json` pairs each with the property
that must fail when it takes the place of the definition it varies.

## Runs

| Run | What it asks | Answer |
|---|---|---|
| `pmm` | Is the allocator right on maps the protocol allows? | holds |
| `pmm_misuse` | Does its bookkeeping survive odd maps and wrong frees? | holds |
| `vmm` | Are tables trees, mappings as requested, rights the leaf's? Do calls end? | holds |
| `vmm_refines` | Do two spaces implement `AddressMap`, do mappings stay, does `translate` agree with the CPU? | holds |
| `vmm_no_memory` | Is a mapping never replaced, also when frames run out? | no, frame 0 becomes a table and is erased |
| `kernel` | Does the memory map fit its array? Is the space exact, what is printed before the switch as expected, the switch safe, the end the intended one? Do addresses survive decomposition? | holds |
| `kernel_frame_zero` | Is frame 0 never mapped, as `vmm.hpp` says? | no, the direct map maps it |
| `serial` | Does the port carry what it is given, whatever the device does? | holds |
| `kprintf` | Is what is printed what the format means, within the buffers? | holds |
| `kprintf_modifier` | Is an unknown conversion printed literally? | no, a format ending in `%l` is left behind |
| `mem` | Do the memory functions compute what they should, and return? | holds |
| `exceptions` | Is every vector handled, every dump true and complete, and does the machine halt while the stack lasts? | holds |

The runs that find a violation state what a comment of the code says; the findings in
`PROJECT.json` quote it. The cause of `vmm_no_memory` is that `allocate_table`
(`vmm.cpp:26`) expects UINT64_MAX from `alloc_frame`, which reports failure with 0. The
other runs give the page tables enough frames.

Some properties hold only under a condition that the code or its documentation does not
state. The runs check them under it; outside it the code does this:

* Without a free frame `create_address_space` takes frame 0 and returns true, though
  `vmm.hpp:272` says it returns false; and a boot that runs out of frames loads CR3 with
  wrong tables, since `kmain` prints what `translate` finds and compares nothing
  (`main.cpp:394` calls that verified). Same cause as `vmm_no_memory`.
* With a usable region that does not start on a frame boundary the last frame of the
  bitmap is not reserved; with frame 0 usable `alloc_frame` returns 0 for it while other
  frames are free. The boot protocol excludes the first.
* A byte that arrives between the clearing of the FIFOs (`serial.cpp:93`) and the loopback
  (line 102) is taken for the echo, and `init` gives up a device that works.
  `FailsOnlyOnNoise` says that nothing else makes a device that answers in time fail.
* An exception between `idt::init` and `set_sink`, or after a failed `serial::init`, halts
  without the report that the repository's README promises. That README also has the
  serial port come up before the IDT; `kmain` does it the other way round.

### Bounds

* `Pmm`: words of a few bits, pages of a few bytes, up to 9 frames. Maps then have
  several words, a partly used last word, bitmaps of more than one page, regions too
  small for the bitmap, and memory with none. `MaxFrames` names the bound.
* `Serial`: two polls, FIFOs of two bytes, three calls and two bytes from the other end.
  A wait then ends in time, at its last poll and too late; a FIFO fills; `init` runs again
  in every state an earlier call left. Rates include 0, one too high, and 1, whose divisor
  does not fit two bytes. The other end does not send the test byte 0xAE: in the window
  named above it would pass for the echo, and the echo would be read by `getc`.
* `Kprintf`: an `int` of 4 bits and a `long` of 8, with every value of both, buffers as
  tight as the assumption on them allows, and every pair of tokens.
* `Mem`: every pair of areas of a memory of five bytes, with a `size_t` of eight values.
* `Exceptions`: all 32 vectors, within their dumps an NMI or a page fault, within theirs a
  page fault; a stack for two dumps, so that the third exception uses it up. The size of
  the stack is a parameter of the system and not a bound of the model: no behaviour is cut
  off, and `ReportEnds` names its end as the one other outcome.
* `Vmm`: pages of 2 bytes and tables of 2 entries, so one page can share any number of
  levels with another, and ranges cross every kind of boundary: a table, the canonical
  hole, the top of the address space. Requests come from small sets that have each
  refusal of the code and each way to collide. 16 frames (11 for two spaces) are enough
  for every set of requests.
* `Kernel`: tables of 4 entries, so that direct map and kernel lie in different PML4
  entries as on the real machine; 24 frames. A boot is deterministic, the variety is in
  `Boots`: segment sizes, `.bss` ending in a page, a distant framebuffer, a memory map that
  just fits its array of 8 and one that does not, and one boot for each way to be refused.
  Each has frames for all its tables. The boot whose direct map reaches the kernel's
  addresses needs ten tables before it gets there and has fourteen frames. `missing` stands for an answer the bootloader did not give;
  the checks of the five answers are alike and two are enumerated.

### Deadlock and fairness

`Pmm`, `Kernel` and `Exceptions` may stop for good (the kernel halts), and `Serial` does
when its calls are used up, so their runs do not check deadlock. Fairness is weak, and
only on steps of code already running: `InitStep` in `Pmm`, `MapStep` in `Vmm`, `KNext` in
`Kernel`, `Driver` in `Serial`, `Step` in `Kprintf` and `Mem`, `Boot` and `isr_handler` in
`Exceptions`. The serial device owes the driver nothing: waits end by their bound. One CPU runs straight-line
code with interrupts off, so a step that can be taken is taken. Nothing obliges a caller
to make a call.

## Proofs

`PmmProofs` proves, for every page size, word size and set of memory maps that satisfies
the assumptions named in `Pmm`:

| Theorem | Statement |
|---|---|
| `TypeCorrect` | `Spec => []TypeOK` |
| `CountSurvivesMisuse` | `SpecMisuse => []FreeCountExact` |
| `PaddingSurvivesMisuse` | `SpecMisuse => []PaddingStaysUsed` |
| `BitmapAlwaysFits` | `SpecMisuse => []BitmapFits` |
| `FramesConserved` | `Spec => []FrameConservation` |
| `AllocTakesLowest` | `Spec => LowestFirst` |
| `PmmImplementsFrameAllocator` | `Spec => ImplementsFrameAllocator` |

Assumptions: `SizesAssumption` (sizes are positive), `MapsAssumption` (usable regions
are disjoint; for `Spec` also made of whole frames other than frame 0),
`AddressesAssumption` (addresses are naturals). The disjointness matters: frames of two
overlapping regions would be counted twice.

None of the properties is inductive. That `free_frame_count` is the number of zero bits
holds in the middle of phase 2 only because the frames of the regions still to come are
all used, and that needs disjoint regions and the sizes computed by earlier loops. `IInv`
therefore says, for each phase, what the loop has established up to index `i`: the
highest end seen while scanning, the sizes derived from it, the region that holds the
bitmap, the free frames being those of the regions already visited. `OwnInv` adds what
ownership needs: held and free frames are apart and together the usable frames without
the bitmap's. Each action has a lemma for each invariant. The lemmas below them are about
rounding division, the correspondence of frames with words and bits, what marking a set
of frames does to the free set, and that the lowest bit of the first word that has one is
the lowest free frame.

### The page tables

For every page size, table size, amount of memory, set of spaces and set of calls:

| Theorem | Module | Statement |
|---|---|---|
| `ReassembleAlwaysInverts` | `VmmBase` | `ReassembleInverts` |
| `TypeCorrect` | `VmmTheorems` | `Spec /\ []FramesLeft => []TypeOK` |
| `LeafAlwaysDecides` | `VmmTheorems` | `Spec /\ []FramesLeft => []LeafDecides` |
| `MappingsStay` | `VmmTheorems` | `Spec /\ []FramesLeft => NoReplace` |
| `AlwaysTrees` | `VmmTheorems` | `Spec /\ []FramesLeft => []TablesFormTrees` |
| `RefinesAddressMap` | `VmmTheorems` | `Spec /\ []FramesLeft => ImplementsAddressMap` |
| `AlwaysRequestMapped` | `VmmTheorems` | `Spec /\ []FramesLeft => []RequestMapped` |
| `TranslateAlwaysAgrees` | `VmmTheorems` | `Spec /\ []FramesLeft => []TranslateAgrees` |

`FramesLeft` says that the allocator has a frame. Without it `NoReplace` is false, as run
`vmm_no_memory` shows. The other assumptions are `PagingAssumption` (sizes), `VmmAssumption` (every
frame's address fits an entry, frame 0 is not handed out, memory starts with some entry) and
`ArgsAssumption` (the types of the arguments).

`VmmBase` has what the rest shares: the arithmetic of addresses, page walks as paths through
tables, the invariants, what each action does to the tables, and what a walk and `translate`
find in them. `VmmInvariants` shows that the invariants are inductive, `VmmRefinement` what
the steps do to translations; neither uses the other. Both speak of a step from a state in which the allocator's next frame is a
free one (`Allocates`); `VmmTheorems` shows that `FramesLeft` gives this, since a non-empty
set of frames has a least one, and draws the conclusions. The invariants build on each other:

* `IInv` gives levels to tables. Nothing in memory says which level a table has, and an
  entry of a PT may hold the address of any frame, a table's too; so it says that there *is*
  an assignment of levels to frames in which roots have level 1, links lead from an
  allocated table one level down to another and restrict neither writing nor execution
  (`LinksOK`), a table hangs from one link only (`OneLink`), and a link has `User` if
  anything below it has or the call now below it is going to (`UserOK`). The last two depend
  on each other: `ensure_table` widens the link it passes through, and were there a second
  link to the same table, that one would be left narrow. The three changes a walk makes are
  a new link, a wider link and a leaf; the first adds the new table to the assignment.
* `TInv` adds that spaces have different roots and that every allocated frame is reached
  from one. With `OneLink`, sending each link to its target is a bijection between the links
  and the tables that are no roots, which is the count in `TablesFormTrees`.
* `WInv` adds the call in progress. The shape says nothing of it; that the entry about to be
  written is the one for its page takes the way the walk has come: tables `t[1] .. t[level]`
  from the root of the space, each linked to the next by an index of the page (`Descent`).
  It also has that entries hold addresses of whole pages and that a call goes through its
  request in whole pages and not beyond its end.

From these, a walk that ends in a present entry is a path through tables of levels 1, 2, ...
whose entries but the last are links, so the last decides its rights. A step changes of a
present entry at most the flags of a link (`Keeps`), so a path stays, with the same last
entry, and nothing is replaced. For the refinement the converse is needed too: a path of the
new tables that is not one of the old ones ends in the entry just written, and by `OneLink`
it came down the way of the call (`PathBack`, `ChainsMeet`). Its pages are those that share
the indices of the call's page down to the leaf: one page, or the `kPageTableEntries` pages
of a large one (`LeafRuns`), which were unmapped before because the entry was absent
(`BlockWasFree`). `RequestMapped` follows page by page from the same lemmas, and `translate`
is compared with the paths level by level.

The products of parameters in this (indices that two addresses share, the pages below a large
entry) are out of the solver's reach at once; the lemmas of the first part of `VmmBase`
(`DivMod`, `DivUnique`, `Descend`, `SameBlock`, ...) do them one product at a time.

### The serial port

`SerialProofs`, for every number of polls, FIFO size, rate and text, and for everything the
device and the other end can do between two port accesses:

| Theorem | Statement |
|---|---|
| `AlwaysConfigured` | `Spec => []ReadyMeansConfigured` |
| `AlwaysRestored` | `Spec => []NormalStateRestored` |
| `AlwaysFairTest` | `Spec => []FailsOnlyOnNoise` |
| `AlwaysOutputFaithful` | `Spec /\ []NoFalseEcho => []OutputFaithful` |
| `AlwaysInputFaithful` | `Spec /\ []NoFalseEcho => []InputFaithful` |

`NoFalseEcho` says that no byte 0xAE came from the line between the clearing of the FIFOs and
the loopback. Without it such a byte passes for the echo and the true echo is left for
`getc`: the bound of the run named above is a condition of the theorem here.

The invariant `Inv` follows the nine port writes of `init`: which are left (`Programming`), in
which mode the device is after each (`Modes`), which registers have their value
(`Registers`), and what the receiver holds from the clearing of the FIFOs on (`Window`): what
came from the line before the loopback, behind it the test byte once it has gone round, if
there was room. `Polled` is what makes polling sound: what the driver saw in the line status
is still so at its next access, for only the driver fills the transmitter and empties the
receiver.

### Exceptions

`ExceptionsProofs`, for every error code, fault address and size of the stack, and so every
depth of exceptions within exceptions:

| Theorem | Statement |
|---|---|
| `VectorsAlwaysHandled` | `Spec => []AllVectorsHandled` |
| `ReportsAlwaysTrue` | `Spec => []ReportIsTrue` |
| `ReportsAlwaysComplete` | `Spec => []ReportIsComplete` |

The first rests on the encodings: both selectors name segments the CPU accepts, and the words
of each gate, put together, are the address of the stub of its own vector. The others rest on
`Stack`: what the CPU, the stub and `isr_common` push lies word for word as
`InterruptFrame` declares it, with an error code and without. The invariant `ReportInv` then
says that all reports, not only the innermost, are true so far, and what has been shown up to
which line. CR2 needs care: until the handler of a page fault has read it, the register itself
has to hold the address, and a second page fault in that window replaces it. It does no harm
because the handler never returns: the report it interrupted goes no further and shows no CR2
at all. So the invariant speaks of the register for the innermost report only (`Innermost`), and
no longer once the stack is used up, when the page fault that did it has replaced CR2.

### The memory functions

`MemProofs` proves `CopiesExact` (`Spec => CopyIsExact`, `memcpy` and `memmove`),
`SetsExact` (`Spec => SetIsExact`) and `ComparesExact` (`Spec => CompareIsExact`) for every
memory size and every overlap, from `MemAssumption`, which has the memory smaller than the
range of `size_t`; hence the index does not wrap (`NoWrap`). The invariant is `MemTypeOK`, the
bounds of the loop variable, and `Progress`: what each loop has done up to its index, bytes
not yet copied still being the old ones. For `memmove` downwards that is the part above the
index.

### Only model-checked

* Liveness: `InitTerminates`, `CallEnds`, `BootEnds`, `CallsEnd`, `PrintEnds`,
  `CallsReturn`, `ReportEnds`. The prover handles neither fairness nor `ENABLED`.
* `RegionsFit`, `SwitchVerified`, `KernelMapExact` and `SwitchSafe`. `Kernel` runs the actions of `Vmm` on a pool of frames that
  is only known once `init` has run, so the invariants of `Vmm`, which are about a constant
  pool, do not apply to it as they stand.
* `PrintsMeaning` and `BufferFits`: what the digit loops of `Kprintf` compute, and how many
  rounds they take, is an induction over numerals with powers of the base.
* `LostOnlyToTimeouts`: which characters are left of a text is stated with a recursive
  selection from a sequence.

## Not modelled

* Pixel values, wording and layout of messages, the names of exceptions, the TLB (the only
  CR3 load flushes it and no mapping is ever removed), the Accessed, Dirty and Global bits,
  caches, the bootloader's own page tables. `physical_to_virtual` is the identity on frames
  here: the code that builds tables reaches them through the bootloader's direct map, which
  covers usable memory.
* The return path of `isr_common` (`isr.S`): `isr_handler` does not return, so it is never
  reached.
* What happens past the end of the stack. No gate has a stack of its own (`idt.cpp:32`), so
  where the memory below cannot be written the machine resets, and where it can it is
  overwritten. The stack's size counts dumps, not bytes.
* `serial::write` with a null pointer.
* `Exceptions` together with `Kernel`: `Kernel` ends a fault in the handler's halt loop
  without going through the dump. Putting
  them together would multiply every state of the boot by the lines of a dump.
* `Kernel` over `Pmm` itself: `Kernel` starts from the set of frames `mm::init` leaves free
  and takes the lowest, which `FramesConserved` and `AllocTakesLowest` justify.
* The boot protocol header, the linker script and the host tests, which have no behaviour of
  the kernel's own.
