-------------------------------- MODULE Kernel --------------------------------
(***************************************************************************)
(* Boot, from kmain in src/src/main.cpp to the intentional page fault at   *)
(* its end: the bootloader's answers are checked, the physical memory      *)
(* manager is set up, build_kernel_address_space (src/src/mm/vmm.cpp) maps *)
(* the direct map and the kernel's segments with the calls of Vmm, CR3 is  *)
(* loaded and the framebuffer drawn.                                       *)
(*                                                                         *)
(* The state of Vmm is the state of the page tables.  The bitmap of Pmm is *)
(* abstracted to the set of free frames, as in FrameAllocator.             *)
(***************************************************************************)
EXTENDS Vmm

CONSTANTS
    Boots,          \* what the bootloader may answer, and the linker's layout
    kMaxRegions,    \* entries of the regions array, 64
    BitmapPages     \* frames the bitmap of the physical memory manager takes

VARIABLES
    boot,       \* one of Boots
    pc,         \* where kmain is
    regions,    \* the entries of kmain's regions array written so far
    next,       \* the range build_kernel_address_space maps next
    nxe,        \* EFER.NXE, which the bootloader may or may not have set
    cr3         \* the root table the CPU walks, NoTable while it is the bootloader's

kvars == <<boot, pc, regions, next, nxe, cr3>>
allVars == <<vars, kvars>>

\* The region types of the boot protocol and their names in the kernel.
RegionType ==
    [LIMINE_MEMMAP_USABLE |-> "Usable",
     LIMINE_MEMMAP_RESERVED |-> "Reserved",
     LIMINE_MEMMAP_ACPI_RECLAIMABLE |-> "AcpiReclaimable",
     LIMINE_MEMMAP_ACPI_NVS |-> "AcpiNvs",
     LIMINE_MEMMAP_BAD_MEMORY |-> "Bad",
     LIMINE_MEMMAP_BOOTLOADER_RECLAIMABLE |-> "BootloaderReclaimable",
     LIMINE_MEMMAP_KERNEL_AND_MODULES |-> "KernelAndModules",
     LIMINE_MEMMAP_FRAMEBUFFER |-> "Framebuffer"]

U64(n) == n % (kUint64Max + 1)

Regions(type) == {r \in Range(regions) : r.type = type}

\* The whole frames of a region: its start is rounded up, its end down.
FramesOf(r) ==
    ((r.base + kPageSize - 1) \div kPageSize) .. ((r.base + r.length) \div kPageSize - 1)

\* The one address space kmain builds.
space == CHOOSE s \in Space : TRUE

-----------------------------------------------------------------------------
KInit ==
    /\ mem = [f \in Frames |-> [ix \in Index |-> Garbage]]
    /\ free = {}
    /\ pml4 = [s \in Space |-> NoTable]
    /\ call = NoCall /\ level = 0 /\ at = NoTable
    /\ boot \in Boots
    /\ pc = "start"
    /\ regions = <<>>
    /\ next = 1
    /\ nxe \in BOOLEAN
    /\ cr3 = NoTable

\* Mutant: one entry more than the array holds is let through.
check_responses_OneMore ==
    /\ pc = "start"
    /\ pc' = IF boot.missing = {} /\ Len(boot.memmap) <= kMaxRegions + 1
             THEN "copy" ELSE "halted"
    /\ UNCHANGED <<vars, boot, regions, next, nxe, cr3>>

\* Every check of the bootloader's answers that fails halts the machine.
check_responses ==
    /\ pc = "start"
    /\ pc' = IF boot.missing = {} /\ Len(boot.memmap) <= kMaxRegions
             THEN "copy" ELSE "halted"
    /\ UNCHANGED <<vars, boot, regions, next, nxe, cr3>>

\* One entry of the memory map; a type the kernel does not know halts it halfway.
copy_region ==
    LET region == boot.memmap[Len(regions) + 1]
    IN  /\ pc = "copy" /\ Len(regions) < Len(boot.memmap)
        /\ IF region.type \in DOMAIN RegionType
           THEN /\ regions' = Append(regions, [region EXCEPT !.type = RegionType[@]])
                /\ UNCHANGED pc
           ELSE pc' = "halted" /\ UNCHANGED regions
        /\ UNCHANGED <<vars, boot, next, nxe, cr3>>

\* The image has to lie in a region of its type.
verify_base ==
    /\ pc = "copy" /\ Len(regions) = Len(boot.memmap)
    /\ pc' = IF \E r \in Regions("KernelAndModules") :
                   boot.physical_base \in r.base .. U64(r.base + r.length) - 1
             THEN "init" ELSE "halted"
    /\ UNCHANGED <<vars, boot, regions, next, nxe, cr3>>

\* The regions that can hold the bitmap; it goes to the start of the first.
BitmapRegions ==
    {n \in DOMAIN regions : /\ regions[n].type = "Usable"
                            /\ regions[n].length >= BitmapPages * kPageSize}
bitmap_phys == regions[Min(BitmapRegions)].base

\* mm::init: the frames of usable regions become free, but for the bitmap's.
init ==
    LET first == bitmap_phys \div kPageSize
    IN  /\ pc = "init"
        /\ IF BitmapRegions = {}
           THEN pc' = "halted" /\ UNCHANGED free
           ELSE /\ pc' = "build"
                /\ free' = UNION {FramesOf(r) : r \in Regions("Usable")}
                           \ (first .. first + BitmapPages - 1)
        /\ UNCHANGED <<mem, pml4, call, level, at, boot, regions, next, nxe, cr3>>

-----------------------------------------------------------------------------
(***************************************************************************)
(* build_kernel_address_space                                              *)
(***************************************************************************)
align_up(value, alignment) ==
    LET sum == U64(value + alignment - 1) IN sum - (sum % alignment)

\* The end of the memory map, gaps and all region types included.
highest == Max({0} \cup {U64(r.base + r.length) : r \in Range(regions)})

\* Sets EFER.NXE unless it is set.
enable_nx == nxe' = TRUE

\* Mutant: EFER.NXE is left as it is.
create_NoNX ==
    /\ pc = "build"
    /\ IF regions = <<>> \/ boot.hhdm_offset % kLargePageSize # 0
       THEN pc' = "halted" /\ UNCHANGED vars
       ELSE /\ create_address_space(space)
            /\ pc' = IF TableAllocated /\ highest # 0 THEN "map" ELSE "halted"
    /\ UNCHANGED <<boot, regions, next, nxe, cr3>>

create ==
    /\ pc = "build"
    /\ IF regions = <<>> \/ boot.hhdm_offset % kLargePageSize # 0
       THEN pc' = "halted" /\ UNCHANGED <<vars, nxe>>
       ELSE /\ enable_nx
            /\ create_address_space(space)
            /\ pc' = IF TableAllocated /\ highest # 0 THEN "map" ELSE "halted"
    /\ UNCHANGED <<boot, regions, next, cr3>>

\* Mutant: the direct map is executable.
direct_map_Executable ==
    [page |-> kLargePageSize, virt |-> boot.hhdm_offset, phys |-> 0,
     size |-> align_up(highest, kLargePageSize), flags |-> {"Writable"}]

direct_map ==
    [page |-> kLargePageSize, virt |-> boot.hhdm_offset, phys |-> 0,
     size |-> align_up(highest, kLargePageSize), flags |-> {"Writable", "NoExecute"}]

\* Mutant: the image is taken to lie in the direct map.
map_segment_Direct(start, end, flags) ==
    [page |-> kPageSize, virt |-> start, phys |-> U64(start - boot.hhdm_offset),
     size |-> U64(end - start), flags |-> flags]

map_segment(start, end, flags) ==
    [page |-> kPageSize, virt |-> start,
     phys |-> U64(start - boot.virtual_base + boot.physical_base),
     size |-> U64(end - start), flags |-> flags]

\* The ranges, in the order they are mapped.
Ranges ==
    <<direct_map,
      map_segment(boot.image_start, boot.text_start, {"NoExecute"}),
      map_segment(boot.text_start, boot.rodata_start, {}),
      map_segment(boot.rodata_start, boot.data_start, {"NoExecute"}),
      map_segment(boot.data_start, align_up(boot.data_end, kPageSize), {"Writable", "NoExecute"})>>

\* Whether the last mapping call, if there was one, succeeded.
LastMapped == next = 1 \/ call.status = "ok"

map_next ==
    /\ pc = "map" /\ Idle /\ LastMapped
    /\ next <= Len(Ranges)
    /\ CallRange(space, Ranges[next].page, Ranges[next])
    /\ next' = next + 1
    /\ UNCHANGED <<boot, pc, regions, nxe, cr3>>

map_failed ==
    /\ pc = "map" /\ Idle /\ ~ LastMapped
    /\ pc' = "halted"
    /\ UNCHANGED <<vars, boot, regions, next, nxe, cr3>>

map_step == MapStep /\ UNCHANGED kvars

-----------------------------------------------------------------------------
(***************************************************************************)
(* The switch, and what kmain does after it                                *)
(***************************************************************************)

PagesOf(address, size) == (address \div kPageSize) .. ((address + size - 1) \div kPageSize)

\* What the CPU lets the kernel do under its own tables.
CanWrite(page) == \E t \in Translations(space) : t.page = page /\ t.rights.write
CanExecute(page) == \E t \in Translations(space) : t.page = page /\ t.rights.exec

\* kmain prints what translate finds for five addresses, and goes on.  If the
\* code is not there under the new tables, neither is the handler of the fault.
load_address_space ==
    /\ pc = "map" /\ Idle /\ LastMapped /\ next > Len(Ranges)
    /\ cr3' = pml4[space]
    /\ pc' = IF \A page \in PagesOf(boot.text_start, boot.rodata_start - boot.text_start) :
                    CanExecute(page)
             THEN "draw" ELSE "triple fault"
    /\ UNCHANGED <<vars, boot, regions, next, nxe>>

\* Mutant: the loop draws one row too many.
draw_RowTooMany ==
    /\ pc = "draw"
    /\ pc' = IF \A page \in PagesOf(boot.fb.address, boot.fb.size + 1) : CanWrite(page)
             THEN "test" ELSE "drawing faulted"
    /\ UNCHANGED <<vars, boot, regions, next, nxe, cr3>>

\* A write to a page that is not mapped writable faults, and isr_handler halts.
draw ==
    /\ pc = "draw"
    /\ pc' = IF \A page \in PagesOf(boot.fb.address, boot.fb.size) : CanWrite(page)
             THEN "test" ELSE "drawing faulted"
    /\ UNCHANGED <<vars, boot, regions, next, nxe, cr3>>

null_write ==
    /\ pc = "test"
    /\ pc' = IF CanWrite(0) THEN "end" ELSE "test faulted"
    /\ UNCHANGED <<vars, boot, regions, next, nxe, cr3>>

KNext ==
    \/ check_responses \/ copy_region \/ verify_base \/ init
    \/ create \/ map_next \/ map_failed \/ map_step
    \/ load_address_space \/ draw \/ null_write

KSpec == KInit /\ [][KNext]_allVars /\ WF_allVars(KNext)

-----------------------------------------------------------------------------
(***************************************************************************)
(* Properties                                                              *)
(***************************************************************************)
\* The regions of a type in the memory map, as the bootloader gave it.
Described(type) == {r \in Range(boot.memmap) : r.type = type}
LargePageOf(address) == address \div kLargePageSize

\* Frames of the large pages that lie below the end of some region.
DirectFrames ==
    {f \in 0 .. kPhysicalLimit \div kPageSize - 1 :
        \E r \in Range(boot.memmap) :
            r.length > 0 /\ LargePageOf(f * kPageSize) <= LargePageOf(r.base + r.length - 1)}

KernelPages == PagesOf(boot.image_start, boot.data_end - boot.image_start)

\* kmain writes no entry past the end of its array of regions, whatever the length of
\* the memory map, and sets up memory only from a copy that holds all of the map.
RegionsFit ==
    /\ Len(regions) <= kMaxRegions
    /\ pc \notin {"start", "copy", "halted"} =>
          {[base |-> r.base, length |-> r.length] : r \in Range(regions)}
          = {[base |-> r.base, length |-> r.length] : r \in Range(boot.memmap)}

\* "Every mapping the switch depends on is verified here first": kmain prints five
\* translations with the values it expects, compares none, and loads CR3.  With
\* memory enough for the tables, all five are as expected whenever it does.
SwitchVerified ==
    LET loaded == {boot.image_start, boot.text_start, boot.data_start}
    IN  cr3 # NoTable =>
            /\ translate(space, boot.hhdm_offset + kPageSize) = kPageSize
            /\ translate(space, boot.fb.address) = boot.fb.address - boot.hhdm_offset
            /\ \A v \in loaded :
                  translate(space, v) = v - boot.virtual_base + boot.physical_base

\* What build_kernel_address_space leaves, when kmain loads CR3 after it: the direct map
\* with every frame the memory map spans, writable and not executable; each page
\* of the image at its place in the loaded image, .text alone executable, .data
\* and .bss alone writable; and nothing else.
KernelMapExact ==
    cr3 # NoTable =>
        Translations(space) =
            {[page |-> boot.hhdm_offset \div kPageSize + f, frame |-> f,
              rights |-> [write |-> TRUE, user |-> FALSE, exec |-> FALSE]] : f \in DirectFrames}
            \cup
            {[page |-> p,
              frame |-> p - ((boot.virtual_base - boot.physical_base) \div kPageSize),
              rights |-> [write |-> p * kPageSize >= boot.data_start,
                          user |-> FALSE,
                          exec |-> p * kPageSize \in boot.text_start .. boot.rodata_start - 1]] :
                p \in KernelPages}

\* The frames of the tables the CPU walks.
TableFrames ==
    LET root == {pml4[space]} IN root \cup Below(root) \cup Below(Below(root))
                                   \cup Below(Below(Below(root)))

\* What load_address_space requires (vmm.hpp): once CR3 is loaded, the kernel
\* still reaches its stack, in the bootloader's memory, and every page table,
\* through the direct map; every table lies in memory the bootloader calls usable
\* and apart from the bitmap; and NoExecute is no longer a reserved bit.
SwitchSafe ==
    LET stack == Described("LIMINE_MEMMAP_BOOTLOADER_RECLAIMABLE")
        usable == Described("LIMINE_MEMMAP_USABLE")
        bitmap == PagesOf(bitmap_phys, BitmapPages * kPageSize)
    IN  cr3 # NoTable =>
            /\ nxe
            /\ \A f \in TableFrames \cup UNION {PagesOf(r.base, r.length) : r \in stack} :
                  CanWrite(boot.hhdm_offset \div kPageSize + f)
            /\ TableFrames \subseteq UNION {FramesOf(r) : r \in usable} \ bitmap

\* A boot ends halted before the switch or, if all is well, in the fault that
\* kmain provokes at its end; drawing never faults and the null write always does.
BootEnds == <>[](pc = "test faulted" \/ (pc = "halted" /\ cr3 = NoTable))

\* "Nothing maps physical frame 0" (vmm.hpp), which is why translate may answer
\* 0 for an address that is not mapped.
NothingMapsFrameZero == \A t \in Translations(space) : t.frame # 0
=============================================================================
