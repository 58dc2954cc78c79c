------------------------------ MODULE MCKernel ------------------------------
(***************************************************************************)
(* Small machines for Kernel: pages of 2 bytes, tables of 4 entries, large *)
(* pages of 8 bytes.  The high half is 1792..2047; as on the real machine  *)
(* the direct map starts it and the kernel lies in its last PML4 entry.    *)
(***************************************************************************)
EXTENDS Kernel

JunkEntry == [addr |-> 2, flags |-> {"Present", "Writable", "User"}]

Region(base, end, type) == [base |-> base, length |-> end - base, type |-> type]

\* Frame 0 reserved, usable memory up to a limit, the image (six frames), the
\* bootloader's memory with the stack, the framebuffer.
MemMap(usable, fb) ==
    <<Region(0, 2, "LIMINE_MEMMAP_RESERVED"), Region(2, usable, "LIMINE_MEMMAP_USABLE"),
      Region(20, 32, "LIMINE_MEMMAP_KERNEL_AND_MODULES"),
      Region(32, 36, "LIMINE_MEMMAP_BOOTLOADER_RECLAIMABLE"),
      Region(fb, fb + 4, "LIMINE_MEMMAP_FRAMEBUFFER")>>

\* The same with one-frame regions of other types up to n entries.
Padded(n) ==
    LET types == <<"LIMINE_MEMMAP_ACPI_RECLAIMABLE", "LIMINE_MEMMAP_ACPI_NVS",
                   "LIMINE_MEMMAP_BAD_MEMORY", "LIMINE_MEMMAP_RESERVED">>
    IN  MemMap(20, 36) \o [k \in 1 .. n - 5 |-> Region(38 + 2 * k, 40 + 2 * k, types[k])]

\* A machine with an image of the given segment starts.
Machine(map, fb, starts, data_end) ==
    [missing |-> {}, memmap |-> map, hhdm_offset |-> 1792,
     fb |-> [address |-> 1792 + fb, size |-> 4],
     virtual_base |-> 1984, physical_base |-> 20,
     image_start |-> 1984, text_start |-> 1984 + starts[1],
     rodata_start |-> 1984 + starts[2], data_start |-> 1984 + starts[3],
     data_end |-> 1984 + data_end]

\* A framebuffer so far up that the direct map reaches the kernel's addresses, with
\* frames enough for all of its tables.
Colliding ==
    Machine(Append(MemMap(20, 196), Region(36, 48, "LIMINE_MEMMAP_USABLE")), 196, <<2, 4, 6>>, 12)

Good == Machine(MemMap(20, 36), 36, <<2, 4, 6>>, 12)

\* Images whose segments share page tables in different ways, .bss that ends
\* inside a page, a framebuffer far above memory, a map that fills the array.
GoodBoots ==
    {[Good EXCEPT !.memmap = Padded(kMaxRegions)]} \cup
    {Machine(MemMap(20, fb), fb, starts, data_end) :
        fb \in {36, 48}, starts \in {<<2, 4, 6>>, <<2, 8, 10>>, <<4, 6, 8>>}, data_end \in {11, 12}}

\* Answers that stop the boot, one entry too many among them, and memory that reaches
\* up to the kernel.
BadBoots ==
    {[Good EXCEPT !.missing = {m}] : m \in {"framebuffer", "memmap"}}
    \cup {[Good EXCEPT !.hhdm_offset = 1794],
          [Good EXCEPT !.physical_base = 32],
          [Good EXCEPT !.memmap = Padded(kMaxRegions + 1)],
          [Good EXCEPT !.memmap[3].type = "LIMINE_MEMMAP_UNKNOWN"],
          [Good EXCEPT !.memmap[2].type = "LIMINE_MEMMAP_BAD_MEMORY"],
          [Good EXCEPT !.text_start = Good.image_start],
          Colliding}

AllBoots == GoodBoots \cup BadBoots
=============================================================================
