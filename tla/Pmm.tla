--------------------------------- MODULE Pmm ---------------------------------
(***************************************************************************)
(* The physical memory manager, src/src/mm/pmm.cpp: a bitmap with one bit  *)
(* per physical frame, stored inside the memory it describes.              *)
(*                                                                         *)
(* mm::init runs its loops one region at a time; each iteration is an      *)
(* action, so what the loops establish is an invariant of the steps.       *)
(* alloc_frame and free_frame are single actions: the kernel has one CPU   *)
(* thread and no interrupt handler that allocates.                         *)
(*                                                                         *)
(* Addresses and lengths are naturals.  The code's uint64_t sums do not    *)
(* wrap on them, since x86-64 physical addresses stay below 2^52.          *)
(***************************************************************************)
EXTENDS Integers, Sequences, FiniteSets, FiniteSetsExt

CONSTANTS
    kPageSize,      \* bytes in a frame (4096)
    kWordBits,      \* frames described by one bitmap word (64)
    kWordBytes,     \* sizeof(uint64_t)
    MemoryMaps,     \* memory maps that keep the boot protocol's promises
    RawMaps,        \* memory maps that only keep usable regions disjoint
    Addresses       \* what an undisciplined caller passes to free_frame

RegionType == {"Usable", "Reserved", "AcpiReclaimable", "AcpiNvs", "Bad",
               "BootloaderReclaimable", "KernelAndModules", "Framebuffer"}

MemoryRegion == [base : Nat, length : Nat, type : RegionType]

EndOf(region) == region.base + region.length
IsUsable(region) == region.type = "Usable"

\* Usable regions of a well-formed map share no byte.
WellFormedMap(m) ==
    /\ m \in Seq(MemoryRegion)
    /\ \A i, j \in DOMAIN m :
          (i # j /\ IsUsable(m[i]) /\ IsUsable(m[j])) =>
             (EndOf(m[i]) <= m[j].base \/ EndOf(m[j]) <= m[i].base)

\* What pmm.cpp relies on and does not check: usable regions are made of
\* whole frames and leave out frame 0, whose address is alloc_frame's
\* failure value.
LimineMap(m) ==
    /\ WellFormedMap(m)
    /\ \A i \in DOMAIN m : IsUsable(m[i]) =>
          /\ m[i].base % kPageSize = 0
          /\ m[i].length % kPageSize = 0
          /\ m[i].base # 0

ASSUME SizesAssumption ==
    /\ kPageSize \in Nat \ {0}
    /\ kWordBits \in Nat \ {0}
    /\ kWordBytes \in Nat \ {0}

ASSUME MapsAssumption ==
    /\ \A m \in MemoryMaps : LimineMap(m)
    /\ \A m \in RawMaps : WellFormedMap(m)

ASSUME AddressesAssumption == Addresses \subseteq Nat

VARIABLES
    phase,              \* how far mm::init has come, or "halted"
    regions,            \* init's argument
    i,                  \* the loop index of the current loop of init
    highest_usable_end,
    frame_count,
    bitmap_words,
    bitmap_phys,
    bitmap,             \* word |-> set of its bits that are 1 (used)
    free_frame_count,
    ret,                \* what alloc_frame last returned, NotCalled before
    held                \* history: frames handed to callers, not freed since

vars == <<phase, regions, i, highest_usable_end, frame_count, bitmap_words,
          bitmap_phys, bitmap, free_frame_count, ret, held>>

sizes == <<frame_count, bitmap_words>>
callers == <<ret, held>>

NotCalled == -1

CeilDiv(a, b) == (a + b - 1) \div b

bitmap_bytes == bitmap_words * kWordBytes
bitmap_pages == CeilDiv(bitmap_bytes, kPageSize)
frame_valid(f) == f < frame_count

(***************************************************************************)
(* The bitmap.  set_frame_used and set_frame_free act on a set of frames:  *)
(* the loops of init apply them to each frame of a region in turn.         *)
(***************************************************************************)
BitsOf(w, frames) == {f % kWordBits : f \in {g \in frames : g \div kWordBits = w}}

set_frame_used(frames) == [w \in DOMAIN bitmap |-> bitmap[w] \cup BitsOf(w, frames)]
set_frame_free(frames) == [w \in DOMAIN bitmap |-> bitmap[w] \ BitsOf(w, frames)]

IsUsed(f) == (f % kWordBits) \in bitmap[f \div kWordBits]

FreeFrames == {f \in 0 .. frame_count - 1 : ~ IsUsed(f)}

AllOnes == 0 .. kWordBits - 1

Init ==
    /\ phase = "off"
    /\ regions = <<>>
    /\ i = 0
    /\ highest_usable_end = 0
    /\ frame_count = 0
    /\ bitmap_words = 0
    /\ bitmap_phys = 0
    /\ bitmap = << >>
    /\ free_frame_count = 0
    /\ ret = NotCalled
    /\ held = {}

-----------------------------------------------------------------------------
(***************************************************************************)
(* mm::init                                                                *)
(***************************************************************************)
init(m) ==
    /\ phase = "off"
    /\ phase' = "scan"
    /\ regions' = m
    /\ i' = 1
    /\ UNCHANGED <<highest_usable_end, sizes, bitmap_phys, bitmap,
                   free_frame_count, callers>>

\* One region of the loop that finds the highest usable address.
scan_region ==
    /\ phase = "scan" /\ i <= Len(regions)
    /\ highest_usable_end' =
          IF IsUsable(regions[i]) /\ EndOf(regions[i]) > highest_usable_end
          THEN EndOf(regions[i]) ELSE highest_usable_end
    /\ i' = i + 1
    /\ UNCHANGED <<phase, regions, sizes, bitmap_phys, bitmap,
                   free_frame_count, callers>>

\* After the scan: halt without usable memory, else size the bitmap.
size_bitmap ==
    /\ phase = "scan" /\ i > Len(regions)
    /\ IF highest_usable_end = 0
       THEN phase' = "halted" /\ UNCHANGED <<i, sizes>>
       ELSE /\ phase' = "place"
            /\ i' = 1
            /\ frame_count' = CeilDiv(highest_usable_end, kPageSize)
            /\ bitmap_words' = CeilDiv(frame_count', kWordBits)
    /\ UNCHANGED <<regions, highest_usable_end, bitmap_phys, bitmap,
                   free_frame_count, callers>>

\* Mutant: the size is compared in pages instead of bytes.
HoldsBitmap_InPages(region) == IsUsable(region) /\ region.length >= bitmap_pages

HoldsBitmap(region) ==
    IsUsable(region) /\ region.length >= bitmap_pages * kPageSize

\* Mutants: the search does not move on; phase 1 leaves padding bits 0.
place_bitmap_Stuck ==
    /\ phase = "place" /\ i <= Len(regions)
    /\ IF HoldsBitmap(regions[i])
       THEN /\ phase' = "free"
            /\ i' = 1
            /\ bitmap_phys' = regions[i].base
            /\ bitmap' = [w \in 0 .. bitmap_words - 1 |-> AllOnes]
            /\ free_frame_count' = 0
       ELSE UNCHANGED <<i, phase, bitmap_phys, bitmap, free_frame_count>>
    /\ UNCHANGED <<regions, highest_usable_end, sizes, callers>>

place_bitmap_NoPadding ==
    /\ phase = "place" /\ i <= Len(regions) /\ HoldsBitmap(regions[i])
    /\ phase' = "free"
    /\ i' = 1
    /\ bitmap_phys' = regions[i].base
    /\ bitmap' = [w \in 0 .. bitmap_words - 1 |->
                     {b \in AllOnes : frame_valid(w * kWordBits + b)}]
    /\ free_frame_count' = 0
    /\ UNCHANGED <<regions, highest_usable_end, sizes, callers>>

\* One region of the search for the bitmap's storage.  The first that is
\* large enough ends the loop; phase 1 then marks every frame used.
place_bitmap ==
    /\ phase = "place" /\ i <= Len(regions)
    /\ IF HoldsBitmap(regions[i])
       THEN /\ phase' = "free"
            /\ i' = 1
            /\ bitmap_phys' = regions[i].base
            /\ bitmap' = [w \in 0 .. bitmap_words - 1 |-> AllOnes]
            /\ free_frame_count' = 0
       ELSE /\ i' = i + 1
            /\ UNCHANGED <<phase, bitmap_phys, bitmap, free_frame_count>>
    /\ UNCHANGED <<regions, highest_usable_end, sizes, callers>>

no_place ==
    /\ phase = "place" /\ i > Len(regions)
    /\ phase' = "halted"
    /\ UNCHANGED <<regions, i, highest_usable_end, sizes, bitmap_phys, bitmap,
                   free_frame_count, callers>>

\* The frames that lie wholly inside a region: its base rounded up, its end
\* rounded down.
WholeFrames(region) ==
    CeilDiv(region.base, kPageSize) .. (EndOf(region) \div kPageSize) - 1

\* Phase 2, one region.
free_region ==
    /\ phase = "free" /\ i <= Len(regions)
    /\ IF IsUsable(regions[i])
       THEN LET frames == {f \in WholeFrames(regions[i]) : frame_valid(f)}
            IN  /\ bitmap' = set_frame_free(frames)
                /\ free_frame_count' = free_frame_count + Cardinality(frames)
       ELSE UNCHANGED <<bitmap, free_frame_count>>
    /\ i' = i + 1
    /\ UNCHANGED <<phase, regions, highest_usable_end, sizes, bitmap_phys, callers>>

\* Mutant: the number of bitmap pages is rounded down.
BitmapFrames_RoundedDown ==
    LET first == bitmap_phys \div kPageSize
    IN  first .. first + (bitmap_bytes \div kPageSize) - 1

BitmapFrames ==
    LET first == bitmap_phys \div kPageSize
    IN  first .. first + bitmap_pages - 1

\* Phase 3: the frames of the bitmap itself are used.
reserve_bitmap ==
    /\ phase = "free" /\ i > Len(regions)
    /\ LET frames == {f \in BitmapFrames : frame_valid(f)}
       IN  /\ bitmap' = set_frame_used(frames)
           /\ free_frame_count' =
                 free_frame_count - Cardinality({f \in frames : ~ IsUsed(f)})
    /\ phase' = "ready"
    /\ UNCHANGED <<regions, i, highest_usable_end, sizes, bitmap_phys, callers>>

InitStep == \/ scan_region \/ size_bitmap
            \/ place_bitmap \/ no_place
            \/ free_region \/ reserve_bitmap

-----------------------------------------------------------------------------
(***************************************************************************)
(* alloc_frame: in each word that is not all ones, take the lowest zero    *)
(* bit; skip the word when that bit is padding past frame_count.           *)
(***************************************************************************)
\* Mutant: the highest zero bit instead of the lowest.
FirstFree_Highest(w) == w * kWordBits + Max(AllOnes \ bitmap[w])

FirstFree(w) == w * kWordBits + Min(AllOnes \ bitmap[w])

\* Mutant: the loop stops before the last word.
Candidates_AllButLast ==
    {w \in 0 .. bitmap_words - 2 : bitmap[w] # AllOnes /\ frame_valid(FirstFree(w))}

Candidates == {w \in 0 .. bitmap_words - 1 :
                  bitmap[w] # AllOnes /\ frame_valid(FirstFree(w))}

\* Mutant: the count is decremented before it is known that a frame is free.
alloc_frame_CountsFailure ==
    /\ phase = "ready"
    /\ IF Candidates = {}
       THEN ret' = 0 /\ UNCHANGED <<bitmap, held>>
       ELSE LET frame == FirstFree(Min(Candidates))
            IN  /\ bitmap' = set_frame_used({frame})
                /\ ret' = frame * kPageSize
                /\ held' = IF frame = 0 THEN held ELSE held \cup {frame}
    /\ free_frame_count' = free_frame_count - 1
    /\ UNCHANGED <<phase, regions, i, highest_usable_end, sizes, bitmap_phys>>

alloc_frame ==
    /\ phase = "ready"
    /\ IF Candidates = {}
       THEN ret' = 0 /\ UNCHANGED <<bitmap, free_frame_count, held>>
       ELSE LET frame == FirstFree(Min(Candidates))
            IN  /\ bitmap' = set_frame_used({frame})
                /\ free_frame_count' = free_frame_count - 1
                /\ ret' = frame * kPageSize
                \* A caller takes 0 for failure and holds nothing.
                /\ held' = IF frame = 0 THEN held ELSE held \cup {frame}
    /\ UNCHANGED <<phase, regions, i, highest_usable_end, sizes, bitmap_phys>>

\* Mutant: a double free is not refused.
free_frame_NoDoubleFreeCheck(address) ==
    LET frame == address \div kPageSize
    IN  /\ phase = "ready" /\ address % kPageSize = 0 /\ frame_valid(frame)
        /\ bitmap' = set_frame_free({frame})
        /\ free_frame_count' = free_frame_count + 1
        /\ held' = held \ {frame}
        /\ UNCHANGED <<phase, regions, i, highest_usable_end, sizes, bitmap_phys, ret>>

(***************************************************************************)
(* free_frame refuses a misaligned address, a frame past the end and a     *)
(* frame that is already free.                                             *)
(***************************************************************************)
free_frame(address) ==
    LET frame == address \div kPageSize
        accepted == /\ address % kPageSize = 0
                    /\ frame_valid(frame)
                    /\ IsUsed(frame)
    IN  /\ phase = "ready"
        /\ IF accepted
           THEN /\ bitmap' = set_frame_free({frame})
                /\ free_frame_count' = free_frame_count + 1
                /\ held' = held \ {frame}
           ELSE UNCHANGED <<bitmap, free_frame_count, held>>
        /\ UNCHANGED <<phase, regions, i, highest_usable_end, sizes,
                       bitmap_phys, ret>>

-----------------------------------------------------------------------------
FreeHeld == \E f \in held : free_frame(f * kPageSize)
FreeAny == \E a \in Addresses : free_frame(a)

\* The kernel: a map that keeps the protocol, callers that free what they hold.
Next == (\E m \in MemoryMaps : init(m)) \/ InitStep \/ alloc_frame \/ FreeHeld

\* Any map, and callers that free any address at any time.
NextMisuse ==
    (\E m \in MemoryMaps \cup RawMaps : init(m)) \/ InitStep \/ alloc_frame \/ FreeAny

\* init is straight-line code: once called it keeps running.
Spec == Init /\ [][Next]_vars /\ WF_vars(InitStep)
SpecMisuse == Init /\ [][NextMisuse]_vars

-----------------------------------------------------------------------------
(***************************************************************************)
(* Properties                                                              *)
(***************************************************************************)
Built == phase \in {"free", "ready"}

\* Every variable of pmm.cpp keeps its type; in particular free_frame_count,
\* a uint64_t, is never decremented below 0, and the bitmap has exactly the
\* words it was sized for.
TypeOK ==
    /\ phase \in {"off", "scan", "place", "free", "ready", "halted"}
    /\ regions \in Seq(MemoryRegion)
    /\ i \in Nat
    /\ highest_usable_end \in Nat
    /\ frame_count \in Nat
    /\ bitmap_words \in Nat
    /\ bitmap_phys \in Nat
    /\ bitmap \in IF Built THEN [0 .. bitmap_words - 1 -> SUBSET AllOnes] ELSE {<< >>}
    /\ free_frame_count \in Nat
    /\ ret \in Nat \cup {NotCalled}
    /\ held \subseteq 0 .. frame_count - 1

\* Frames every byte of which is usable, read off the map itself.
UsableFrames ==
    UNION {{f \in 0 .. EndOf(regions[j]) :
               /\ regions[j].base <= f * kPageSize
               /\ (f + 1) * kPageSize <= EndOf(regions[j])} :
           j \in {k \in DOMAIN regions : IsUsable(regions[k])}}

\* Frames that hold a byte of the bitmap.
StorageFrames ==
    {f \in 0 .. bitmap_phys + bitmap_bytes :
        /\ f * kPageSize < bitmap_phys + bitmap_bytes
        /\ bitmap_phys < (f + 1) * kPageSize}

\* Once init is done, every usable frame outside the bitmap is in exactly one
\* place, free in the bitmap or held by the caller alloc_frame returned it
\* to, and no other frame is in either: nothing is lost, shared or invented
\* by any sequence of alloc_frame and free_frame calls.
FrameConservation ==
    phase = "ready" =>
        /\ held \cap FreeFrames = {}
        /\ held \cup FreeFrames = UsableFrames \ StorageFrames

\* The running count that init, alloc_frame and free_frame keep apart from the
\* bitmap is the number of zero bits below frame_count, whatever is freed.
FreeCountExact == Built => free_frame_count = Cardinality(FreeFrames)

\* The padding bits of the last bitmap word, past frame_count, stay 1 under
\* every call: alloc_frame's test of frame_valid never hides a free frame.
PaddingStaysUsed ==
    Built => \A w \in DOMAIN bitmap, b \in AllOnes :
                w * kWordBits + b >= frame_count => b \in bitmap[w]

\* The storage init chose for the bitmap lies inside one usable region, and
\* the bitmap has a bit for every frame of every usable region.
BitmapFits ==
    Built =>
        /\ \E j \in DOMAIN regions :
              /\ IsUsable(regions[j])
              /\ regions[j].base <= bitmap_phys
              /\ bitmap_phys + bitmap_bytes <= EndOf(regions[j])
        /\ UsableFrames \subseteq 0 .. frame_count - 1
        /\ frame_count <= bitmap_words * kWordBits

\* alloc_frame takes the lowest free frame: the search by words, then by the
\* lowest zero bit of a word, agrees with a search of the frames one by one.
LowestFirst ==
    [][held' \subseteq held \/ held' = held \cup {Min(FreeFrames)}]_vars

\* init, once called, hands over a working allocator or halts.
InitTerminates == (phase = "scan") ~> (phase \in {"ready", "halted"})

Abstract == INSTANCE FrameAllocator WITH
    PageSize <- kPageSize,
    up <- phase = "ready",
    free <- IF phase = "ready" THEN FreeFrames ELSE {}

\* The bitmap allocator implements the abstract allocator of FrameAllocator:
\* every step of pmm.cpp is one of its steps or changes nothing it shows.
ImplementsFrameAllocator == Abstract!ASpec
=============================================================================
