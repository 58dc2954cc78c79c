--------------------------------- MODULE Vmm ---------------------------------
(***************************************************************************)
(* The page-table builder, src/src/mm/vmm.cpp: address spaces are four-    *)
(* level trees of tables, one frame each, in memory the physical memory    *)
(* manager hands out.                                                      *)
(*                                                                         *)
(* A call runs in steps: it enters a page (the checks of map_page or       *)
(* map_page_large), goes down one level at a time (ensure_table) and       *)
(* writes the leaf; the range forms then enter the next page.  A call that *)
(* fails keeps what its steps have done, as in the code.                   *)
(*                                                                         *)
(* The frame allocator is FrameAllocator, taking the lowest frame as Pmm   *)
(* does (PmmProofs, AllocTakesLowest).  Frames hold Garbage until they are *)
(* zeroed.                                                                 *)
(***************************************************************************)
EXTENDS Paging, FiniteSets, FiniteSetsExt

CONSTANTS
    Space,          \* the AddressSpace objects
    NumFrames,      \* frames of physical memory
    Pool,           \* frames the allocator can hand out
    Garbage,        \* an entry: what memory holds before it is zeroed
    PageArgs,       \* arguments of map_page, [virt, phys, flags]
    LargeArgs,      \* of map_page_large
    RangeArgs,      \* of map_range, [virt, phys, size, flags]
    LargeRangeArgs  \* of map_range_large

Frames == 0 .. NumFrames - 1

Entry == [addr : 0 .. kPhysicalLimit - 1, flags : SUBSET PageFlags]

\* The address field of an entry can hold the address of every frame.
ASSUME VmmAssumption ==
    /\ NumFrames \in Nat
    /\ NumFrames * kPageSize <= kPhysicalLimit
    /\ Pool \subseteq Frames \ {0}
    /\ Garbage \in Entry

ASSUME ArgsAssumption ==
    /\ PageArgs \cup LargeArgs \subseteq
          [virt : Nat, phys : Nat, flags : SUBSET PageFlags]
    /\ RangeArgs \cup LargeRangeArgs \subseteq
          [virt : Nat, phys : Nat, size : Nat, flags : SUBSET PageFlags]

NoTable == -1       \* nullptr

VARIABLES
    mem,        \* frame |-> the table it holds
    free,       \* frames the allocator has left
    pml4,       \* space |-> its root table, NoTable before it is created
    call,       \* the call in progress, or the last one and its outcome
    level,      \* the level the call is at in its current page, 0 before it
    at          \* the table of that level

vars == <<mem, free, pml4, call, level, at>>

NoCall == [status |-> "none"]

Init ==
    /\ mem = [f \in Frames |-> [ix \in Index |-> Garbage]]
    /\ free = Pool
    /\ pml4 = [s \in Space |-> NoTable]
    /\ call = NoCall
    /\ level = 0
    /\ at = NoTable

Idle == call.status # "running"

-----------------------------------------------------------------------------
(***************************************************************************)
(* Allocation                                                              *)
(***************************************************************************)

\* mm::alloc_frame: an address, 0 when no frame is left.
alloc_frame == IF free = {} THEN 0 ELSE Min(free) * kPageSize

ZeroTable == [ix \in Index |-> NoEntry]

\* allocate_table: it gives up if alloc_frame returned UINT64_MAX, and takes
\* any other answer for a frame, which it zeroes.
TableAllocated == alloc_frame # kUint64Max
NewTable == alloc_frame \div kPageSize

\* Mutant: the frame is used as it is.
WithNewTable_NotZeroed == mem

WithNewTable == [mem EXCEPT ![NewTable] = ZeroTable]

create_address_space(s) ==
    /\ Idle /\ pml4[s] = NoTable
    /\ IF TableAllocated
       THEN /\ mem' = WithNewTable
            /\ free' = free \ {NewTable}
            /\ pml4' = [pml4 EXCEPT ![s] = NewTable]
       ELSE UNCHANGED <<mem, free, pml4>>
    /\ call' = NoCall
    /\ UNCHANGED <<level, at>>

-----------------------------------------------------------------------------
(***************************************************************************)
(* Calls of the mapping functions                                          *)
(***************************************************************************)
Start(s, page, a, size) ==
    call' = [space |-> s, page |-> page, virt |-> a.virt, phys |-> a.phys,
             size |-> size, flags |-> a.flags, done |-> 0, status |-> "running"]

\* A call returns.  One that mapped nothing leaves no trace.
Return(status) ==
    /\ call' = IF call.done = 0 THEN NoCall ELSE [call EXCEPT !.status = status]
    /\ level' = 0
    /\ at' = NoTable

\* map_page and map_page_large.
CallPage(s, page, a) ==
    /\ Idle
    /\ Start(s, page, a, page)
    /\ UNCHANGED <<mem, free, pml4, level, at>>

\* What map_range and map_range_large check before their loop.
RangeOK(s, page, a) ==
    /\ pml4[s] # NoTable
    /\ a.size # 0
    /\ a.virt % page = 0 /\ a.phys % page = 0 /\ a.size % page = 0
    /\ a.virt <= kUint64Max - a.size
    /\ a.phys <= kUint64Max - a.size
    /\ is_canonical(a.virt) /\ is_canonical(a.virt + a.size - 1)

CallRange(s, page, a) ==
    /\ Idle
    /\ IF RangeOK(s, page, a) THEN Start(s, page, a, a.size) ELSE call' = NoCall
    /\ UNCHANGED <<mem, free, pml4, level, at>>

-----------------------------------------------------------------------------
(***************************************************************************)
(* The steps of map_page and map_page_large                                *)
(***************************************************************************)
virt == call.virt + call.done

\* Mutant: every page of a range gets the first frame.
phys_SameForAll == call.phys

phys == call.phys + call.done

LeafLevel == IF call.page = kPageSize THEN 4 ELSE 3

\* Mutant: a null PML4 is not refused.
PageOK_NoNullCheck ==
    /\ is_canonical(virt)
    /\ virt % call.page = 0
    /\ phys % call.page = 0
    /\ phys < kPhysicalLimit
    /\ call.page = kPageSize => "Huge" \notin call.flags

\* The checks of the arguments.
PageOK ==
    /\ pml4[call.space] # NoTable
    /\ is_canonical(virt)
    /\ virt % call.page = 0
    /\ phys % call.page = 0
    /\ phys < kPhysicalLimit
    /\ call.page = kPageSize => "Huge" \notin call.flags

\* Mutant: a page that is refused does not end the call.
enter_page_NoReturn ==
    /\ call.status = "running" /\ level = 0
    /\ IF PageOK
       THEN level' = 1 /\ at' = pml4[call.space] /\ UNCHANGED call
       ELSE UNCHANGED <<call, level, at>>
    /\ UNCHANGED <<mem, free, pml4>>

enter_page ==
    /\ call.status = "running" /\ level = 0
    /\ IF PageOK
       THEN level' = 1 /\ at' = pml4[call.space] /\ UNCHANGED call
       ELSE Return("fail")
    /\ UNCHANGED <<mem, free, pml4>>

\* Mutant: User is left to the leaf.
intermediate_flags_NoUser == {"Present", "Writable"}

intermediate_flags == {"Present", "Writable"} \cup (call.flags \cap {"User"})

\* The entry the walk is at.
slot == IndexAt(level, virt)
entry == mem[at][slot]

\* Goes to the table below, creating it if there is none.
ensure_table ==
    /\ call.status = "running" /\ level \in 1 .. LeafLevel - 1
    /\ \/ /\ IsHuge(entry) \/ (~ IsPresent(entry) /\ ~ TableAllocated)
          /\ Return("fail")
          /\ UNCHANGED <<mem, free>>
       \/ /\ ~ IsHuge(entry) /\ ~ IsPresent(entry) /\ TableAllocated
          /\ mem' = [WithNewTable EXCEPT ![at][slot] =
                        make_page_entry(NewTable * kPageSize, intermediate_flags)]
          /\ free' = free \ {NewTable}
          /\ at' = NewTable
          /\ level' = level + 1
          /\ UNCHANGED call
       \/ /\ ~ IsHuge(entry) /\ IsPresent(entry)
          /\ mem' = [mem EXCEPT ![at][slot].flags = @ \cup intermediate_flags]
          /\ at' = entry.addr \div kPageSize
          /\ level' = level + 1
          /\ UNCHANGED <<free, call>>
    /\ UNCHANGED pml4

LeafFlags ==
    call.flags \cup {"Present"} \cup (IF call.page = kPageSize THEN {} ELSE {"Huge"})

\* Mutant: a leaf that is there is overwritten.
write_leaf_Replaces ==
    /\ call.status = "running" /\ level = LeafLevel
    /\ LET done == call.done + call.page
       IN  /\ mem' = [mem EXCEPT ![at][slot] = make_page_entry(phys, LeafFlags)]
           /\ call' = [call EXCEPT !.done = done,
                          !.status = IF done < call.size THEN "running" ELSE "ok"]
           /\ level' = 0
           /\ at' = NoTable
    /\ UNCHANGED <<free, pml4>>

\* Writes the leaf unless one is there; a range goes on with its next page.
write_leaf ==
    /\ call.status = "running" /\ level = LeafLevel
    /\ IF IsPresent(entry)
       THEN Return("fail") /\ UNCHANGED mem
       ELSE LET done == call.done + call.page
            IN  /\ mem' = [mem EXCEPT ![at][slot] = make_page_entry(phys, LeafFlags)]
                /\ call' = [call EXCEPT !.done = done,
                               !.status = IF done < call.size THEN "running" ELSE "ok"]
                /\ level' = 0
                /\ at' = NoTable
    /\ UNCHANGED <<free, pml4>>

MapStep == enter_page \/ ensure_table \/ write_leaf

Next ==
    \/ MapStep
    \/ \E s \in Space :
          \/ create_address_space(s)
          \/ \E a \in PageArgs : CallPage(s, kPageSize, a)
          \/ \E a \in LargeArgs : CallPage(s, kLargePageSize, a)
          \/ \E a \in RangeArgs : CallRange(s, kPageSize, a)
          \/ \E a \in LargeRangeArgs : CallRange(s, kLargePageSize, a)

\* A call, once made, runs to its end.
Spec == Init /\ [][Next]_vars /\ WF_vars(MapStep)

\* Mutant: the offset in a large page is cut to that of a small one.
PageOffset_Small(n, address) == address % kPageSize

\* The bits of an address below an entry of level n.
PageOffset(n, address) == address % Span[n]

\* 0 for an address that is not mapped.
translate(s, address) ==
    LET e(table, n) == mem[table][IndexAt(n, address)]
        pml4_entry == e(pml4[s], 1)
        pdpt_entry == e(pml4_entry.addr \div kPageSize, 2)
        pd_entry == e(pdpt_entry.addr \div kPageSize, 3)
        pt_entry == e(pd_entry.addr \div kPageSize, 4)
    IN  IF pml4[s] = NoTable \/ ~ is_canonical(address) THEN 0
        ELSE IF ~ IsPresent(pml4_entry) THEN 0
        ELSE IF ~ IsPresent(pdpt_entry) THEN 0
        ELSE IF IsHuge(pdpt_entry) THEN pdpt_entry.addr + PageOffset(2, address)
        ELSE IF ~ IsPresent(pd_entry) THEN 0
        ELSE IF IsHuge(pd_entry) THEN pd_entry.addr + PageOffset(3, address)
        ELSE IF ~ IsPresent(pt_entry) THEN 0
        ELSE pt_entry.addr + PageOffset(4, address)

-----------------------------------------------------------------------------
(***************************************************************************)
(* Properties                                                              *)
(***************************************************************************)
\* Tables hold entries, and spaces have their root in a frame that was
\* allocated for it.
TypeOK ==
    /\ mem \in [Frames -> [Index -> Entry]]
    /\ free \subseteq Pool
    /\ pml4 \in [Space -> (Pool \ free) \cup {NoTable}]
    /\ call.status \in {"none", "running", "ok", "fail"}
    /\ level \in 0 .. 4
    /\ at \in IF level = 0 THEN {NoTable} ELSE Pool \ free

WalkOf(s, page) == Walk(mem, pml4[s], page * kPageSize)

\* The walks of a space that reach a leaf, each with its page.
Walks(s) ==
    {w \in {[page |-> page, path |-> WalkOf(s, page)] : page \in IF pml4[s] = NoTable THEN {} ELSE Page} :
        IsPresent(LeafOf(w.path))}

\* What the CPU sees of an address space: the mapped pages, with frame and rights.
Translations(s) ==
    {[page |-> w.page,
      frame |-> (LeafOf(w.path).addr + ((w.page * kPageSize) % Span[Len(w.path)])) \div kPageSize,
      rights |-> Rights(w.path)] : w \in Walks(s)}

\* The tables a level below a set of tables, and the entries that lead there.
Links(tables) ==
    {l \in tables \X Index : IsPresent(mem[l[1]][l[2]]) /\ ~ IsHuge(mem[l[1]][l[2]])}

Below(tables) == {mem[l[1]][l[2]].addr \div kPageSize : l \in Links(tables)}

\* The tables of all spaces are trees: each allocated frame is a root or is
\* reached through exactly one entry, at one level; none is free, none is
\* lost, whatever calls failed after ensure_table had allocated.
TablesFormTrees ==
    LET roots == {pml4[s] : s \in {r \in Space : pml4[r] # NoTable}}
        pdpts == Below(roots)
        pds == Below(pdpts)
        pts == Below(pds)
    IN  /\ \A s, r \in Space : pml4[s] = pml4[r] /\ pml4[s] # NoTable => s = r
        /\ roots \cup pdpts \cup pds \cup pts = Pool \ free
        /\ Cardinality(roots) + Cardinality(Links(roots \cup pdpts \cup pds))
              = Cardinality(Pool \ free)

\* "The leaf is what decides" (vmm.hpp): the rights of a mapped page are those
\* of its last entry, however calls with other flags have shared and widened
\* the entries above it.
LeafDecides ==
    \A s \in Space : \A w \in Walks(s) : Rights(w.path) = RightsOf(LeafOf(w.path).flags)

\* A request is fulfilled as far as the call has come: every page below done
\* has the frame and the rights asked for, after success all of them; a range
\* that failed keeps what it had mapped.
RequestMapped ==
    call # NoCall =>
        /\ call.status = "ok" => call.done = call.size
        /\ {[page |-> (call.virt + offset) \div kPageSize,
             frame |-> (call.phys + offset) \div kPageSize,
             rights |-> RightsOf(call.flags)]
              : offset \in {o \in 0 .. call.done - 1 : o % kPageSize = 0}}
           \subseteq Translations(call.space)

\* "Every function refuses to replace an existing mapping" (vmm.hpp): a page
\* that is mapped keeps its frame and its rights through every step.
NoReplace == [][\A s \in Space : Translations(s) \subseteq Translations(s)']_vars

\* translate, the walk in software that the boot code prints its checks from,
\* finds for every address what the CPU would: the byte of the frame, for small
\* and large pages, or 0 where nothing is mapped.
TranslateAgrees ==
    \A s \in Space :
        LET mapped == Translations(s)
        IN  \A page \in 0 .. kUint64Max \div kPageSize :
                LET frames == {t.frame : t \in {u \in mapped : u.page = page}}
                IN  \A byte \in 0 .. kPageSize - 1 :
                        translate(s, page * kPageSize + byte) \in
                            IF frames = {} THEN {0} ELSE {f * kPageSize + byte : f \in frames}

\* A call ends, also one for a range that runs into what cannot be mapped.
CallEnds == (call.status = "running") ~> Idle

Abstract == INSTANCE AddressMap WITH
    kLargePages <- kPageTableEntries,
    map <- [s \in Space |-> Translations(s)]

\* The tables implement AddressMap: seen through page walks, a step maps one
\* small page or one large page that was unmapped, in one space, with frames
\* in order and one set of rights, or changes nothing.
ImplementsAddressMap == Abstract!ASpec
=============================================================================
