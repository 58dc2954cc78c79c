------------------------------- MODULE Paging -------------------------------
(***************************************************************************)
(* x86-64 page-table entries and virtual addresses, src/src/mm/vmm.hpp.    *)
(*                                                                         *)
(* The widths are parameters: a table has kPageTableEntries entries (512), *)
(* a page kPageSize bytes (4096), and the address bits above the four      *)
(* levels take kUpperValues values (2^16).  An address is a natural below  *)
(* the size of uint64_t, an entry a record of its address field and the    *)
(* set of its flag bits.                                                   *)
(***************************************************************************)
EXTENDS Integers, Sequences

CONSTANTS kPageSize, kPageTableEntries, kUpperValues,
          kPhysicalLimit      \* 2^52: the first address the entry's field cannot hold

ASSUME PagingAssumption ==
    /\ kPageSize \in Nat \ {0}
    /\ kPageTableEntries \in Nat /\ kPageTableEntries > 1 /\ kPageTableEntries % 2 = 0
    /\ kUpperValues \in Nat /\ kUpperValues > 1
    /\ kPhysicalLimit \in Nat

PageFlags == {"Present", "Writable", "User", "Huge", "NoExecute"}

Index == 0 .. kPageTableEntries - 1

\* Bytes of address space below one entry of the PML4, PDPT, PD and PT.
Span == <<kPageSize * kPageTableEntries * kPageTableEntries * kPageTableEntries,
          kPageSize * kPageTableEntries * kPageTableEntries,
          kPageSize * kPageTableEntries,
          kPageSize>>

kLargePageSize == Span[3]

\* Addresses below the PML4, and all addresses a uint64_t holds.
LowSize == Span[1] * kPageTableEntries
kUint64Max == LowSize * kUpperValues - 1

\* The index of an address at a level.
IndexAt(level, address) == (address \div Span[level]) % kPageTableEntries

decompose_address(address) ==
    [index |-> [n \in 1 .. 4 |-> IndexAt(n, address)], offset |-> address % kPageSize]

LowAddress(parts) ==
    parts.index[1] * Span[1] + parts.index[2] * Span[2] + parts.index[3] * Span[3]
        + parts.index[4] * Span[4] + parts.offset

\* Mutant: the sign is not extended.
reassemble_address_Low(parts) == LowAddress(parts)

\* The bits above the four levels are copies of the highest bit below them.
reassemble_address(parts) ==
    LET result == LowAddress(parts)
    IN  IF (result \div (LowSize \div 2)) % 2 = 1
        THEN result + (kUpperValues - 1) * LowSize
        ELSE result

is_canonical(address) ==
    LET upper == address \div LowSize
        sign == (address \div (LowSize \div 2)) % 2
    IN  IF sign = 0 THEN upper = 0 ELSE upper = kUpperValues - 1

\* Virtual pages, by number; no walk starts from any other.
Page == {page \in 0 .. ((kUint64Max + 1) \div kPageSize) - 1 : is_canonical(page * kPageSize)}

\* The address bits of an entry outside its address field are cut off.
make_page_entry(physical_address, flags) ==
    [addr |-> (physical_address - (physical_address % kPageSize)) % kPhysicalLimit,
     flags |-> flags]

NoEntry == [addr |-> 0, flags |-> {}]

IsPresent(entry) == "Present" \in entry.flags
IsHuge(entry) == "Huge" \in entry.flags

\* The entries a page walk from table t reads for an address: it goes on from
\* a present entry that is not a large page.  mem maps frames to tables.
Walk(mem, t, address) ==
    LET at(table, level) == mem[table][IndexAt(level, address)]
        next(entry) == entry.addr \div kPageSize
        goesOn(entry) == IsPresent(entry) /\ ~ IsHuge(entry)
        e1 == at(t, 1)
        e2 == at(next(e1), 2)
        e3 == at(next(e2), 3)
        e4 == at(next(e3), 4)
    IN  IF ~ IsPresent(e1) THEN <<e1>>
        ELSE IF ~ goesOn(e2) THEN <<e1, e2>>
        ELSE IF ~ goesOn(e3) THEN <<e1, e2, e3>>
        ELSE <<e1, e2, e3, e4>>

\* The entry a walk ends at.
LeafOf(walk) == walk[Len(walk)]

\* The rights the CPU grants through a walk, the intersection of all levels,
\* and the rights that flags ask for.
Rights(walk) ==
    [write |-> \A n \in DOMAIN walk : "Writable" \in walk[n].flags,
     user  |-> \A n \in DOMAIN walk : "User" \in walk[n].flags,
     exec  |-> \A n \in DOMAIN walk : "NoExecute" \notin walk[n].flags]

RightsOf(flags) == Rights(<<[addr |-> 0, flags |-> flags]>>)

-----------------------------------------------------------------------------
\* decompose_address and reassemble_address lose nothing of a canonical address,
\* and is_canonical accepts exactly the addresses that survive the two: what goes
\* through indices, as every walk does, comes back as a canonical address.
ReassembleInverts ==
    \A address \in 0 .. kUint64Max :
        LET back == reassemble_address(decompose_address(address))
        IN  is_canonical(back) /\ (is_canonical(address) <=> back = address)
=============================================================================
