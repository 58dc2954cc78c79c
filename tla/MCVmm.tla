------------------------------- MODULE MCVmm -------------------------------
(***************************************************************************)
(* Small instances of Vmm: pages of 2 bytes, tables of 2 entries, so that  *)
(* every walk still has four levels.  Addresses run from 0 to 127: 0..15   *)
(* is the low half, 112..127 the high half, the rest is not canonical.     *)
(***************************************************************************)
EXTENDS Vmm

JunkEntry == [addr |-> 2, flags |-> {"Present", "Writable", "User"}]

P(v, p, f) == [virt |-> v, phys |-> p, flags |-> f]
R(v, p, z, f) == [virt |-> v, phys |-> p, size |-> z, flags |-> f]

\* One page per way to share tables with page 0, plus each refusal.
SomePages ==
    {P(0, 6, {"Writable", "NoExecute"}), P(2, 4, {"User"}),
     P(114, 6, {"User", "Writable"}),
     P(1, 6, {}), P(16, 6, {}), P(0, 3, {}), P(0, kPhysicalLimit, {}), P(0, 6, {"Huge"})}

SomeLarge ==
    {P(0, 4, {"Writable"}), P(4, 0, {"User", "NoExecute"}),
     P(2, 4, {}), P(4, 2, {}), P(32, 4, {}), P(4, kPhysicalLimit, {})}

\* Ranges that cross tables, start in the middle of what is mapped, run into
\* the hole between the halves, end at the top of the address space.
SomeRanges ==
    {R(2, 4, 6, {}), R(14, 2, 100, {}), R(124, 0, 2, {"User"}), R(126, 0, 2, {}),
     R(0, 0, 0, {}), R(0, 0, 3, {}), R(0, 126, 2, {}), R(12, 2, 8, {}), R(1, 0, 2, {})}

SomeLargeRanges ==
    {R(0, 0, 12, {"NoExecute"}), R(4, 4, 8, {"Writable"}), R(0, 0, 2, {}), R(124, 0, 4, {})}

\* Fewer requests, for two spaces.
FewPages == {P(0, 6, {"Writable", "NoExecute"}), P(2, 4, {"User"})}
FewLarge == {P(0, 4, {"Writable"})}
FewRanges == {R(2, 4, 4, {})}
FewLargeRanges == {R(0, 0, 8, {"NoExecute"})}

AllFrames == Frames \ {0}
=============================================================================
