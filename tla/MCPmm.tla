------------------------------- MODULE MCPmm -------------------------------
(***************************************************************************)
(* Small machines for Pmm: frames of 4 bytes, bitmap words of 2 bits that  *)
(* take 2 bytes.  A memory of 5 frames or more then has a bitmap of two    *)
(* frames, and one with an odd number of frames has a padding bit.         *)
(***************************************************************************)
EXTENDS Pmm

CONSTANT MaxFrames      \* bound: frames of the largest memory

Region(first, end, t) ==
    [base |-> first * kPageSize, length |-> (end - first) * kPageSize, type |-> t]

\* Two usable regions, adjacent, apart or empty, listed in either order.
AlignedMaps ==
    LET cuts == {c \in [1 .. 4 -> 1 .. MaxFrames] :
                    c[1] <= c[2] /\ c[2] <= c[3] /\ c[3] <= c[4]}
    IN  {<<Region(0, 1, "Reserved"), Region(c[1], c[2], "Usable"),
           Region(c[2], c[3], "KernelAndModules"), Region(c[3], c[4], "Usable")>> :
            c \in cuts}
        \cup
        {<<Region(c[3], c[4], "Usable"), Region(c[1], c[2], "Usable")>> : c \in cuts}

Bytes(first, end) == [base |-> first, length |-> end - first, type |-> "Usable"]

\* Maps that break one promise of LimineMap: bounds inside a frame, or a
\* usable frame 0.
UnalignedMaps ==
    {<<Bytes(a, b)>> : a \in 4 .. 7, b \in 14 .. 19}
    \cup {<<Bytes(4, b), Bytes(b, 19)>> : b \in 5 .. 8}

FrameZeroMaps ==
    {<<Bytes(0, 4), Bytes(8, 20)>>, <<Bytes(8, 20), Bytes(0, 4)>>, <<Bytes(0, 20)>>}

OddMaps == UnalignedMaps \cup FrameZeroMaps

AnyAddress == 0 .. (MaxFrames + 1) * kPageSize
=============================================================================
