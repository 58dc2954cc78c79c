---------------------------- MODULE FrameAllocator ----------------------------
(***************************************************************************)
(* What the physical memory manager promises its callers, with no bitmap:  *)
(* once it is up it owns a set of frames, gives each to at most one caller *)
(* at a time, and reports failure (address 0) only when it has none left.  *)
(* Pmm is shown to implement this specification.                           *)
(***************************************************************************)
EXTENDS Integers

CONSTANT PageSize

VARIABLES up, free, held, ret

avars == <<up, free, held, ret>>

\* Frame 0 cannot be told from failure, so it is not a frame to hand out.
Frame == Nat \ {0}

AInit == ~ up /\ free = {} /\ held = {} /\ ret = -1

Start ==
    /\ ~ up /\ up'
    /\ free' \subseteq Frame
    /\ UNCHANGED <<held, ret>>

Alloc ==
    /\ up
    /\ \E f \in free :
          /\ free' = free \ {f}
          /\ held' = held \cup {f}
          /\ ret' = f * PageSize
    /\ UNCHANGED up

AllocFail ==
    /\ up /\ free = {}
    /\ ret' = 0
    /\ UNCHANGED <<up, free, held>>

Free ==
    /\ up
    /\ \E f \in held :
          /\ held' = held \ {f}
          /\ free' = free \cup {f}
    /\ UNCHANGED <<up, ret>>

ANext == Start \/ Alloc \/ AllocFail \/ Free

ASpec == AInit /\ [][ANext]_avars
=============================================================================
