------------------------------ MODULE AddressMap ------------------------------
(***************************************************************************)
(* What the mapping functions promise, with no tables: an address space is *)
(* a set of translations, each of one page to a frame with rights.  It     *)
(* starts empty and only grows, by a small or a large page at a time.      *)
(***************************************************************************)
EXTENDS Integers

CONSTANTS Space,
          kLargePages       \* small pages in a large one

VARIABLE map        \* space |-> its translations, [page, frame, rights]

AInit == map = [s \in Space |-> {}]

\* Pages that were not mapped become mapped: one page, or an aligned run of
\* kLargePages onto an aligned run of frames, all with the same rights.
Extend(before, after) ==
    LET new == after \ before
    IN  /\ before \subseteq after
        /\ \A n \in new, b \in before : n.page # b.page
        /\ \E first \in new, count \in {1, kLargePages} :
              /\ first.page % count = 0 /\ first.frame % count = 0
              /\ new = {[first EXCEPT !.page = @ + k, !.frame = @ + k] : k \in 0 .. count - 1}

ANext ==
    \E s \in Space :
        /\ Extend(map[s], map'[s])
        /\ \A r \in Space \ {s} : map'[r] = map[r]

ASpec == AInit /\ [][ANext]_map
=============================================================================
