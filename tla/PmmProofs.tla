------------------------------ MODULE PmmProofs ------------------------------
(***************************************************************************)
(* Proofs about Pmm, for every page size, word size and set of memory maps *)
(* that satisfy the assumptions of module Pmm.                             *)
(***************************************************************************)
EXTENDS Pmm, FiniteSetTheorems, WellFoundedInduction, TLAPS

-----------------------------------------------------------------------------
(***************************************************************************)
(* Arithmetic of frames and words                                          *)
(***************************************************************************)

\* Division by a positive number rounds down.
LEMMA DivBounds ==
    ASSUME NEW a \in Nat, NEW p \in Nat \ {0}
    PROVE  /\ a \div p \in Nat
           /\ (a \div p) * p <= a
           /\ a < (a \div p) * p + p
OBVIOUS

\* CeilDiv rounds up: f is at least a / p exactly when f * p is at least a.
LEMMA CeilDivBound ==
    ASSUME NEW a \in Nat, NEW p \in Nat \ {0}
    PROVE  /\ CeilDiv(a, p) \in Nat
           /\ \A f \in Nat : CeilDiv(a, p) <= f <=> a <= f * p
BY DivBounds DEF CeilDiv

\* f is below the quotient exactly when frame f ends by a.
LEMMA FloorDivBound ==
    ASSUME NEW a \in Nat, NEW p \in Nat \ {0}
    PROVE  \A f \in Nat : f < a \div p <=> (f + 1) * p <= a
BY DivBounds

\* A frame is recovered from the word and the bit that describe it.
LEMMA WordAndBit ==
    ASSUME NEW f \in Nat
    PROVE  /\ f \div kWordBits \in Nat
           /\ f % kWordBits \in AllOnes
           /\ f = (f \div kWordBits) * kWordBits + (f % kWordBits)
BY SizesAssumption, DivBounds DEF AllOnes

\* Bit b of word w describes frame w * kWordBits + b.
LEMMA FrameOfBit ==
    ASSUME NEW w \in Nat, NEW b \in AllOnes
    PROVE  /\ w * kWordBits + b \in Nat
           /\ (w * kWordBits + b) \div kWordBits = w
           /\ (w * kWordBits + b) % kWordBits = b
BY SizesAssumption, DivBounds DEF AllOnes

\* The minimum of a non-empty set of naturals is its least element.
LEMMA NatMin ==
    ASSUME NEW S \in SUBSET Nat, S # {}
    PROVE  /\ Min(S) \in S
           /\ \A y \in S : Min(S) <= y
<1> DEFINE R == OpToRel(<, Nat)
<1>1. IsWellFoundedOn(R, Nat)
  BY NatLessThanWellFounded
<1>2. \A x, y \in Nat : y < x => <<y, x>> \in R
  BY DEF OpToRel
<1> HIDE DEF R
<1>3. PICK x \in S : \A y \in S : ~ (<<y, x>> \in R)
  BY <1>1, WFMin
<1>4. \A y \in S : x <= y
  <2> SUFFICES ASSUME NEW y \in S PROVE ~ (y < x)
    OBVIOUS
  <2>1. y < x => <<y, x>> \in R
    BY <1>2
  <2> QED BY <1>3, <2>1
<1> QED BY <1>4 DEF Min

\* Cardinalities of disjoint unions and of differences of finite sets.
LEMMA CardinalityOfUnion ==
    ASSUME NEW S, NEW T, IsFiniteSet(S), IsFiniteSet(T), S \cap T = {}
    PROVE  /\ Cardinality(S) \in Nat /\ Cardinality(T) \in Nat
           /\ Cardinality(S \cup T) = Cardinality(S) + Cardinality(T)
<1>1. Cardinality(S) \in Nat /\ Cardinality(T) \in Nat
  BY FS_CardinalityType
<1>2. Cardinality(S \cup T) = Cardinality(S) + Cardinality(T) - Cardinality(S \cap T)
  BY FS_Union
<1>3. Cardinality(S \cap T) = 0
  BY FS_EmptySet
<1> QED BY <1>1, <1>2, <1>3

\* The size of a difference of finite sets.
LEMMA CardinalityOfDifference ==
    ASSUME NEW S, NEW T, IsFiniteSet(S)
    PROVE  /\ Cardinality(S) \in Nat
           /\ Cardinality(S \ T) \in Nat
           /\ Cardinality(S \ T) = Cardinality(S) - Cardinality(S \cap T)
<1>1. IsFiniteSet(S \cap T) /\ IsFiniteSet(S \ T)
  BY FS_Subset
<1>2. S = (S \ T) \cup (S \cap T) /\ (S \ T) \cap (S \cap T) = {}
  OBVIOUS
<1>3. Cardinality(S) = Cardinality(S \ T) + Cardinality(S \cap T)
  BY <1>1, <1>2, CardinalityOfUnion
<1> QED BY <1>1, <1>3, FS_CardinalityType

-----------------------------------------------------------------------------
(***************************************************************************)
(* The bitmap                                                              *)
(***************************************************************************)

\* What the bitmap operations need to know of the state: its shape, and that
\* it has a bit for every frame.
BitmapOK ==
    /\ frame_count \in Nat
    /\ bitmap_words \in Nat
    /\ frame_count <= bitmap_words * kWordBits
    /\ bitmap \in [0 .. bitmap_words - 1 -> SUBSET AllOnes]

\* With a bit for each of count frames, every frame has its word.
LEMMA FrameInWords ==
    ASSUME NEW count \in Nat, NEW words \in Nat, count <= words * kWordBits,
           NEW f \in 0 .. count - 1
    PROVE  f \in Nat /\ f \div kWordBits \in 0 .. words - 1
<1> DEFINE q == f \div kWordBits
<1>1. f \in Nat /\ f < words * kWordBits
  BY SizesAssumption
<1>2. q \in Nat /\ q * kWordBits <= f
  BY <1>1, SizesAssumption, DivBounds
<1> HIDE DEF q
<1>3. ASSUME words <= q PROVE FALSE
  <2>1. words * kWordBits <= q * kWordBits
    BY <1>2, <1>3, SizesAssumption
  <2> QED BY <1>1, <1>2, <2>1, SizesAssumption
<1>4. q \in 0 .. words - 1
  BY <1>2, <1>3
<1> QED BY <1>1, <1>4 DEF q

\* Every frame below frame_count has its word in the bitmap.
LEMMA FrameInBitmap ==
    ASSUME BitmapOK, NEW f \in 0 .. frame_count - 1
    PROVE  f \div kWordBits \in 0 .. bitmap_words - 1
BY FrameInWords DEF BitmapOK

\* The bits of a set of frames in the word of f hold the bit of f exactly
\* when f is one of the frames.
LEMMA BitsOfFrame ==
    ASSUME NEW S \in SUBSET Nat, NEW f \in Nat
    PROVE  (f % kWordBits) \in BitsOf(f \div kWordBits, S) <=> f \in S
<1>1. ASSUME NEW g \in S, g \div kWordBits = f \div kWordBits,
             f % kWordBits = g % kWordBits
      PROVE  g = f
  BY <1>1, WordAndBit
<1> QED BY <1>1 DEF BitsOf

\* Every bit a set of frames sets is a bit of a word.
LEMMA BitsOfType ==
    ASSUME NEW S \in SUBSET Nat, NEW w
    PROVE  BitsOf(w, S) \subseteq AllOnes
BY WordAndBit DEF BitsOf

\* set_frame_used takes exactly the given frames out of the free ones.
LEMMA MarkUsed ==
    ASSUME BitmapOK, NEW S \in SUBSET (0 .. frame_count - 1),
           bitmap' = set_frame_used(S), UNCHANGED sizes
    PROVE  /\ BitmapOK'
           /\ FreeFrames' = FreeFrames \ S
           /\ PaddingStaysUsed /\ Built => PaddingStaysUsed'
<1>0. S \subseteq Nat
  BY DEF BitmapOK
<1>1. BitmapOK'
  BY <1>0, BitsOfType DEF BitmapOK, set_frame_used, sizes
<1>2. ASSUME NEW f \in 0 .. frame_count - 1
      PROVE  IsUsed(f)' <=> IsUsed(f) \/ f \in S
  <2>1. f \in Nat /\ f \div kWordBits \in DOMAIN bitmap
    BY FrameInBitmap DEF BitmapOK
  <2>2. bitmap'[f \div kWordBits] = bitmap[f \div kWordBits] \cup BitsOf(f \div kWordBits, S)
    BY <2>1 DEF set_frame_used
  <2> QED BY <1>0, <2>1, <2>2, BitsOfFrame DEF IsUsed
<1>3. FreeFrames' = FreeFrames \ S
  BY <1>2 DEF FreeFrames, sizes
<1>4. ASSUME PaddingStaysUsed, Built PROVE PaddingStaysUsed'
  BY <1>4 DEF PaddingStaysUsed, set_frame_used, sizes, BitmapOK
<1> QED BY <1>1, <1>3, <1>4

\* set_frame_free adds exactly the given frames to the free ones.
LEMMA MarkFree ==
    ASSUME BitmapOK, NEW S \in SUBSET (0 .. frame_count - 1),
           bitmap' = set_frame_free(S), UNCHANGED sizes
    PROVE  /\ BitmapOK'
           /\ FreeFrames' = FreeFrames \cup S
           /\ PaddingStaysUsed /\ Built => PaddingStaysUsed'
<1>0. S \subseteq Nat
  BY DEF BitmapOK
<1>1. BitmapOK'
  BY DEF BitmapOK, set_frame_free, sizes
<1>2. ASSUME NEW f \in 0 .. frame_count - 1
      PROVE  IsUsed(f)' <=> IsUsed(f) /\ f \notin S
  <2>1. f \in Nat /\ f \div kWordBits \in DOMAIN bitmap
    BY FrameInBitmap DEF BitmapOK
  <2>2. bitmap'[f \div kWordBits] = bitmap[f \div kWordBits] \ BitsOf(f \div kWordBits, S)
    BY <2>1 DEF set_frame_free
  <2> QED BY <1>0, <2>1, <2>2, BitsOfFrame DEF IsUsed
<1>3. FreeFrames' = FreeFrames \cup S
  BY <1>2 DEF FreeFrames, sizes
<1>4. ASSUME PaddingStaysUsed, Built,
             NEW w \in DOMAIN bitmap', NEW b \in AllOnes,
             w * kWordBits + b >= frame_count'
      PROVE  b \in bitmap'[w]
  <2>1. w \in 0 .. bitmap_words - 1 /\ w \in DOMAIN bitmap /\ w \in Nat
    BY <1>4, DOMAIN bitmap' = DOMAIN bitmap DEF BitmapOK, set_frame_free
  <2>2. b \in bitmap[w]
    BY <1>4, <2>1 DEF PaddingStaysUsed, sizes
  <2>3. b \notin BitsOf(w, S)
    <3> DEFINE f == w * kWordBits + b
    <3>1. f \in Nat /\ f \div kWordBits = w /\ f % kWordBits = b
      BY <2>1, FrameOfBit
    <3>2. f >= frame_count
      BY <1>4 DEF sizes
    <3> HIDE DEF f
    <3>3. f \notin S
      BY <3>1, <3>2 DEF BitmapOK
    <3> QED BY <1>0, <3>1, <3>3, BitsOfFrame
  <2> QED BY <2>1, <2>2, <2>3 DEF set_frame_free
<1> QED BY <1>1, <1>3, <1>4 DEF PaddingStaysUsed

\* The lowest zero bit of a word that is not all ones names a free bit, the
\* first of that word.
LEMMA FirstFreeOfWord ==
    ASSUME BitmapOK, NEW w \in 0 .. bitmap_words - 1, bitmap[w] # AllOnes
    PROVE  /\ FirstFree(w) \in Nat
           /\ FirstFree(w) \div kWordBits = w
           /\ ~ IsUsed(FirstFree(w))
           /\ \A b \in AllOnes \ bitmap[w] : FirstFree(w) <= w * kWordBits + b
<1> DEFINE zeros == AllOnes \ bitmap[w]
<1>1. /\ zeros \in SUBSET Nat
      /\ zeros # {}
  <2>1. bitmap[w] \subseteq AllOnes
    BY DEF BitmapOK
  <2>2. AllOnes \subseteq Nat
    BY SizesAssumption DEF AllOnes
  <2> QED BY <2>1, <2>2
<1>2. /\ Min(zeros) \in zeros
      /\ \A b \in zeros : Min(zeros) <= b
  BY <1>1, NatMin
<1>3. w \in Nat /\ Min(zeros) \in AllOnes
  BY <1>2 DEF BitmapOK
<1>4. /\ FirstFree(w) \in Nat
      /\ FirstFree(w) \div kWordBits = w
      /\ FirstFree(w) % kWordBits = Min(zeros)
  BY <1>3, FrameOfBit DEF FirstFree
<1>5. ~ IsUsed(FirstFree(w))
  BY <1>2, <1>4 DEF IsUsed
<1>6. ASSUME NEW b \in zeros PROVE FirstFree(w) <= w * kWordBits + b
  <2>1. Min(zeros) \in Nat /\ b \in Nat /\ w * kWordBits \in Nat /\ Min(zeros) <= b
    BY <1>1, <1>2, <1>3, SizesAssumption
  <2> HIDE DEF zeros
  <2> QED BY <2>1 DEF FirstFree, zeros
<1> QED BY <1>4, <1>5, <1>6

\* alloc_frame's search agrees with a search of all frames: it fails only
\* when none is free, and otherwise finds the lowest free one.
LEMMA SearchFindsLowest ==
    ASSUME BitmapOK
    PROVE  /\ Candidates = {} => FreeFrames = {}
           /\ Candidates # {} =>
                 /\ FirstFree(Min(Candidates)) \in FreeFrames
                 /\ \A f \in FreeFrames : FirstFree(Min(Candidates)) <= f
<1>1. ASSUME NEW f \in FreeFrames
      PROVE  /\ f \div kWordBits \in Candidates
             /\ f \in Nat
             /\ FirstFree(f \div kWordBits) <= f
  <2> DEFINE w == f \div kWordBits
  <2>1. f \in 0 .. frame_count - 1 /\ f \in Nat /\ ~ IsUsed(f)
    BY DEF FreeFrames, BitmapOK
  <2>2. w \in 0 .. bitmap_words - 1
    BY <2>1, FrameInBitmap
  <2>3. /\ f % kWordBits \in AllOnes \ bitmap[w]
        /\ f = w * kWordBits + (f % kWordBits)
    BY <2>1, WordAndBit DEF IsUsed
  <2> HIDE DEF w
  <2>4. /\ FirstFree(w) \in Nat
        /\ FirstFree(w) <= f
    BY <2>2, <2>3, FirstFreeOfWord
  <2>5. w \in Candidates
    BY <2>1, <2>2, <2>3, <2>4 DEF Candidates, frame_valid, BitmapOK
  <2> QED BY <2>1, <2>4, <2>5 DEF w
<1>2. ASSUME Candidates # {}
      PROVE  /\ FirstFree(Min(Candidates)) \in FreeFrames
             /\ \A f \in FreeFrames : FirstFree(Min(Candidates)) <= f
  <2> DEFINE w == Min(Candidates)
  <2>1. Candidates \in SUBSET Nat
    BY DEF Candidates, BitmapOK
  <2>2. w \in Candidates /\ \A v \in Candidates : w <= v
    BY <1>2, <2>1, NatMin
  <2> HIDE DEF w
  <2>3. w \in 0 .. bitmap_words - 1 /\ bitmap[w] # AllOnes /\ FirstFree(w) < frame_count
    BY <2>2 DEF Candidates, frame_valid
  <2>4. /\ FirstFree(w) \in Nat /\ ~ IsUsed(FirstFree(w))
        /\ FirstFree(w) \div kWordBits = w
    BY <2>3, FirstFreeOfWord
  <2>5. FirstFree(w) \in FreeFrames
    BY <2>3, <2>4 DEF FreeFrames, BitmapOK
  <2>6. ASSUME NEW f \in FreeFrames PROVE FirstFree(w) <= f
    <3> DEFINE v == f \div kWordBits
    <3>1. v \in Candidates /\ f \in Nat /\ FirstFree(v) <= f
      BY <1>1
    <3>2. w <= v /\ v \in Nat /\ w \in Nat
      BY <2>1, <2>2, <3>1
    <3>3. CASE w = v
      BY <3>1, <3>3
    <3>4. CASE w < v
      <4>1. FirstFree(w) < w * kWordBits + kWordBits
        BY <2>4, <3>2, DivBounds, SizesAssumption
      <4>2. w * kWordBits + kWordBits <= v * kWordBits
        BY <3>2, <3>4, SizesAssumption
      <4>3. v * kWordBits <= f
        BY <3>1, DivBounds, SizesAssumption
      <4> HIDE DEF v
      <4> QED BY <2>4, <3>1, <3>2, <4>1, <4>2, <4>3, SizesAssumption
    <3> QED BY <3>2, <3>3, <3>4
  <2> QED BY <2>5, <2>6 DEF w
<1> QED BY <1>1, <1>2

-----------------------------------------------------------------------------
(***************************************************************************)
(* The memory map                                                          *)
(***************************************************************************)

\* The frames phase 2 has freed when its loop is about to take region n.
FramesBefore(n) ==
    UNION {WholeFrames(regions[j]) :
              j \in {k \in DOMAIN regions : k < n /\ IsUsable(regions[k])}}

\* A region's whole frames are those that start and end inside it.
LEMMA WholeFramesMeaning ==
    ASSUME NEW r \in MemoryRegion
    PROVE  /\ EndOf(r) \in Nat
           /\ \A f : f \in WholeFrames(r) <=>
                 /\ f \in Nat
                 /\ r.base <= f * kPageSize
                 /\ (f + 1) * kPageSize <= EndOf(r)
<1>1. r.base \in Nat /\ r.length \in Nat /\ EndOf(r) \in Nat
  BY DEF MemoryRegion, EndOf
<1>2. /\ CeilDiv(r.base, kPageSize) \in Nat
      /\ \A f \in Nat : CeilDiv(r.base, kPageSize) <= f <=> r.base <= f * kPageSize
  BY <1>1, CeilDivBound, SizesAssumption
<1>3. /\ EndOf(r) \div kPageSize \in Nat
      /\ \A f \in Nat : f < EndOf(r) \div kPageSize <=> (f + 1) * kPageSize <= EndOf(r)
  BY <1>1, FloorDivBound, DivBounds, SizesAssumption
<1>4. ASSUME NEW f
      PROVE  f \in WholeFrames(r) <=>
                 /\ f \in Nat
                 /\ CeilDiv(r.base, kPageSize) <= f
                 /\ f < EndOf(r) \div kPageSize
  BY <1>2, <1>3 DEF WholeFrames
<1> QED BY <1>1, <1>2, <1>3, <1>4

\* Two usable regions of a well-formed map share no whole frame.
LEMMA WholeFramesDisjoint ==
    ASSUME WellFormedMap(regions),
           NEW j \in DOMAIN regions, NEW k \in DOMAIN regions, j # k,
           IsUsable(regions[j]), IsUsable(regions[k])
    PROVE  WholeFrames(regions[j]) \cap WholeFrames(regions[k]) = {}
<1>1. regions[j] \in MemoryRegion /\ regions[k] \in MemoryRegion
  BY DEF WellFormedMap
<1>2. regions[j].base \in Nat /\ regions[k].base \in Nat
  BY <1>1 DEF MemoryRegion
<1>3. EndOf(regions[j]) <= regions[k].base \/ EndOf(regions[k]) <= regions[j].base
  BY DEF WellFormedMap
<1>4. ASSUME NEW f \in WholeFrames(regions[j]), f \in WholeFrames(regions[k])
      PROVE  FALSE
  <2>1. /\ f \in Nat
        /\ regions[j].base <= f * kPageSize
        /\ (f + 1) * kPageSize <= EndOf(regions[j])
        /\ regions[k].base <= f * kPageSize
        /\ (f + 1) * kPageSize <= EndOf(regions[k])
        /\ EndOf(regions[j]) \in Nat /\ EndOf(regions[k]) \in Nat
    BY <1>1, <1>4, WholeFramesMeaning
  <2>2. f * kPageSize \in Nat /\ f * kPageSize < (f + 1) * kPageSize /\ (f + 1) * kPageSize \in Nat
    BY <2>1, SizesAssumption
  <2> QED BY <1>2, <1>3, <2>1, <2>2
<1> QED BY <1>4

\* UsableFrames, read off the map, is what a complete phase 2 frees.
LEMMA UsableFramesMeaning ==
    ASSUME WellFormedMap(regions), NEW n \in Nat, n > Len(regions)
    PROVE  UsableFrames = FramesBefore(n)
<1>1. DOMAIN regions = 1 .. Len(regions) /\ Len(regions) \in Nat
  BY DEF WellFormedMap
<1>2. ASSUME NEW j \in DOMAIN regions
      PROVE  WholeFrames(regions[j]) =
                 {f \in 0 .. EndOf(regions[j]) :
                     /\ regions[j].base <= f * kPageSize
                     /\ (f + 1) * kPageSize <= EndOf(regions[j])}
  <2>1. regions[j] \in MemoryRegion
    BY DEF WellFormedMap
  <2>2. EndOf(regions[j]) \in Nat
    BY <2>1, WholeFramesMeaning
  <2>3. ASSUME NEW f \in Nat, (f + 1) * kPageSize <= EndOf(regions[j])
        PROVE  f \in 0 .. EndOf(regions[j])
    <3>1. f + 1 <= (f + 1) * kPageSize /\ (f + 1) * kPageSize \in Nat
      BY SizesAssumption
    <3> QED BY <2>2, <2>3, <3>1
  <2> QED BY <2>1, <2>2, <2>3, WholeFramesMeaning
<1>3. \A k \in DOMAIN regions : k < n
  BY <1>1
<1> QED BY <1>2, <1>3 DEF UsableFrames, FramesBefore

\* A frame that ends by the highest usable address is below frame_count.
LEMMA BelowFrameCount ==
    ASSUME highest_usable_end \in Nat,
           frame_count = CeilDiv(highest_usable_end, kPageSize),
           NEW f \in Nat, f * kPageSize < highest_usable_end
    PROVE  f \in 0 .. frame_count - 1
<1>1. /\ frame_count \in Nat
      /\ frame_count <= f <=> highest_usable_end <= f * kPageSize
  BY CeilDivBound, SizesAssumption
<1>2. f * kPageSize \in Nat
  BY SizesAssumption
<1> QED BY <1>1, <1>2

-----------------------------------------------------------------------------
(***************************************************************************)
(* The inductive invariant, for well-formed maps and any caller.  Beyond   *)
(* the properties it says how far each loop of init has come: what the     *)
(* scan has seen, where the bitmap was put, which regions phase 2 freed.   *)
(***************************************************************************)
Sized == phase \in {"place", "free", "ready"}

ScanInv ==
    phase = "scan" =>
        \A j \in DOMAIN regions :
            (j < i /\ IsUsable(regions[j])) => EndOf(regions[j]) <= highest_usable_end

SizeInv ==
    Sized =>
        /\ \A j \in DOMAIN regions :
              IsUsable(regions[j]) => EndOf(regions[j]) <= highest_usable_end
        /\ frame_count = CeilDiv(highest_usable_end, kPageSize)
        /\ bitmap_words = CeilDiv(frame_count, kWordBits)

PlaceInv ==
    Built => \E j \in DOMAIN regions :
                HoldsBitmap(regions[j]) /\ bitmap_phys = regions[j].base

FreeInv == phase = "free" => FreeFrames = FramesBefore(i)

IInv ==
    /\ TypeOK
    /\ WellFormedMap(regions)
    /\ phase # "off" => i # 0
    /\ phase # "ready" => held = {}
    /\ ScanInv
    /\ SizeInv
    /\ PlaceInv
    /\ FreeInv
    /\ FreeCountExact
    /\ PaddingStaysUsed

\* The bitmap is well shaped from phase 1 on.
LEMMA BuiltBitmap ==
    ASSUME IInv, Built
    PROVE  BitmapOK
<1>1. /\ frame_count \in Nat /\ bitmap_words \in Nat
      /\ bitmap \in [0 .. bitmap_words - 1 -> SUBSET AllOnes]
  BY DEF IInv, TypeOK
<1>2. bitmap_words = CeilDiv(frame_count, kWordBits)
  BY DEF IInv, SizeInv, Sized, Built
<1>3. frame_count <= bitmap_words * kWordBits
  BY <1>1, <1>2, CeilDivBound, SizesAssumption
<1> QED BY <1>1, <1>3 DEF BitmapOK

\* From then on a usable region's whole frames are all below frame_count.
LEMMA WholeFramesValid ==
    ASSUME IInv, Sized, NEW j \in DOMAIN regions, IsUsable(regions[j])
    PROVE  WholeFrames(regions[j]) \subseteq 0 .. frame_count - 1
<1>1. regions[j] \in MemoryRegion
  BY DEF IInv, WellFormedMap
<1>2. /\ EndOf(regions[j]) <= highest_usable_end /\ highest_usable_end \in Nat
      /\ frame_count = CeilDiv(highest_usable_end, kPageSize)
  BY DEF IInv, SizeInv, TypeOK
<1>3. ASSUME NEW f \in WholeFrames(regions[j]) PROVE f \in 0 .. frame_count - 1
  <2>1. f \in Nat /\ (f + 1) * kPageSize <= EndOf(regions[j]) /\ EndOf(regions[j]) \in Nat
    BY <1>1, WholeFramesMeaning
  <2>2. f * kPageSize < (f + 1) * kPageSize /\ f * kPageSize \in Nat /\ (f + 1) * kPageSize \in Nat
    BY <2>1, SizesAssumption
  <2>3. f * kPageSize < highest_usable_end
    BY <1>2, <2>1, <2>2
  <2> QED BY <1>2, <2>1, <2>3, BelowFrameCount
<1> QED BY <1>3

\* The free frames are a finite set.
LEMMA FreeFramesFinite ==
    ASSUME frame_count \in Nat
    PROVE  IsFiniteSet(FreeFrames)
<1>1. IsFiniteSet(0 .. frame_count - 1)
  BY FS_Interval
<1> QED BY <1>1, FS_Subset DEF FreeFrames

\* The initial state satisfies the invariant.
LEMMA InitIInv == Init => IInv
<1> SUFFICES ASSUME Init PROVE IInv
  OBVIOUS
<1>1. TypeOK
  BY DEF Init, TypeOK, Built, NotCalled
<1>2. WellFormedMap(regions)
  BY DEF Init, WellFormedMap
<1> QED BY <1>1, <1>2 DEF Init, IInv, ScanInv, SizeInv, Sized, PlaceInv, FreeInv,
                          FreeCountExact, PaddingStaysUsed, Built

\* init's entry and its scan loop.
LEMMA ScanKeepsIInv ==
    ASSUME IInv, (\E m \in MemoryMaps \cup RawMaps : init(m)) \/ scan_region \/ size_bitmap
    PROVE  IInv'
<1>1. CASE \E m \in MemoryMaps \cup RawMaps : init(m)
  <2> PICK m \in MemoryMaps \cup RawMaps : init(m)
    BY <1>1
  <2>1. WellFormedMap(m)
    BY MapsAssumption DEF LimineMap
  <2>2. m \in Seq(MemoryRegion) /\ DOMAIN m = 1 .. Len(m)
    BY <2>1 DEF WellFormedMap
  <2>3. TypeOK'
    BY <2>2 DEF IInv, TypeOK, init, sizes, callers, Built
  <2>4. ScanInv'
    BY <2>2 DEF ScanInv, init
  <2> QED BY <2>1, <2>3, <2>4 DEF IInv, init, SizeInv, Sized, PlaceInv, FreeInv,
             FreeCountExact, PaddingStaysUsed, Built, callers, WellFormedMap
<1>2. CASE scan_region
  <2>1. DOMAIN regions = 1 .. Len(regions) /\ Len(regions) \in Nat /\ i \in Nat \ {0}
    BY <1>2 DEF IInv, TypeOK, WellFormedMap, scan_region
  <2>2. i \in DOMAIN regions /\ regions[i] \in MemoryRegion
    BY <1>2, <2>1 DEF IInv, TypeOK, scan_region
  <2>3. \A j \in DOMAIN regions : EndOf(regions[j]) \in Nat
    BY WholeFramesMeaning DEF IInv, TypeOK
  <2>4. TypeOK'
    BY <1>2, <2>2, <2>3 DEF IInv, TypeOK, scan_region, sizes, callers, Built
  <2>5. ScanInv'
    BY <1>2, <2>1, <2>2, <2>3 DEF IInv, TypeOK, ScanInv, scan_region
  <2> QED BY <1>2, <2>1, <2>4, <2>5 DEF IInv, scan_region, SizeInv, Sized, PlaceInv, FreeInv,
             FreeCountExact, PaddingStaysUsed, Built, callers, WellFormedMap
<1>3. CASE size_bitmap
  <2>1. DOMAIN regions = 1 .. Len(regions) /\ Len(regions) \in Nat /\ i \in Nat
    BY DEF IInv, TypeOK, WellFormedMap
  <2>2. highest_usable_end \in Nat /\ held = {}
    BY <1>3 DEF IInv, TypeOK, size_bitmap
  <2>3. CASE highest_usable_end = 0
    BY <1>3, <2>3 DEF IInv, TypeOK, size_bitmap, sizes, callers, ScanInv, SizeInv, Sized,
       PlaceInv, FreeInv, FreeCountExact, PaddingStaysUsed, Built, WellFormedMap
  <2>4. CASE highest_usable_end # 0
    <3>1. frame_count' \in Nat /\ bitmap_words' \in Nat
      BY <1>3, <2>2, <2>4, CeilDivBound, SizesAssumption DEF size_bitmap
    <3>2. TypeOK'
      BY <1>3, <2>2, <2>4, <3>1 DEF IInv, TypeOK, size_bitmap, callers, Built
    <3>3. SizeInv'
      BY <1>3, <2>1, <2>4 DEF IInv, ScanInv, SizeInv, size_bitmap
    <3> QED BY <1>3, <2>4, <3>2, <3>3 DEF IInv, size_bitmap, ScanInv, PlaceInv, FreeInv,
               FreeCountExact, PaddingStaysUsed, Built, callers, WellFormedMap
  <2> QED BY <2>3, <2>4
<1> QED BY <1>1, <1>2, <1>3

\* The search for the bitmap's storage, and phase 1.
LEMMA PlaceKeepsIInv ==
    ASSUME IInv, place_bitmap \/ no_place
    PROVE  IInv'
<1>0. DOMAIN regions = 1 .. Len(regions) /\ Len(regions) \in Nat
  BY DEF IInv, WellFormedMap
<1>1. CASE no_place
  BY <1>1 DEF IInv, TypeOK, no_place, sizes, callers, ScanInv, SizeInv, Sized,
     PlaceInv, FreeInv, FreeCountExact, PaddingStaysUsed, Built, WellFormedMap
<1>2. CASE place_bitmap /\ ~ HoldsBitmap(regions[i])
  BY <1>2 DEF IInv, TypeOK, place_bitmap, sizes, callers, ScanInv, SizeInv, Sized,
     PlaceInv, FreeInv, FreeCountExact, PaddingStaysUsed, Built, WellFormedMap
<1>3. CASE place_bitmap /\ HoldsBitmap(regions[i])
  <2>1. i \in DOMAIN regions /\ regions[i].base \in Nat
    <3>1. i \in DOMAIN regions
      BY <1>0, <1>3 DEF IInv, TypeOK, place_bitmap
    <3>2. regions[i] \in MemoryRegion
      BY <3>1 DEF IInv, TypeOK
    <3> QED BY <3>1, <3>2 DEF MemoryRegion
  <2>2. TypeOK'
    BY <1>3, <2>1 DEF IInv, TypeOK, place_bitmap, sizes, callers, Built
  <2>3. SizeInv'
    BY <1>3 DEF IInv, SizeInv, Sized, place_bitmap, sizes
  <2>4. PlaceInv'
    <3>1. \A j \in DOMAIN regions : HoldsBitmap(regions[j]) =>
             (IsUsable(regions'[j]) /\ regions'[j].length >= bitmap_pages' * kPageSize)
      BY <1>3 DEF HoldsBitmap, place_bitmap, bitmap_pages, bitmap_bytes, sizes
    <3> QED BY <1>3, <2>1, <3>1 DEF PlaceInv, place_bitmap, HoldsBitmap
  <2>5. BitmapOK'
    <3>1. /\ frame_count \in Nat /\ bitmap_words \in Nat
          /\ bitmap_words = CeilDiv(frame_count, kWordBits)
      BY <1>3 DEF IInv, TypeOK, SizeInv, Sized, place_bitmap
    <3>2. frame_count <= bitmap_words * kWordBits
      BY <3>1, CeilDivBound, SizesAssumption
    <3> QED BY <1>3, <2>2, <3>2 DEF BitmapOK, TypeOK, Built, place_bitmap, sizes
  <2>6. FreeFrames' = {}
    <3>1. ASSUME NEW f \in 0 .. frame_count' - 1 PROVE IsUsed(f)'
      <4>1. f \in Nat /\ f \div kWordBits \in 0 .. bitmap_words' - 1
        BY <2>5, FrameInWords DEF BitmapOK
      <4>2. f % kWordBits \in AllOnes
        BY <4>1, WordAndBit
      <4> QED BY <1>3, <4>1, <4>2 DEF IsUsed, place_bitmap, sizes
    <3> QED BY <3>1 DEF FreeFrames
  <2>7. FreeInv'
    <3>1. FramesBefore(1)' = {}
      BY <1>0, <1>3 DEF FramesBefore, place_bitmap
    <3> QED BY <1>3, <2>6, <3>1 DEF FreeInv, place_bitmap
  <2>8. FreeCountExact'
    BY <1>3, <2>6, FS_EmptySet DEF FreeCountExact, place_bitmap
  <2>9. PaddingStaysUsed'
    BY <1>3 DEF PaddingStaysUsed, place_bitmap
  <2> QED BY <1>3, <2>2, <2>3, <2>4, <2>7, <2>8, <2>9
          DEF IInv, ScanInv, place_bitmap, callers, WellFormedMap
<1> QED BY <1>1, <1>2, <1>3

\* Phase 2: what one region adds to the free frames.
LEMMA FreeRegionKeepsIInv ==
    ASSUME IInv, free_region
    PROVE  IInv'
<1>0. DOMAIN regions = 1 .. Len(regions) /\ Len(regions) \in Nat /\ i \in Nat \ {0} /\ i \in DOMAIN regions
  BY DEF IInv, TypeOK, WellFormedMap, free_region
<1>1. Built /\ Sized /\ phase = "free" /\ phase' = "free"
  BY DEF Built, Sized, free_region
<1>2. BitmapOK
  BY <1>1, BuiltBitmap
<1>3. PlaceInv' /\ SizeInv'
  <2>1. \A j \in DOMAIN regions : HoldsBitmap(regions[j]) =>
             (IsUsable(regions'[j]) /\ regions'[j].length >= bitmap_pages' * kPageSize)
    BY DEF HoldsBitmap, free_region, bitmap_pages, bitmap_bytes, sizes
  <2> QED BY <1>1, <2>1 DEF IInv, PlaceInv, SizeInv, Sized, Built, free_region, sizes, HoldsBitmap
<1>4. CASE ~ IsUsable(regions[i])
  <2>1. FramesBefore(i + 1) = FramesBefore(i)
    <3>1. \A k \in DOMAIN regions : (k < i + 1 /\ IsUsable(regions[k])) <=> (k < i /\ IsUsable(regions[k]))
      BY <1>0, <1>4
    <3> QED BY <3>1 DEF FramesBefore
  <2>2. FreeInv'
    BY <1>1, <1>4, <2>1 DEF IInv, FreeInv, free_region, FramesBefore, FreeFrames, IsUsed, sizes
  <2>3. TypeOK'
    BY <1>0, <1>1, <1>4 DEF IInv, TypeOK, free_region, sizes, callers, Built
  <2>4. FreeCountExact' /\ PaddingStaysUsed'
    BY <1>1, <1>4 DEF IInv, FreeCountExact, PaddingStaysUsed, Built, free_region, sizes, FreeFrames, IsUsed
  <2> QED BY <1>0, <1>1, <1>3, <2>2, <2>3, <2>4 DEF IInv, ScanInv, free_region, callers, WellFormedMap
<1>5. CASE IsUsable(regions[i])
  <2> DEFINE S == {f \in WholeFrames(regions[i]) : frame_valid(f)}
  <2>1. S = WholeFrames(regions[i]) /\ S \in SUBSET (0 .. frame_count - 1)
    <3>1. WholeFrames(regions[i]) \subseteq 0 .. frame_count - 1
      BY <1>0, <1>1, <1>5, WholeFramesValid
    <3>2. \A f \in 0 .. frame_count - 1 : frame_valid(f)
      BY <1>2 DEF frame_valid, BitmapOK
    <3> QED BY <3>1, <3>2
  <2>2. bitmap' = set_frame_free(S) /\ free_frame_count' = free_frame_count + Cardinality(S)
    BY <1>5 DEF free_region
  <2>3. UNCHANGED sizes /\ UNCHANGED <<phase, regions, held>> /\ i' = i + 1
    BY DEF free_region, callers
  <2> HIDE DEF S
  <2>4. BitmapOK' /\ FreeFrames' = FreeFrames \cup S /\ PaddingStaysUsed'
    BY <1>1, <1>2, <2>1, <2>2, <2>3, MarkFree DEF IInv
  <2>5. FreeFrames \cap S = {}
    <3>1. FreeFrames = FramesBefore(i)
      BY <1>1 DEF IInv, FreeInv
    <3>2. ASSUME NEW k \in DOMAIN regions, k < i, IsUsable(regions[k])
          PROVE  WholeFrames(regions[k]) \cap S = {}
      BY <1>0, <1>5, <2>1, <3>2, WholeFramesDisjoint DEF IInv
    <3> QED BY <3>1, <3>2 DEF FramesBefore
  <2>6. IsFiniteSet(S) /\ IsFiniteSet(FreeFrames)
    <3>1. frame_count \in Nat
      BY <1>2 DEF BitmapOK
    <3>2. IsFiniteSet(0 .. frame_count - 1)
      BY <3>1, FS_Interval
    <3> QED BY <2>1, <3>1, <3>2, FreeFramesFinite, FS_Subset
  <2>7. Cardinality(FreeFrames \cup S) = Cardinality(FreeFrames) + Cardinality(S)
        /\ Cardinality(S) \in Nat
    BY <2>5, <2>6, CardinalityOfUnion
  <2>8. FreeCountExact'
    BY <1>1, <2>2, <2>4, <2>7 DEF IInv, FreeCountExact, Built
  <2>9. FreeInv'
    <3>1. FramesBefore(i + 1) = FramesBefore(i) \cup S
      <4>1. \A k \in DOMAIN regions : (k < i + 1 /\ IsUsable(regions[k])) <=>
                 ((k < i /\ IsUsable(regions[k])) \/ k = i)
        BY <1>0, <1>5
      <4> QED BY <1>0, <2>1, <4>1 DEF FramesBefore
    <3>2. FramesBefore(i)' = FramesBefore(i + 1)
      BY <2>3 DEF FramesBefore
    <3> QED BY <1>1, <2>4, <3>1, <3>2 DEF IInv, FreeInv
  <2>10. TypeOK'
    BY <1>0, <1>1, <2>2, <2>3, <2>4, <2>7 DEF IInv, TypeOK, BitmapOK, free_region, sizes, callers, Built
  <2> QED BY <1>0, <1>1, <1>3, <2>3, <2>4, <2>8, <2>9, <2>10 DEF IInv, ScanInv, WellFormedMap
<1> QED BY <1>4, <1>5

\* What a step leaves alone when it only touches the bitmap and its count.
LEMMA FrameKeepsInv ==
    ASSUME IInv, Built, phase' = "ready",
           UNCHANGED <<regions, i, highest_usable_end, sizes, bitmap_phys>>
    PROVE  SizeInv' /\ PlaceInv' /\ ScanInv' /\ FreeInv' /\ WellFormedMap(regions)'
           /\ (phase # "off" => i # 0)'
<1>1. \A j \in DOMAIN regions : HoldsBitmap(regions[j]) =>
           (IsUsable(regions'[j]) /\ regions'[j].length >= bitmap_pages' * kPageSize)
  BY DEF HoldsBitmap, bitmap_pages, bitmap_bytes, sizes
<1> QED BY <1>1 DEF IInv, Built, Sized, SizeInv, PlaceInv, ScanInv, FreeInv, HoldsBitmap, sizes,
                    WellFormedMap

\* Phase 3: what reserving the bitmap's own frames takes from the free ones.
LEMMA ReserveEffect ==
    ASSUME IInv, reserve_bitmap
    PROVE  /\ BitmapOK'
           /\ FreeFrames' = FreeFrames \ BitmapFrames
           /\ free_frame_count' = Cardinality(FreeFrames')
           /\ free_frame_count' \in Nat
           /\ PaddingStaysUsed'
<1> DEFINE S == {f \in BitmapFrames : frame_valid(f)}
<1>1. Built /\ phase = "free"
  BY DEF Built, reserve_bitmap
<1>2. BitmapOK
  BY <1>1, BuiltBitmap
<1>3. bitmap_phys \div kPageSize \in Nat /\ bitmap_pages \in Nat
  <2>1. bitmap_bytes \in Nat /\ bitmap_phys \in Nat
    BY SizesAssumption DEF IInv, TypeOK, bitmap_bytes
  <2> QED BY <2>1, CeilDivBound, DivBounds, SizesAssumption DEF bitmap_pages
<1>4. BitmapFrames \subseteq Nat
  BY <1>3 DEF BitmapFrames
<1>5. S \in SUBSET (0 .. frame_count - 1) /\ \A f \in FreeFrames : f \in BitmapFrames <=> f \in S
  <2>1. \A f \in Nat : frame_valid(f) <=> f \in 0 .. frame_count - 1
    BY <1>2 DEF frame_valid, BitmapOK
  <2>2. FreeFrames \subseteq 0 .. frame_count - 1 /\ 0 .. frame_count - 1 \subseteq Nat
    BY <1>2 DEF FreeFrames, BitmapOK
  <2> QED BY <1>4, <2>1, <2>2
<1>6. /\ bitmap' = set_frame_used(S) /\ UNCHANGED sizes
      /\ free_frame_count' = free_frame_count - Cardinality({f \in S : ~ IsUsed(f)})
  BY DEF reserve_bitmap
<1> HIDE DEF S
<1>7. BitmapOK' /\ FreeFrames' = FreeFrames \ S /\ PaddingStaysUsed'
  BY <1>1, <1>2, <1>5, <1>6, MarkUsed DEF IInv
<1>8. {f \in S : ~ IsUsed(f)} = FreeFrames \cap S
  BY <1>5 DEF FreeFrames
<1>9. /\ Cardinality(FreeFrames \ S) = Cardinality(FreeFrames) - Cardinality(FreeFrames \cap S)
      /\ Cardinality(FreeFrames \ S) \in Nat
  BY <1>2, FreeFramesFinite, CardinalityOfDifference DEF BitmapOK
<1>10. free_frame_count = Cardinality(FreeFrames)
  BY <1>1 DEF IInv, FreeCountExact
<1>11. FreeFrames \ S = FreeFrames \ BitmapFrames
  BY <1>5
<1> QED BY <1>6, <1>7, <1>8, <1>9, <1>10, <1>11

\* reserve_bitmap, the last part of mm::init.
LEMMA ReserveKeepsIInv ==
    ASSUME IInv, reserve_bitmap
    PROVE  IInv'
<1>1. Built /\ phase = "free" /\ phase' = "ready" /\ held' = {} /\ ret' = ret
      /\ UNCHANGED <<regions, i, highest_usable_end, sizes, bitmap_phys>>
  BY DEF Built, reserve_bitmap, IInv, callers
<1>2. BitmapOK' /\ free_frame_count' = Cardinality(FreeFrames') /\ free_frame_count' \in Nat
      /\ PaddingStaysUsed'
  BY ReserveEffect
<1>3. TypeOK'
  BY <1>1, <1>2 DEF IInv, TypeOK, BitmapOK, Built
<1> QED BY <1>1, <1>2, <1>3, FrameKeepsInv DEF IInv, FreeCountExact

\* alloc_frame: it returns 0 and changes nothing when no frame is free, and
\* otherwise takes the lowest free frame.
LEMMA AllocEffect ==
    ASSUME IInv, alloc_frame
    PROVE  /\ BitmapOK' /\ PaddingStaysUsed'
           /\ \/ /\ FreeFrames = {} /\ ret' = 0
                 /\ UNCHANGED <<bitmap, free_frame_count, held>> /\ FreeFrames' = FreeFrames
              \/ \E frame \in FreeFrames :
                    /\ \A f \in FreeFrames : frame <= f
                    /\ FreeFrames' = FreeFrames \ {frame}
                    /\ free_frame_count' = free_frame_count - 1
                    /\ ret' = frame * kPageSize
                    /\ held' = IF frame = 0 THEN held ELSE held \cup {frame}
<1>1. Built /\ UNCHANGED <<phase, sizes>>
  BY DEF Built, alloc_frame
<1>2. BitmapOK
  BY <1>1, BuiltBitmap
<1>3. CASE Candidates = {}
  <2>1. ret' = 0 /\ UNCHANGED <<bitmap, free_frame_count, held>>
    BY <1>3 DEF alloc_frame
  <2>2. FreeFrames = {}
    BY <1>2, <1>3, SearchFindsLowest
  <2>3. BitmapOK' /\ PaddingStaysUsed' /\ FreeFrames' = FreeFrames
    BY <1>1, <1>2, <2>1 DEF IInv, BitmapOK, PaddingStaysUsed, FreeFrames, IsUsed, sizes, Built
  <2> QED BY <2>1, <2>2, <2>3
<1>4. CASE Candidates # {}
  <2> DEFINE frame == FirstFree(Min(Candidates))
  <2>1. frame \in FreeFrames /\ \A f \in FreeFrames : frame <= f
    BY <1>2, <1>4, SearchFindsLowest
  <2>2. /\ bitmap' = set_frame_used({frame})
        /\ free_frame_count' = free_frame_count - 1
        /\ ret' = frame * kPageSize
        /\ held' = IF frame = 0 THEN held ELSE held \cup {frame}
    BY <1>4 DEF alloc_frame
  <2> HIDE DEF frame
  <2>3. {frame} \in SUBSET (0 .. frame_count - 1)
    BY <2>1 DEF FreeFrames
  <2>4. BitmapOK' /\ PaddingStaysUsed' /\ FreeFrames' = FreeFrames \ {frame}
    BY <1>1, <1>2, <2>2, <2>3, MarkUsed DEF IInv
  <2> QED BY <2>1, <2>2, <2>4
<1> QED BY <1>3, <1>4

\* alloc_frame keeps the invariant.
LEMMA AllocKeepsIInv ==
    ASSUME IInv, alloc_frame
    PROVE  IInv'
<1>1. /\ Built /\ phase = "ready" /\ phase' = "ready"
      /\ UNCHANGED <<regions, i, highest_usable_end, sizes, bitmap_phys>>
  BY DEF Built, alloc_frame
<1>2. BitmapOK' /\ PaddingStaysUsed' /\ free_frame_count = Cardinality(FreeFrames)
  BY <1>1, AllocEffect DEF IInv, FreeCountExact
<1>3. CASE /\ ret' = 0 /\ FreeFrames' = FreeFrames
           /\ UNCHANGED <<bitmap, free_frame_count, held>>
  <2>1. TypeOK'
    BY <1>1, <1>3 DEF IInv, TypeOK, Built, sizes
  <2> QED BY <1>1, <1>2, <1>3, <2>1, FrameKeepsInv DEF IInv, FreeCountExact
<1>4. ASSUME NEW frame \in FreeFrames,
             FreeFrames' = FreeFrames \ {frame},
             free_frame_count' = free_frame_count - 1,
             ret' = frame * kPageSize,
             held' = IF frame = 0 THEN held ELSE held \cup {frame}
      PROVE  IInv'
  <2>1. frame \in 0 .. frame_count - 1 /\ frame \in Nat /\ ret' \in Nat /\ frame_count \in Nat
    BY <1>4, SizesAssumption DEF FreeFrames, IInv, TypeOK
  <2>2. /\ Cardinality(FreeFrames') = Cardinality(FreeFrames) - 1
        /\ Cardinality(FreeFrames') \in Nat
    <3>1. IsFiniteSet(FreeFrames)
      BY <2>1, FreeFramesFinite
    <3>2. IsFiniteSet(FreeFrames \ {frame})
      BY <3>1, FS_Subset
    <3> QED BY <1>4, <3>1, <3>2, FS_RemoveElement, FS_CardinalityType
  <2>3. TypeOK'
    BY <1>1, <1>2, <1>4, <2>1, <2>2 DEF IInv, TypeOK, BitmapOK, Built, sizes
  <2> QED BY <1>1, <1>2, <1>4, <2>2, <2>3, FrameKeepsInv DEF IInv, FreeCountExact
<1> QED BY <1>3, <1>4, AllocEffect

\* free_frame: it changes nothing, or makes one used frame free.
LEMMA FreeEffect ==
    ASSUME IInv, NEW a \in Nat, free_frame(a)
    PROVE  /\ BitmapOK' /\ PaddingStaysUsed'
           /\ \/ UNCHANGED <<bitmap, free_frame_count, held>> /\ FreeFrames' = FreeFrames
              \/ \E frame \in 0 .. frame_count - 1 :
                    /\ frame = a \div kPageSize
                    /\ frame \notin FreeFrames
                    /\ FreeFrames' = FreeFrames \cup {frame}
                    /\ free_frame_count' = free_frame_count + 1
                    /\ held' = held \ {frame}
<1> DEFINE frame == a \div kPageSize
           accepted == a % kPageSize = 0 /\ frame_valid(frame) /\ IsUsed(frame)
<1>1. Built /\ UNCHANGED <<phase, sizes>>
  BY DEF Built, free_frame
<1>2. BitmapOK
  BY <1>1, BuiltBitmap
<1>3. CASE ~ accepted
  <2>1. UNCHANGED <<bitmap, free_frame_count, held>>
    BY <1>3 DEF free_frame
  <2>2. BitmapOK' /\ PaddingStaysUsed' /\ FreeFrames' = FreeFrames
    BY <1>1, <1>2, <2>1 DEF IInv, BitmapOK, PaddingStaysUsed, FreeFrames, IsUsed, sizes, Built
  <2> QED BY <2>1, <2>2
<1>4. CASE accepted
  <2>1. /\ bitmap' = set_frame_free({frame})
        /\ free_frame_count' = free_frame_count + 1
        /\ held' = held \ {frame}
    BY <1>4 DEF free_frame
  <2>2. frame \in Nat
    BY DivBounds, SizesAssumption
  <2>3. frame < frame_count /\ IsUsed(frame)
    BY <1>4 DEF frame_valid
  <2> HIDE DEF frame
  <2>4. frame \in 0 .. frame_count - 1 /\ frame \notin FreeFrames
    BY <1>2, <2>2, <2>3 DEF BitmapOK, FreeFrames
  <2>5. BitmapOK' /\ PaddingStaysUsed' /\ FreeFrames' = FreeFrames \cup {frame}
    BY <1>1, <1>2, <2>1, <2>4, MarkFree DEF IInv
  <2> QED BY <2>1, <2>4, <2>5 DEF frame
<1> QED BY <1>3, <1>4

\* free_frame keeps the invariant.
LEMMA FreeKeepsIInv ==
    ASSUME IInv, NEW a \in Nat, free_frame(a)
    PROVE  IInv'
<1>1. /\ Built /\ phase = "ready" /\ phase' = "ready"
      /\ UNCHANGED <<regions, i, highest_usable_end, sizes, bitmap_phys, ret>>
  BY DEF Built, free_frame
<1>2. BitmapOK' /\ PaddingStaysUsed' /\ free_frame_count = Cardinality(FreeFrames)
  BY <1>1, FreeEffect DEF IInv, FreeCountExact
<1>3. CASE UNCHANGED <<bitmap, free_frame_count, held>> /\ FreeFrames' = FreeFrames
  <2>1. TypeOK'
    BY <1>1, <1>3 DEF IInv, TypeOK, Built, sizes
  <2> QED BY <1>1, <1>2, <1>3, <2>1, FrameKeepsInv DEF IInv, FreeCountExact
<1>4. ASSUME NEW frame \in 0 .. frame_count - 1,
             frame \notin FreeFrames,
             FreeFrames' = FreeFrames \cup {frame},
             free_frame_count' = free_frame_count + 1,
             held' = held \ {frame}
      PROVE  IInv'
  <2>1. frame_count \in Nat
    BY DEF IInv, TypeOK
  <2>2. Cardinality(FreeFrames') = Cardinality(FreeFrames) + 1
    BY <1>4, <2>1, FreeFramesFinite, FS_AddElement
  <2>3. TypeOK'
    BY <1>1, <1>2, <1>4, <2>1 DEF IInv, TypeOK, BitmapOK, Built, sizes
  <2> QED BY <1>1, <1>2, <1>4, <2>2, <2>3, FrameKeepsInv DEF IInv, FreeCountExact
<1> QED BY <1>3, <1>4, FreeEffect

\* Every step of any of the three specifications keeps the invariant.
AnyNext ==
    \/ \E m \in MemoryMaps \cup RawMaps : init(m)
    \/ InitStep
    \/ alloc_frame
    \/ \E a \in Nat : free_frame(a)

\* Every step of either next-state relation keeps the invariant.
LEMMA StepKeepsIInv == IInv /\ [AnyNext]_vars => IInv'
<1> SUFFICES ASSUME IInv, [AnyNext]_vars PROVE IInv'
  OBVIOUS
<1>1. CASE UNCHANGED vars
  BY <1>1 DEF vars, IInv, TypeOK, WellFormedMap, ScanInv, SizeInv, Sized, PlaceInv, HoldsBitmap,
     bitmap_pages, bitmap_bytes, FreeInv, FreeFrames, IsUsed, FramesBefore, FreeCountExact,
     PaddingStaysUsed, Built
<1>2. CASE (\E m \in MemoryMaps \cup RawMaps : init(m)) \/ scan_region \/ size_bitmap
  BY <1>2, ScanKeepsIInv
<1>3. CASE place_bitmap \/ no_place
  BY <1>3, PlaceKeepsIInv
<1>4. CASE free_region
  BY <1>4, FreeRegionKeepsIInv
<1>5. CASE reserve_bitmap
  BY <1>5, ReserveKeepsIInv
<1>6. CASE alloc_frame
  BY <1>6, AllocKeepsIInv
<1>7. CASE \E a \in Nat : free_frame(a)
  BY <1>7, FreeKeepsIInv
<1> QED BY <1>1, <1>2, <1>3, <1>4, <1>5, <1>6, <1>7 DEF AnyNext, InitStep

\* A frame a caller holds is freed at an address, so the kernel's steps are
\* among those of AnyNext.
LEMMA KernelStep == IInv /\ [Next]_vars => [AnyNext]_vars
<1> SUFFICES ASSUME IInv, Next PROVE AnyNext
  BY DEF AnyNext
<1>1. ASSUME NEW f \in held, free_frame(f * kPageSize) PROVE \E a \in Nat : free_frame(a)
  <2>1. f \in Nat
    BY DEF IInv, TypeOK
  <2> QED BY <1>1, <2>1, SizesAssumption
<1> QED BY <1>1 DEF Next, AnyNext, FreeHeld

\* Steps of misusing callers are among those considered.
LEMMA MisuseStep == [NextMisuse]_vars => [AnyNext]_vars
BY AddressesAssumption DEF NextMisuse, AnyNext, FreeAny

\* The invariant holds for callers that free what they hold.
LEMMA KernelIInv == Spec => []IInv
BY InitIInv, StepKeepsIInv, KernelStep, PTL DEF Spec

\* The invariant holds for any callers.
LEMMA MisuseIInv == SpecMisuse => []IInv
BY InitIInv, StepKeepsIInv, MisuseStep, PTL DEF SpecMisuse

-----------------------------------------------------------------------------
(***************************************************************************)
(* What holds for every caller                                             *)
(***************************************************************************)

\* In the kernel every variable of pmm.cpp keeps its type; free_frame_count
\* never drops below 0.
THEOREM TypeCorrect == Spec => []TypeOK
BY KernelIInv, PTL DEF IInv

\* free_frame_count agrees with the bitmap, even if callers free frames they
\* do not hold, twice, or misaligned.
THEOREM CountSurvivesMisuse == SpecMisuse => []FreeCountExact
BY MisuseIInv, PTL DEF IInv

\* The bits past frame_count in the last word stay used under the same misuse,
\* so that alloc_frame never returns a frame that does not exist.
THEOREM PaddingSurvivesMisuse == SpecMisuse => []PaddingStaysUsed
BY MisuseIInv, PTL DEF IInv

\* The invariant puts the bitmap inside a usable region, with a bit for every
\* usable frame.
LEMMA IInvBitmapFits == IInv => BitmapFits
<1> SUFFICES ASSUME IInv, Built PROVE BitmapFits
  BY DEF BitmapFits
<1>1. PICK j \in DOMAIN regions : HoldsBitmap(regions[j]) /\ bitmap_phys = regions[j].base
  BY DEF IInv, PlaceInv
<1>2. regions[j].base \in Nat /\ regions[j].length \in Nat
  <2>1. regions[j] \in MemoryRegion
    BY DEF IInv, TypeOK
  <2> QED BY <2>1 DEF MemoryRegion
<1>3. bitmap_bytes \in Nat
  BY SizesAssumption DEF IInv, TypeOK, bitmap_bytes
<1>4. bitmap_pages \in Nat /\ bitmap_bytes <= bitmap_pages * kPageSize
  BY <1>3, CeilDivBound, SizesAssumption DEF bitmap_pages
<1>5. bitmap_pages * kPageSize <= regions[j].length /\ bitmap_pages * kPageSize \in Nat
  BY <1>1, <1>2, <1>4, SizesAssumption DEF HoldsBitmap
<1>6. regions[j].base <= bitmap_phys /\ bitmap_phys + bitmap_bytes <= EndOf(regions[j])
  BY <1>1, <1>2, <1>3, <1>4, <1>5 DEF EndOf
<1>7. UsableFrames \subseteq 0 .. frame_count - 1
  <2>1. Len(regions) + 1 \in Nat /\ Len(regions) + 1 > Len(regions) /\ WellFormedMap(regions)
    BY DEF IInv, TypeOK
  <2>2. UsableFrames = FramesBefore(Len(regions) + 1)
    BY <2>1, UsableFramesMeaning
  <2>3. Sized
    BY DEF Built, Sized
  <2> QED BY <2>2, <2>3, WholeFramesValid DEF FramesBefore
<1>8. frame_count <= bitmap_words * kWordBits
  BY BuiltBitmap DEF BitmapOK
<1> QED BY <1>1, <1>6, <1>7, <1>8 DEF BitmapFits, HoldsBitmap

\* Wherever init puts the bitmap, its storage is usable memory and it covers
\* every usable frame, for every map with disjoint usable regions.
THEOREM BitmapAlwaysFits == SpecMisuse => []BitmapFits
BY MisuseIInv, IInvBitmapFits, PTL

-----------------------------------------------------------------------------
(***************************************************************************)
(* What holds for maps that keep the boot protocol's promises              *)
(***************************************************************************)

\* With an aligned base, the frames phase 3 reserves are those that hold a
\* byte of the bitmap.
LEMMA StorageIsReserved ==
    ASSUME bitmap_phys \in Nat, bitmap_words \in Nat, bitmap_phys % kPageSize = 0
    PROVE  BitmapFrames = StorageFrames
<1> DEFINE first == bitmap_phys \div kPageSize
<1>1. first \in Nat /\ bitmap_phys = first * kPageSize
  <2>1. first \in Nat
    BY DivBounds, SizesAssumption
  <2>2. bitmap_phys = first * kPageSize + (bitmap_phys % kPageSize)
    BY DivBounds, SizesAssumption
  <2> QED BY <2>1, <2>2, SizesAssumption
<1>2. bitmap_bytes \in Nat
  BY SizesAssumption DEF bitmap_bytes
<1>3. /\ bitmap_pages \in Nat
      /\ \A g \in Nat : bitmap_pages <= g <=> bitmap_bytes <= g * kPageSize
  BY <1>2, CeilDivBound, SizesAssumption DEF bitmap_pages
<1>4. BitmapFrames = first .. first + bitmap_pages - 1
  BY DEF BitmapFrames
<1> HIDE DEF first
<1>5. ASSUME NEW f \in Nat
      PROVE  f \in BitmapFrames <=>
                 /\ f * kPageSize < bitmap_phys + bitmap_bytes
                 /\ bitmap_phys < (f + 1) * kPageSize
  <2>1. first <= f <=> bitmap_phys < (f + 1) * kPageSize
    <3>1. first <= f => first * kPageSize < (f + 1) * kPageSize
      BY <1>1, SizesAssumption
    <3>2. f < first => (f + 1) * kPageSize <= first * kPageSize
      BY <1>1, SizesAssumption
    <3>3. first * kPageSize \in Nat /\ (f + 1) * kPageSize \in Nat
      BY <1>1, SizesAssumption
    <3> QED BY <1>1, <3>1, <3>2, <3>3
  <2>2. ASSUME first <= f
        PROVE  f < first + bitmap_pages <=> f * kPageSize < bitmap_phys + bitmap_bytes
    <3> DEFINE g == f - first
    <3>1. g \in Nat /\ f = first + g
      BY <1>1, <2>2
    <3> HIDE DEF g
    <3>2. f * kPageSize = first * kPageSize + g * kPageSize
      BY <1>1, <3>1, SizesAssumption
    <3>3. bitmap_pages <= g <=> bitmap_bytes <= g * kPageSize
      BY <1>3, <3>1
    <3>4. g * kPageSize \in Nat /\ first * kPageSize \in Nat
      BY <1>1, <3>1, SizesAssumption
    <3> QED BY <1>1, <1>2, <1>3, <3>1, <3>2, <3>3, <3>4
  <2>3. f \in BitmapFrames <=> first <= f /\ f < first + bitmap_pages
    BY <1>1, <1>3, <1>4
  <2> QED BY <2>1, <2>2, <2>3
<1>6. ASSUME NEW f \in Nat, f * kPageSize < bitmap_phys + bitmap_bytes
      PROVE  f \in 0 .. bitmap_phys + bitmap_bytes
  <2>1. f <= f * kPageSize /\ f * kPageSize \in Nat
    BY SizesAssumption
  <2> QED BY <1>2, <1>6, <2>1
<1>7. BitmapFrames \subseteq Nat
  BY <1>1, <1>3, <1>4
<1>8. 0 .. bitmap_phys + bitmap_bytes \subseteq Nat
  BY <1>2
<1> QED BY <1>5, <1>6, <1>7, <1>8 DEF StorageFrames

OwnInv == LimineMap(regions) /\ FrameConservation

\* Frame 0 is in no usable region of such a map.
LEMMA ZeroNotUsable ==
    ASSUME LimineMap(regions)
    PROVE  0 \notin UsableFrames
<1>1. ASSUME NEW j \in DOMAIN regions, IsUsable(regions[j]), regions[j].base <= 0 * kPageSize
      PROVE  FALSE
  <2>1. regions[j].base \in Nat /\ regions[j].base # 0
    <3>1. regions[j] \in MemoryRegion
      BY DEF LimineMap, WellFormedMap
    <3> QED BY <1>1, <3>1 DEF LimineMap, MemoryRegion
  <2> QED BY <1>1, <2>1, SizesAssumption
<1> QED BY <1>1 DEF UsableFrames

\* Steps that change neither the map, nor the bitmap's place keep the frames
\* there are to share.
LEMMA SameFramesToShare ==
    ASSUME UNCHANGED <<regions, sizes, bitmap_phys>>
    PROVE  /\ UsableFrames' = UsableFrames /\ StorageFrames' = StorageFrames
           /\ LimineMap(regions) => LimineMap(regions)'
BY DEF UsableFrames, StorageFrames, bitmap_bytes, sizes, LimineMap, WellFormedMap

\* The kernel's steps keep every frame in one place.
LEMMA StepKeepsOwnInv == IInv /\ OwnInv /\ [Next]_vars => OwnInv'
<1> SUFFICES ASSUME IInv, OwnInv, [Next]_vars PROVE OwnInv'
  OBVIOUS
<1>1. CASE UNCHANGED vars
  BY <1>1, SameFramesToShare DEF vars, OwnInv, FrameConservation, FreeFrames, IsUsed, sizes
<1>2. CASE \E m \in MemoryMaps : init(m)
  BY <1>2, MapsAssumption DEF init, OwnInv, FrameConservation
<1>3. CASE scan_region \/ size_bitmap \/ place_bitmap \/ no_place \/ free_region
  BY <1>3 DEF scan_region, size_bitmap, place_bitmap, no_place, free_region, OwnInv,
     FrameConservation, LimineMap, WellFormedMap
<1>4. CASE reserve_bitmap
  <2>1. /\ phase = "free" /\ held' = {} /\ i > Len(regions) /\ i \in Nat
        /\ UNCHANGED <<regions, sizes, bitmap_phys>>
    BY <1>4 DEF reserve_bitmap, IInv, TypeOK, callers
  <2>2. FreeFrames = UsableFrames
    BY <2>1, UsableFramesMeaning DEF IInv, FreeInv
  <2>3. BitmapFrames = StorageFrames
    <3>1. bitmap_phys % kPageSize = 0
      BY <2>1 DEF IInv, PlaceInv, Built, HoldsBitmap, OwnInv, LimineMap
    <3> QED BY <3>1, StorageIsReserved DEF IInv, TypeOK
  <2>4. FreeFrames' = FreeFrames \ BitmapFrames
    BY <1>4, ReserveEffect
  <2> QED BY <2>1, <2>2, <2>3, <2>4, SameFramesToShare DEF OwnInv, FrameConservation
<1>5. CASE alloc_frame
  <2>1. phase = "ready" /\ phase' = "ready" /\ UNCHANGED <<regions, sizes, bitmap_phys>>
    BY <1>5 DEF alloc_frame
  <2>2. CASE FreeFrames' = FreeFrames /\ held' = held
    BY <2>1, <2>2, SameFramesToShare DEF OwnInv, FrameConservation
  <2>3. ASSUME NEW frame \in FreeFrames, FreeFrames' = FreeFrames \ {frame},
               held' = IF frame = 0 THEN held ELSE held \cup {frame}
        PROVE  OwnInv'
    <3>1. frame # 0
      BY <2>1, <2>3, ZeroNotUsable DEF OwnInv, FrameConservation
    <3> QED BY <2>1, <2>3, <3>1, SameFramesToShare DEF OwnInv, FrameConservation
  <2> QED BY <1>5, <2>2, <2>3, AllocEffect
<1>6. CASE FreeHeld
  <2>1. PICK f \in held : free_frame(f * kPageSize)
    BY <1>6 DEF FreeHeld
  <2>2. f \in Nat /\ f * kPageSize \in Nat /\ (f * kPageSize) \div kPageSize = f
    BY SizesAssumption DEF IInv, TypeOK
  <2>3. phase = "ready" /\ phase' = "ready" /\ UNCHANGED <<regions, sizes, bitmap_phys>>
    BY <2>1 DEF free_frame
  <2>4. \/ FreeFrames' = FreeFrames /\ held' = held
        \/ FreeFrames' = FreeFrames \cup {f} /\ held' = held \ {f}
    BY <2>1, <2>2, FreeEffect
  <2> QED BY <2>1, <2>3, <2>4, SameFramesToShare DEF OwnInv, FrameConservation
<1> QED BY <1>1, <1>2, <1>3, <1>4, <1>5, <1>6 DEF Next, InitStep

\* Before mm::init nobody holds a frame.
LEMMA InitOwnInv == Init => OwnInv
BY DEF Init, OwnInv, LimineMap, WellFormedMap, FrameConservation

\* Ownership, throughout.
LEMMA KernelOwnInv == Spec => []OwnInv
BY KernelIInv, InitOwnInv, StepKeepsOwnInv, PTL DEF Spec

\* Every usable frame outside the bitmap is, after init, either free or held
\* by exactly one caller, whatever the memory map and the calls.
THEOREM FramesConserved == Spec => []FrameConservation
BY KernelOwnInv, PTL DEF OwnInv

\* alloc_frame always takes the lowest free frame.
THEOREM AllocTakesLowest == Spec => LowestFirst
<1>1. IInv /\ OwnInv /\ [Next]_vars =>
         [held' \subseteq held \/ held' = held \cup {Min(FreeFrames)}]_vars
  <2> SUFFICES ASSUME IInv, OwnInv, Next
               PROVE  held' \subseteq held \/ held' = held \cup {Min(FreeFrames)}
    OBVIOUS
  <2>1. CASE (\E m \in MemoryMaps : init(m)) \/ InitStep
    BY <2>1 DEF init, InitStep, scan_region, size_bitmap, place_bitmap, no_place, free_region,
       reserve_bitmap, callers
  <2>2. CASE alloc_frame
    <3>1. CASE held' = held
      BY <3>1
    <3>2. ASSUME NEW frame \in FreeFrames, \A f \in FreeFrames : frame <= f,
                 held' = held \cup {frame}
          PROVE  held' = held \cup {Min(FreeFrames)}
      <4>1. FreeFrames \in SUBSET Nat /\ FreeFrames # {}
        BY <3>2 DEF FreeFrames, IInv, TypeOK
      <4>2. Min(FreeFrames) \in FreeFrames /\ Min(FreeFrames) <= frame
        BY <4>1, NatMin
      <4>3. frame <= Min(FreeFrames) /\ frame \in Nat /\ Min(FreeFrames) \in Nat
        BY <3>2, <4>1, <4>2
      <4>4. frame = Min(FreeFrames)
        BY <4>2, <4>3
      <4> QED BY <3>2, <4>4
    <3> QED BY <2>2, <3>1, <3>2, AllocEffect
  <2>3. CASE FreeHeld
    BY <2>3 DEF FreeHeld, free_frame
  <2> QED BY <2>1, <2>2, <2>3 DEF Next
<1> QED BY <1>1, KernelIInv, KernelOwnInv, PTL DEF Spec, LowestFirst

\* The bitmap allocator implements the abstract one: the steps of init before
\* the last are invisible, the last one brings the allocator up, and each
\* call of alloc_frame and free_frame is one abstract step.
THEOREM PmmImplementsFrameAllocator == Spec => ImplementsFrameAllocator
<1>1. Init => Abstract!AInit
  BY DEF Init, Abstract!AInit, NotCalled
<1>2. IInv /\ OwnInv /\ OwnInv' /\ [Next]_vars => [Abstract!ANext]_(Abstract!avars)
  <2> SUFFICES ASSUME IInv, OwnInv, OwnInv', [Next]_vars
               PROVE  Abstract!ANext \/ UNCHANGED Abstract!avars
    OBVIOUS
  <2> USE DEF Abstract!avars
  <2>1. CASE UNCHANGED vars
    BY <2>1 DEF vars, FreeFrames, IsUsed
  <2>2. CASE (\E m \in MemoryMaps : init(m)) \/ scan_region \/ size_bitmap \/ place_bitmap
             \/ no_place \/ free_region
    BY <2>2 DEF init, scan_region, size_bitmap, place_bitmap, no_place, free_region, callers
  <2>3. CASE reserve_bitmap
    <3>1. phase = "free" /\ phase' = "ready" /\ UNCHANGED <<held, ret>>
      BY <2>3 DEF reserve_bitmap, callers
    <3>2. FreeFrames' \subseteq Abstract!Frame
      <4>1. FreeFrames' \subseteq UsableFrames'
        BY <3>1 DEF OwnInv, FrameConservation
      <4>2. 0 \notin UsableFrames'
        <5>1. UNCHANGED <<regions, sizes, bitmap_phys>>
          BY <2>3 DEF reserve_bitmap
        <5> QED BY <5>1, ZeroNotUsable, SameFramesToShare DEF OwnInv
      <4>3. FreeFrames' \subseteq Nat
        BY <2>3 DEF FreeFrames, reserve_bitmap, sizes, IInv, TypeOK
      <4> QED BY <4>1, <4>2, <4>3 DEF Abstract!Frame
    <3>3. Abstract!Start
      BY <3>1, <3>2 DEF Abstract!Start
    <3> QED BY <3>3 DEF Abstract!ANext
  <2>4. CASE alloc_frame
    <3>1. phase = "ready" /\ phase' = "ready"
      BY <2>4 DEF alloc_frame
    <3>2. CASE FreeFrames = {} /\ ret' = 0 /\ held' = held /\ FreeFrames' = FreeFrames
      BY <3>1, <3>2 DEF Abstract!AllocFail, Abstract!ANext
    <3>3. ASSUME NEW frame \in FreeFrames, FreeFrames' = FreeFrames \ {frame},
                 ret' = frame * kPageSize,
                 held' = IF frame = 0 THEN held ELSE held \cup {frame}
          PROVE  Abstract!ANext
      <4>1. frame # 0
        BY <3>1, <3>3, ZeroNotUsable DEF OwnInv, FrameConservation
      <4>2. Abstract!Alloc
        BY <3>1, <3>3, <4>1 DEF Abstract!Alloc
      <4> QED BY <4>2 DEF Abstract!ANext
    <3> QED BY <2>4, <3>2, <3>3, AllocEffect
  <2>5. CASE FreeHeld
    <3>1. PICK f \in held : free_frame(f * kPageSize)
      BY <2>5 DEF FreeHeld
    <3>2. f \in Nat /\ f * kPageSize \in Nat /\ (f * kPageSize) \div kPageSize = f
      BY SizesAssumption DEF IInv, TypeOK
    <3>3. phase = "ready" /\ phase' = "ready" /\ ret' = ret
      BY <3>1 DEF free_frame
    <3>4. CASE FreeFrames' = FreeFrames /\ held' = held
      BY <3>3, <3>4
    <3>5. CASE FreeFrames' = FreeFrames \cup {f} /\ held' = held \ {f}
      BY <3>1, <3>3, <3>5 DEF Abstract!Free, Abstract!ANext
    <3> QED BY <3>1, <3>2, <3>4, <3>5, FreeEffect
  <2> QED BY <2>1, <2>2, <2>3, <2>4, <2>5 DEF Next, InitStep
<1> QED BY <1>1, <1>2, KernelIInv, KernelOwnInv, PTL DEF Spec, ImplementsFrameAllocator, Abstract!ASpec
=============================================================================
