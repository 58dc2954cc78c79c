---------------------------- MODULE VmmTheorems -----------------------------
(***************************************************************************)
(* What holds of Vmm for every page size, table size, physical memory, set *)
(* of spaces and sequence of calls, while the allocator has a frame left.  *)
(***************************************************************************)
EXTENDS VmmInvariants, VmmRefinement, FiniteSetTheorems, WellFoundedInduction

\* The hypothesis of every theorem here: the allocator has not run dry.
FramesLeft == free # {}

\* The minimum of a non-empty set of naturals is in it.
LEMMA MinIn ==
    ASSUME NEW S \in SUBSET Nat, S # {}
    PROVE  Min(S) \in S
<1> DEFINE R == OpToRel(<, Nat)
<1>1. IsWellFoundedOn(R, Nat)
  BY NatLessThanWellFounded
<1>2. \A x, y \in Nat : y < x => <<y, x>> \in R
  BY DEF OpToRel
<1> HIDE DEF R
<1>3. PICK x \in S : \A y \in S : ~ (<<y, x>> \in R)
  BY <1>1, WFMin, Zenon
<1>4. \A y \in S : x <= y
  <2> SUFFICES ASSUME NEW y \in S PROVE ~ (y < x)
    OBVIOUS
  <2>1. y < x => <<y, x>> \in R
    BY <1>2
  <2> QED BY <1>3, <2>1
<1> QED BY <1>4 DEF Min

\* While a frame is left, alloc_frame finds a free one.
LEMMA LeftAllocates == TypeInv /\ FramesLeft => Allocates
<1> SUFFICES ASSUME TypeInv, FramesLeft PROVE Allocates
  OBVIOUS
<1>1. free \subseteq Nat
  BY VmmAssumption DEF TypeInv, TypeOK, Frames
<1> QED BY <1>1, MinIn DEF FramesLeft, Allocates

\* The invariant holds while frames last.
LEMMA AlwaysIInv == Spec /\ []FramesLeft => []IInv
<1>1. IInv /\ FramesLeft /\ [Next]_vars => IInv'
  BY LeftAllocates, StepKeepsIInv DEF IInv
<1> QED BY <1>1, InitIInv, PTL DEF Spec

\* While frames last, tables hold entries, roots and the table of a walk are
\* allocated frames, and a walk goes no deeper than four levels.
THEOREM TypeCorrect == Spec /\ []FramesLeft => []TypeOK
BY AlwaysIInv, PTL DEF IInv, TypeInv

\* "The leaf is what decides" (vmm.hpp), for every sequence of calls and every
\* way they share tables, while frames last: ensure_table widens what it passes
\* through just enough.
THEOREM LeafAlwaysDecides == Spec /\ []FramesLeft => []LeafDecides
BY AlwaysIInv, IInvLeafDecides, PTL

\* "Every function refuses to replace an existing mapping" (vmm.hpp): while
\* frames last, no step of any call, and no other space's, changes the frame
\* or the rights of a page that is mapped.
THEOREM MappingsStay == Spec /\ []FramesLeft => NoReplace
<1> DEFINE Grow == \A s \in Space : Translations(s) \subseteq Translations(s)'
<1>1. IInv /\ IInv' /\ FramesLeft /\ [Next]_vars => [Grow]_vars
  <2>1. IInv' => LeafDecides'
    BY IInvLeafDecides, PTL
  <2> SUFFICES ASSUME IInv, IInv', FramesLeft, Next PROVE Grow
    OBVIOUS
  <2>2. PICK lv \in [Frames -> 0 .. 4] : Shape(lv)
    BY DEF IInv
  <2>3. Keeps(lv)
    BY <2>2, LeftAllocates, StepKeeps DEF IInv
  <2> QED BY <2>1, <2>2, <2>3, IInvLeafDecides, TranslationsGrow DEF IInv
<1> QED BY <1>1, AlwaysIInv, PTL DEF Spec, NoReplace

-----------------------------------------------------------------------------
(***************************************************************************)
(* Trees                                                                   *)
(***************************************************************************)

\* The trees hold together while frames last.
LEMMA AlwaysTInv == Spec /\ []FramesLeft => []TInv
<1>1. TInv /\ FramesLeft /\ [Next]_vars => TInv'
  BY LeftAllocates, StepKeepsTInv DEF TInv, IInv
<1> QED BY <1>1, InitTInv, PTL DEF Spec

\* The links of the upper three levels are one for each table that is no root.
LEMMA LinksCount ==
    ASSUME TInv, NEW lv \in [Frames -> 0 .. 4], Shape(lv)
    PROVE  Cardinality(Links(Roots \cup Pdpts \cup Pds)) = Cardinality(Tables \ Roots)
<1> DEFINE U == Roots \cup Pdpts \cup Pds
           B == Tables \ Roots
           f == [l \in Links(U) |-> Target(l[1], l[2])]
<1>1. TypeInv /\ NoneLost
  BY DEF TInv, IInv
<1>2. \A t \in U : t \in Tables /\ lv[t] \in 1 .. 3
  BY <1>1, Levels DEF OfLevel
<1>3. IsFiniteSet(B)
  <2>1. IsFiniteSet(0 .. NumFrames - 1)
    BY FS_Interval, VmmAssumption
  <2>2. B \subseteq 0 .. NumFrames - 1
    BY VmmAssumption, Zenon DEF Tables, Frames
  <2> QED BY <2>1, <2>2, FS_Subset, Zenon
<1>4. ASSUME NEW l \in Links(U)
      PROVE  /\ l \in U \X Index /\ l[1] \in Tables /\ l[2] \in Index /\ IsLink(lv, l[1], l[2])
             /\ Target(l[1], l[2]) \in B
  <2>1. /\ l \in U \X Index /\ l[1] \in U /\ l[2] \in Index
        /\ IsPresent(mem[l[1]][l[2]]) /\ ~ IsHuge(mem[l[1]][l[2]])
    BY DEF Links
  <2>2. IsLink(lv, l[1], l[2])
    BY <1>2, <2>1 DEF IsLink
  <2>3. Target(l[1], l[2]) \in Tables /\ lv[Target(l[1], l[2])] = lv[l[1]] + 1
    BY <1>2, <2>1, <2>2 DEF Shape, LinksOK
  <2>4. lv[Target(l[1], l[2])] # 1
    BY <1>2, <2>1, <2>3
  <2>5. Target(l[1], l[2]) \notin Roots
    BY <1>1, <2>4, RootsLevel DEF OfLevel
  <2> QED BY <1>2, <2>1, <2>2, <2>3, <2>5
<1>5. f \in Injection(Links(U), B)
  <2>1. f \in [Links(U) -> B]
    BY <1>4, Zenon
  <2>2. ASSUME NEW l \in Links(U), NEW m \in Links(U), f[l] = f[m]
        PROVE  l = m
    <3>1. Target(l[1], l[2]) = Target(m[1], m[2])
      BY <2>2
    <3>a. l[1] \in Tables /\ l[2] \in Index /\ IsLink(lv, l[1], l[2])
      BY <1>4, Zenon
    <3>b. m[1] \in Tables /\ m[2] \in Index /\ IsLink(lv, m[1], m[2])
      BY <1>4, Zenon
    <3>2. l[1] = m[1] /\ l[2] = m[2]
      BY ONLY <3>1, <3>a, <3>b, SameLink, Shape(lv)
    <3>3. l \in U \X Index /\ m \in U \X Index
      BY <1>4
    <3> HIDE DEF U
    <3> QED BY <3>2, <3>3
  <2> HIDE DEF f, U, B
  <2> QED BY <2>1, <2>2 DEF Injection, IsInjective
<1>6. f \in Surjection(Links(U), B)
  <2>1. f \in [Links(U) -> B]
    BY <1>4, Zenon
  <2>2. ASSUME NEW u \in B PROVE \E l \in Links(U) : f[l] = u
    <3>1. u \in Below(Roots) \/ u \in Below(Pdpts) \/ u \in Below(Pds)
      BY <1>1, <2>2 DEF NoneLost, Pdpts, Pds, Pts
    <3>2. PICK S \in {Roots, Pdpts, Pds} : u \in Below(S)
      BY <3>1
    <3>3. PICK l \in Links(S) : u = mem[l[1]][l[2]].addr \div kPageSize
      BY <3>2 DEF Below
    <3>4. S \subseteq U
      OBVIOUS
    <3>5. l \in Links(U)
      BY <3>4 DEF Links
    <3> QED BY <3>3, <3>5 DEF Target
  <2> HIDE DEF f, U, B
  <2> QED BY <2>1, <2>2 DEF Surjection
<1> HIDE DEF f, U, B
<1>7. Cardinality(Links(U)) = Cardinality(B)
  BY <1>3, <1>5, <1>6, FS_Injection
<1> QED BY <1>7 DEF U, B

\* The trees, by the invariant.
LEMMA TInvTrees == TInv => TablesFormTrees
<1> SUFFICES ASSUME TInv PROVE TablesFormTrees
  OBVIOUS
<1>1. PICK lv \in [Frames -> 0 .. 4] : Shape(lv)
  BY DEF TInv, IInv
<1>2. TypeInv /\ NoneLost /\ RootsDistinct
  BY DEF TInv, IInv
<1>3. Roots \cup Pdpts \cup Pds \cup Pts = Tables
  BY <1>1, <1>2, Levels DEF OfLevel, NoneLost
<1>4. IsFiniteSet(Tables)
  <2>1. IsFiniteSet(0 .. NumFrames - 1)
    BY FS_Interval, VmmAssumption
  <2>2. Tables \subseteq 0 .. NumFrames - 1
    BY VmmAssumption, Zenon DEF Tables, Frames
  <2> QED BY <2>1, <2>2, FS_Subset, Zenon
<1>5. IsFiniteSet(Roots) /\ IsFiniteSet(Tables \ Roots)
  <2>1. Roots \subseteq Tables
    BY <1>3
  <2> QED BY <1>4, <2>1, FS_Subset
<1>6. Cardinality(Tables) = Cardinality(Roots) + Cardinality(Tables \ Roots)
  <2>1. Roots \cup (Tables \ Roots) = Tables /\ Roots \cap (Tables \ Roots) = {}
    BY <1>3
  <2>2. Cardinality(Roots \cup (Tables \ Roots)) =
            Cardinality(Roots) + Cardinality(Tables \ Roots) - Cardinality(Roots \cap (Tables \ Roots))
    BY <1>5, FS_Union
  <2>3. Cardinality(Roots) \in Nat /\ Cardinality(Tables \ Roots) \in Nat
    BY <1>5, FS_CardinalityType
  <2>4. Cardinality(Roots \cap (Tables \ Roots)) = 0
    BY <2>1, FS_EmptySet, Zenon
  <2>5. Cardinality(Tables) = Cardinality(Roots) + Cardinality(Tables \ Roots) - 0
    BY <2>1, <2>2, <2>4, Zenon
  <2> QED BY <2>3, <2>5
<1>7. Cardinality(Roots) + Cardinality(Links(Roots \cup Pdpts \cup Pds)) = Cardinality(Tables)
  BY <1>1, <1>6, LinksCount
<1> QED BY <1>2, <1>3, <1>7, Zenon DEF TablesFormTrees, RootsDistinct, Roots, Pdpts, Pds, Pts, Tables

\* The tables of all spaces are trees, for every sequence of calls while frames
\* last: each allocated frame is a root or is reached through exactly one entry,
\* at one level; no table is shared between spaces, none is free, and none is
\* lost by a call that fails after ensure_table has allocated.
THEOREM AlwaysTrees == Spec /\ []FramesLeft => []TablesFormTrees
BY AlwaysTInv, TInvTrees, PTL

-----------------------------------------------------------------------------
(***************************************************************************)
(* Maps, requests and translate                                            *)
(***************************************************************************)

\* The invariant holds while frames last.
LEMMA AlwaysWInv == Spec /\ []FramesLeft => []WInv
<1>1. WInv /\ FramesLeft /\ [Next]_vars => WInv'
  BY LeftAllocates, StepKeepsWInv DEF WInv, TInv, IInv
<1> QED BY <1>1, InitWInv, PTL DEF Spec

\* The tables implement AddressMap as long as the allocator has frames: whatever
\* calls are made and wherever they fail, a step of map_page, map_page_large or a
\* range maps one small or one large page that was unmapped, or maps nothing.
THEOREM RefinesAddressMap == Spec /\ []FramesLeft => ImplementsAddressMap
<1>1. Init => Abstract!AInit
  <2> SUFFICES ASSUME Init, NEW s \in Space PROVE Translations(s) = {}
    BY DEF Abstract!AInit
  <2>1. pml4[s] = NoTable
    BY DEF Init
  <2>2. Walks(s) = {}
    BY <2>1 DEF Walks
  <2> QED BY <2>2 DEF Translations
<1>2. WInv /\ WInv' /\ FramesLeft /\ [Next]_vars
         => [Abstract!ANext]_([s \in Space |-> Translations(s)])
  BY LeftAllocates, StepRefines DEF WInv, TInv, IInv
<1> QED BY <1>1, <1>2, AlwaysWInv, PTL DEF Spec, ImplementsAddressMap, Abstract!ASpec

\* At every moment of a call every page below done has the frame and the rights
\* asked for, and a call that reports success has mapped all of its request.
THEOREM AlwaysRequestMapped == Spec /\ []FramesLeft => []RequestMapped
<1>1. Init => RequestMapped
  BY DEF Init, RequestMapped
<1>2. WInv /\ WInv' /\ RequestMapped /\ FramesLeft /\ [Next]_vars => RequestMapped'
  BY LeftAllocates, StepKeepsRequest DEF WInv, TInv, IInv
<1> QED BY <1>1, <1>2, AlwaysWInv, PTL DEF Spec

\* translate, walking the tables in software, finds for every address what the
\* CPU would: the byte of the frame its page is mapped to, by a small or a large
\* page, or 0 where nothing is mapped or the address is not canonical.
THEOREM TranslateAlwaysAgrees == Spec /\ []FramesLeft => []TranslateAgrees
<1>1. WInv => TranslateAgrees
  <2> SUFFICES ASSUME WInv, NEW s \in Space, NEW page \in 0 .. kUint64Max \div kPageSize,
                      NEW byte \in 0 .. kPageSize - 1
               PROVE  translate(s, page * kPageSize + byte) \in
                          IF FramesOf(s, page) = {} THEN {0}
                          ELSE {f * kPageSize + byte : f \in FramesOf(s, page)}
    BY Zenon DEF TranslateAgrees, FramesOf
  <2>1. page \in Nat
    BY Spans, PagingAssumption DEF kUint64Max
  <2> QED BY <2>1, ByteTranslates
<1> QED BY <1>1, AlwaysWInv, PTL

=============================================================================
