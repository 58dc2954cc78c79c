--------------------------- MODULE VmmRefinement ----------------------------
(***************************************************************************)
(* Seen through page walks, the tables of Vmm are the maps of AddressMap:  *)
(* no step takes a translation away, and each adds only those it should.   *)
(***************************************************************************)
EXTENDS VmmBase

-----------------------------------------------------------------------------
(***************************************************************************)
(* Paths through the tables of the call                                    *)
(***************************************************************************)

\* The tables of a way down from the root of a space: one of each level, each
\* linked to the next by an index of the address.
Chain(lv, s, address, n, t) ==
    /\ pml4[s] # NoTable /\ t[1] = pml4[s]
    /\ \A k \in 1 .. n : t[k] \in Tables /\ lv[t[k]] = k
    /\ \A k \in 1 .. n - 1 : /\ IsLink(lv, t[k], IndexAt(k, address))
                             /\ t[k + 1] = Target(t[k], IndexAt(k, address))

\* If the entries of a way down are links one by one, it is a chain.
LEMMA ChainBuilt ==
    ASSUME TypeInv, NEW lv, Shape(lv), NEW s \in Space, pml4[s] # NoTable,
           NEW address \in Nat, NEW n \in 1 .. 4, NEW t, t[1] = pml4[s],
           \A k \in 1 .. n - 1 : t[k] \in Tables /\ lv[t[k]] = k =>
               /\ IsPresent(mem[t[k]][IndexAt(k, address)]) /\ ~ IsHuge(mem[t[k]][IndexAt(k, address)])
               /\ t[k + 1] = Target(t[k], IndexAt(k, address))
    PROVE  Chain(lv, s, address, n, t)
<1> DEFINE T(k) == t[k] \in Tables /\ lv[t[k]] = k
           L(k) == /\ IsLink(lv, t[k], IndexAt(k, address))
                   /\ t[k + 1] = Target(t[k], IndexAt(k, address))
<1>1. T(1)
  BY DEF TypeInv, TypeOK, Tables, Shape, LevelsOK
<1>2. ASSUME NEW k \in 1 .. n - 1, T(k) PROVE L(k) /\ T(k + 1)
  <2>1. /\ IsPresent(mem[t[k]][IndexAt(k, address)]) /\ ~ IsHuge(mem[t[k]][IndexAt(k, address)])
        /\ t[k + 1] = Target(t[k], IndexAt(k, address))
    BY <1>2
  <2>2. IsLink(lv, t[k], IndexAt(k, address))
    BY <1>2, <2>1 DEF IsLink
  <2>3. IndexAt(k, address) \in Index
    BY IndexInTable
  <2>4. T(k + 1)
    BY <1>2, <2>1, <2>2, <2>3 DEF Shape, LinksOK
  <2> QED BY <2>1, <2>2, <2>4
<1> HIDE DEF T, L
<1>3. n > 1 => L(1) /\ T(2)
  BY <1>1, <1>2
<1>4. n > 2 => L(2) /\ T(3)
  BY <1>2, <1>3
<1>5. n > 3 => L(3) /\ T(4)
  BY <1>2, <1>4
<1>6. \A k \in 1 .. n : T(k)
  BY <1>1, <1>3, <1>4, <1>5
<1>7. \A k \in 1 .. n - 1 : L(k)
  BY <1>3, <1>4, <1>5
<1> QED BY <1>6, <1>7 DEF Chain, T, L

\* Chains that meet are one, in one space, with the same indices.
LEMMA ChainsMeet ==
    ASSUME RootsDistinct, NEW lv, Shape(lv), NEW s \in Space, NEW r \in Space,
           NEW a \in Nat, NEW b \in Nat, NEW n \in 1 .. 4, NEW t, NEW u,
           Chain(lv, s, a, n, t), Chain(lv, r, b, n, u), t[n] = u[n]
    PROVE  s = r /\ \A k \in 1 .. n - 1 : IndexAt(k, a) = IndexAt(k, b)
<1> DEFINE E(k) == t[k] = u[k]
           I(k) == IndexAt(k, a) = IndexAt(k, b)
<1>1. ASSUME NEW k \in 1 .. n - 1, E(k + 1) PROVE E(k) /\ I(k)
  <2>1. /\ IsLink(lv, t[k], IndexAt(k, a)) /\ t[k + 1] = Target(t[k], IndexAt(k, a))
        /\ t[k] \in Tables
    BY DEF Chain
  <2>2. /\ IsLink(lv, u[k], IndexAt(k, b)) /\ u[k + 1] = Target(u[k], IndexAt(k, b))
        /\ u[k] \in Tables
    BY DEF Chain
  <2>3. IndexAt(k, a) \in Index /\ IndexAt(k, b) \in Index
    BY IndexInTable
  <2> QED BY <1>1, <2>1, <2>2, <2>3, SameLink, ZenonT(30)
<1> HIDE DEF E, I
<1>2. E(n)
  BY DEF E
<1>3. n = 4 => E(3) /\ I(3)
  BY <1>1, <1>2
<1>4. n >= 3 => E(2) /\ I(2)
  BY <1>1, <1>2, <1>3
<1>5. n >= 2 => E(1) /\ I(1)
  BY <1>1, <1>2, <1>4
<1>6. E(1)
  BY <1>2, <1>5
<1>7. s = r
  BY <1>6, ZenonT(30) DEF E, Chain, RootsDistinct
<1>8. \A k \in 1 .. n - 1 : I(k)
  BY <1>3, <1>4, <1>5
<1> QED BY <1>7, <1>8 DEF I

\* A chain is determined by its space and its indices.
LEMMA ChainsSame ==
    ASSUME NEW lv, NEW s, NEW a, NEW b, NEW n \in 1 .. 4, NEW t, NEW u,
           Chain(lv, s, a, n, t), Chain(lv, s, b, n, u),
           \A k \in 1 .. n - 1 : IndexAt(k, a) = IndexAt(k, b)
    PROVE  \A k \in 1 .. n : t[k] = u[k]
<1> DEFINE E(k) == t[k] = u[k]
<1>1. E(1)
  BY DEF Chain
<1>2. ASSUME NEW k \in 1 .. n - 1, E(k) PROVE E(k + 1)
  BY <1>2 DEF Chain
<1> HIDE DEF E
<1>3. n > 1 => E(2)
  BY <1>1, <1>2
<1>4. n > 2 => E(3)
  BY <1>2, <1>3
<1>5. n > 3 => E(4)
  BY <1>2, <1>4
<1>6. \A k \in 1 .. n : E(k)
  BY <1>1, <1>3, <1>4, <1>5
<1> QED BY <1>6 DEF E

\* The way of the call in progress is a chain for its page.
LEMMA DescentChain ==
    ASSUME TypeInv, NEW lv, Shape(lv), level # 0, PageOK, NEW t, Descent(t)
    PROVE  Chain(lv, call.space, virt, level, t)
<1>1. call.status = "running" /\ level \in 1 .. 4
  BY DEF TypeInv, TypeOK
<1>2. call.space \in Space /\ pml4[call.space] # NoTable /\ virt \in Nat
  BY <1>1, WalkArgs, Running
<1>3. PICK s \in Space : s = call.space
  BY <1>2
<1>4. PICK n \in 1 .. 4 : n = level
  BY <1>1
<1>5. PICK a \in Nat : a = virt
  BY <1>2
<1>6. /\ t[1] = pml4[s]
      /\ \A k \in 1 .. n - 1 :
            /\ IsPresent(mem[t[k]][IndexAt(k, a)]) /\ ~ IsHuge(mem[t[k]][IndexAt(k, a)])
            /\ t[k + 1] = Target(t[k], IndexAt(k, a))
  BY <1>3, <1>4, <1>5 DEF Descent
<1>7. Chain(lv, s, a, n, t)
  BY <1>2, <1>3, <1>6, ChainBuilt
<1> QED BY <1>3, <1>4, <1>5, <1>7

\* A path is a chain.
LEMMA PathChain ==
    ASSUME TypeInv, NEW lv \in [Frames -> 0 .. 4], Shape(lv), NEW s \in Space, pml4[s] # NoTable,
           NEW address \in Nat, NEW n \in 2 .. 4, NEW t, IsPath(mem, pml4[s], address, n, t)
    PROVE  Chain(lv, s, address, n, t)
<1>1. PathOK(lv, address, n, t)
  BY PathLevels
<1> QED BY <1>1 DEF PathOK, Chain, IsPath

\* A path after a step is a chain before it, and a path if its entries were
\* present.
LEMMA PathBack ==
    ASSUME TypeInv, NEW lv \in [Frames -> 0 .. 4], Shape(lv), Keeps(lv),
           NEW s \in Space, pml4[s] # NoTable, NEW address \in Nat, NEW n \in 2 .. 4, NEW t,
           IsPath(mem', pml4'[s], address, n, t),
           \A k \in 1 .. n - 1 :
               t[k] \in Tables /\ lv[t[k]] = k => IsPresent(mem[t[k]][IndexAt(k, address)])
    PROVE  /\ Chain(lv, s, address, n, t)
           /\ IsPresent(mem[t[n]][IndexAt(n, address)]) => IsPath(mem, pml4[s], address, n, t)
<1> DEFINE i(k) == IndexAt(k, address)
<1>0. \A k \in 1 .. n : i(k) \in Index
  BY IndexInTable
<1>1. pml4'[s] = pml4[s] /\ t[1] = pml4[s]
  BY DEF Keeps, IsPath
<1>2. ASSUME NEW k \in 1 .. n - 1, t[k] \in Tables, lv[t[k]] = k
      PROVE  /\ IsPresent(mem[t[k]][i(k)]) /\ ~ IsHuge(mem[t[k]][i(k)])
             /\ t[k + 1] = Target(t[k], i(k))
  <2>1. IsPresent(mem[t[k]][i(k)]) /\ i(k) \in Index
    BY <1>0, <1>2
  <2>2. /\ IsHuge(mem'[t[k]][i(k)]) <=> IsHuge(mem[t[k]][i(k)])
        /\ mem'[t[k]][i(k)].addr = mem[t[k]][i(k)].addr
    BY <1>2, <2>1 DEF Keeps
  <2>3. ~ IsHuge(mem[t[k]][i(k)])
    <3>1. CASE k = 1
      BY <1>2, <2>1, <3>1 DEF Shape, LinksOK
    <3>2. CASE k > 1
      BY <2>2, <3>2 DEF IsPath
    <3> QED BY <3>1, <3>2
  <2>4. t[k + 1] = Target(t[k], i(k))
    BY <2>2 DEF IsPath, Target
  <2> QED BY <2>1, <2>3, <2>4
<1>3. Chain(lv, s, address, n, t)
  BY <1>1, <1>2, ChainBuilt
<1>4. ASSUME IsPresent(mem[t[n]][i(n)])
      PROVE  IsPath(mem, pml4[s], address, n, t)
  <2>1. \A k \in 1 .. n : t[k] \in Tables /\ lv[t[k]] = k
    BY <1>3 DEF Chain
  <2>2. \A k \in 1 .. n - 1 :
            /\ IsPresent(mem[t[k]][i(k)]) /\ ~ IsHuge(mem[t[k]][i(k)])
            /\ t[k + 1] = mem[t[k]][i(k)].addr \div kPageSize
    <3> SUFFICES ASSUME NEW k \in 1 .. n - 1
                 PROVE  /\ IsPresent(mem[t[k]][i(k)]) /\ ~ IsHuge(mem[t[k]][i(k)])
                        /\ t[k + 1] = mem[t[k]][i(k)].addr \div kPageSize
      OBVIOUS
    <3>1. t[k] \in Tables /\ lv[t[k]] = k
      BY <2>1
    <3> QED BY <1>2, <3>1 DEF Target
  <2>3. n < 4 => IsHuge(mem[t[n]][i(n)])
    <3>1. n \in 1 .. n
      OBVIOUS
    <3>2. IsHuge(mem'[t[n]][i(n)]) <=> IsHuge(mem[t[n]][i(n)])
      BY <1>0, <1>4, <2>1, <3>1 DEF Keeps
    <3> QED BY <3>2 DEF IsPath
  <2> QED BY <1>1, <1>4, <2>2, <2>3 DEF IsPath
<1> QED BY <1>3, <1>4

\* A step after which the paths of a space are those it had.
NoNewPath(s) ==
    \A address \in Nat, n \in 2 .. 4 : \A t :
        pml4'[s] # NoTable /\ IsPath(mem', pml4'[s], address, n, t)
            => pml4[s] # NoTable /\ IsPath(mem, pml4[s], address, n, t)

\* Such a step maps nothing: the translations are the same.
LEMMA SameTranslations ==
    ASSUME TypeInv, NEW lv \in [Frames -> 0 .. 4], Shape(lv), Keeps(lv),
           PathsTranslate, PathsTranslate', LeafDecides, LeafDecides',
           NEW s \in Space, NoNewPath(s)
    PROVE  Translations(s)' = Translations(s)
<1>1. Translations(s) \subseteq Translations(s)'
  BY TranslationsGrow
<1>2. ASSUME NEW x \in Translations(s)' PROVE x \in Translations(s)
  <2>1. /\ pml4'[s] # NoTable
        /\ \E page \in Page, n \in 2 .. 4 : \E t : Translates(mem', pml4'[s], page, n, t, x)
    BY <1>2 DEF PathsTranslate
  <2>2. PICK page \in Page, n \in 2 .. 4 : \E t : Translates(mem', pml4'[s], page, n, t, x)
    BY <2>1
  <2>3. PICK t : Translates(mem', pml4'[s], page, n, t, x)
    BY <2>2
  <2>4. PICK address \in Nat : address = page * kPageSize
    BY PageAddress
  <2>5. /\ IsPath(mem', pml4'[s], address, n, t)
        /\ x = TransOf(page, n, mem'[t[n]][IndexAt(n, address)])
    BY <2>3, <2>4 DEF Translates
  <2>6. pml4[s] # NoTable /\ IsPath(mem, pml4[s], address, n, t)
    BY <2>1, <2>5 DEF NoNewPath
  <2>7. mem'[t[n]][IndexAt(n, address)] = mem[t[n]][IndexAt(n, address)]
    BY <2>6, PathKept
  <2>8. Translates(mem, pml4[s], page, n, t, x)
    BY <2>4, <2>5, <2>6, <2>7 DEF Translates
  <2> QED BY <2>6, <2>8 DEF PathsTranslate
<1> QED BY <1>1, <1>2

\* create_address_space gives its space an empty root, and changes no table.
LEMMA CreateNoPath ==
    ASSUME TypeInv, Allocates, NEW lv \in [Frames -> 0 .. 4], Shape(lv),
           NEW r \in Space, create_address_space(r), NEW s \in Space
    PROVE  NoNewPath(s)
<1>1. CASE ~ TableAllocated
  BY <1>1 DEF create_address_space, NoNewPath
<1>2. CASE TableAllocated
  <2>1. PICK n \in free : n = NewTable /\ n \in Frames
    BY NewTableFree
  <2>2. /\ mem' = [mem EXCEPT ![n] = ZeroTable] /\ free' = free \ {n}
        /\ pml4' = [pml4 EXCEPT ![r] = n]
    BY <1>2, <2>1 DEF create_address_space, WithNewTable
  <2>3. \A ix \in Index : ~ IsPresent(mem'[n][ix])
    BY <2>1, <2>2 DEF TypeInv, TypeOK, ZeroTable, NoEntry, IsPresent
  <2>4. \A u \in Tables : mem'[u] = mem[u]
    BY <2>2, VmmAssumption DEF TypeInv, TypeOK, Tables
  <2>5. pml4'[s] = n \/ pml4'[s] = pml4[s]
    BY <2>2 DEF TypeInv, TypeOK
  <2>6. Keeps(lv)
    BY CreateKeeps
  <2> SUFFICES ASSUME NEW address \in Nat, NEW m \in 2 .. 4, NEW t,
                      pml4'[s] # NoTable, IsPath(mem', pml4'[s], address, m, t)
               PROVE  pml4[s] # NoTable /\ IsPath(mem, pml4[s], address, m, t)
    BY DEF NoNewPath
  <2>7. \A k \in 1 .. m : IsPresent(mem'[t[k]][IndexAt(k, address)])
    BY DEF IsPath
  <2>8. pml4'[s] # n
    <3>1. 1 \in 1 .. m /\ IndexAt(1, address) \in Index /\ t[1] = pml4'[s]
      BY IndexInTable DEF IsPath
    <3> QED BY <2>3, <2>7, <3>1
  <2>9. pml4[s] # NoTable
    BY <2>5, <2>8
  <2>10. \A k \in 1 .. m : t[k] \in Tables => IsPresent(mem[t[k]][IndexAt(k, address)])
    BY <2>4, <2>7
  <2>11. /\ Chain(lv, s, address, m, t)
         /\ IsPresent(mem[t[m]][IndexAt(m, address)]) => IsPath(mem, pml4[s], address, m, t)
    BY <2>6, <2>9, <2>10, PathBack
  <2>12. t[m] \in Tables /\ m \in 1 .. m
    BY <2>11 DEF Chain
  <2> QED BY <2>9, <2>10, <2>11, <2>12
<1> QED BY <1>1, <1>2

\* A new table is empty, so no path leads through the link to it.
LEMMA LinkNoPath ==
    ASSUME TypeInv, NEW lv \in [Frames -> 0 .. 4], Shape(lv), Keeps(lv),
           NEW k \in 1 .. 3, NEW a \in Tables, NEW i \in Index,
           NEW n \in free, n \in Frames, Linked(k, a, i, n), NEW s \in Space
    PROVE  NoNewPath(s)
<1>1. /\ pml4' = pml4 /\ lv[a] = k /\ ChangesOnly(a, i) /\ Target(a, i)' = n
      /\ \A ix \in Index : mem'[n][ix] = NoEntry
      /\ mem'[a][i].flags = intermediate_flags
  BY DEF Linked, Shape, LevelsOK
<1>2. ~ IsHuge(mem'[a][i]) /\ \A ix \in Index : ~ IsPresent(mem'[n][ix])
  BY <1>1 DEF intermediate_flags, IsHuge, NoEntry, IsPresent
<1> SUFFICES ASSUME NEW address \in Nat, NEW m \in 2 .. 4, NEW t,
                    pml4'[s] # NoTable, IsPath(mem', pml4'[s], address, m, t)
             PROVE  pml4[s] # NoTable /\ IsPath(mem, pml4[s], address, m, t)
  BY DEF NoNewPath
<1> DEFINE j(q) == IndexAt(q, address)
<1>3. pml4[s] # NoTable
  BY <1>1
<1>4. \A q \in 1 .. m : j(q) \in Index /\ IsPresent(mem'[t[q]][j(q)])
  BY IndexInTable DEF IsPath
<1>5. ASSUME NEW q \in 1 .. m, t[q] = a, j(q) = i, lv[a] = q PROVE FALSE
  <2>1. CASE q = m
    <3>1. m < 4
      BY <1>1, <1>5, <2>1
    <3>2. IsHuge(mem'[t[m]][j(m)])
      BY <3>1 DEF IsPath
    <3> QED BY <1>2, <1>5, <2>1, <3>2
  <2>2. CASE q # m
    <3>1. q \in 1 .. m - 1 /\ q + 1 \in 1 .. m
      BY <2>2
    <3>2. t[q + 1] = n
      BY <1>1, <1>5, <3>1 DEF IsPath, Target
    <3> QED BY <1>2, <1>4, <3>1, <3>2
  <2> QED BY <2>1, <2>2
<1>6. ASSUME NEW q \in 1 .. m, t[q] \in Tables, lv[t[q]] = q
      PROVE  IsPresent(mem[t[q]][j(q)])
  <2>1. ~ (t[q] = a /\ j(q) = i)
    BY <1>5, <1>6
  <2>2. mem'[t[q]][j(q)] = mem[t[q]][j(q)]
    BY <1>1, <1>4, <1>6, <2>1 DEF ChangesOnly
  <2> QED BY <1>4, <2>2
<1>7. /\ Chain(lv, s, address, m, t)
      /\ IsPresent(mem[t[m]][j(m)]) => IsPath(mem, pml4[s], address, m, t)
  BY <1>3, <1>6, PathBack
<1>8. t[m] \in Tables /\ lv[t[m]] = m /\ m \in 1 .. m
  BY <1>7 DEF Chain
<1> QED BY <1>3, <1>6, <1>7, <1>8

\* More rights on a link make no path.
LEMMA WidenNoPath ==
    ASSUME TypeInv, NEW lv \in [Frames -> 0 .. 4], Shape(lv), Keeps(lv),
           NEW k \in 1 .. 3, NEW a \in Tables, NEW i \in Index, Widened(k, a, i), NEW s \in Space
    PROVE  NoNewPath(s)
<1>1. pml4' = pml4 /\ ChangesOnly(a, i) /\ IsPresent(mem[a][i])
  BY DEF Widened
<1> SUFFICES ASSUME NEW address \in Nat, NEW m \in 2 .. 4, NEW t,
                    pml4'[s] # NoTable, IsPath(mem', pml4'[s], address, m, t)
             PROVE  pml4[s] # NoTable /\ IsPath(mem, pml4[s], address, m, t)
  BY DEF NoNewPath
<1> DEFINE j(q) == IndexAt(q, address)
<1>3. pml4[s] # NoTable
  BY <1>1
<1>4. \A q \in 1 .. m : j(q) \in Index /\ IsPresent(mem'[t[q]][j(q)])
  BY IndexInTable DEF IsPath
<1>6. ASSUME NEW q \in 1 .. m, t[q] \in Tables
      PROVE  IsPresent(mem[t[q]][j(q)])
  BY <1>1, <1>4, <1>6 DEF ChangesOnly
<1>7. /\ Chain(lv, s, address, m, t)
      /\ IsPresent(mem[t[m]][j(m)]) => IsPath(mem, pml4[s], address, m, t)
  BY <1>3, <1>6, PathBack
<1>8. t[m] \in Tables /\ m \in 1 .. m
  BY <1>7 DEF Chain
<1> QED BY <1>3, <1>6, <1>7, <1>8

\* ensure_table maps nothing.
LEMMA EnsureNoPath ==
    ASSUME TypeInv, Allocates, NEW lv \in [Frames -> 0 .. 4], Shape(lv), ensure_table, NEW s \in Space
    PROVE  NoNewPath(s)
<1>0. Keeps(lv)
  BY EnsureKeeps
<1>1. /\ call.status = "running" /\ level \in 1 .. LeafLevel - 1 /\ LeafLevel \in {3, 4}
      /\ EnsureFails \/ EnsureNew \/ EnsureOld
  BY EnsureCases, Running
<1>2. PICK k \in 1 .. 3 : level = k
  BY <1>1
<1>3. PICK a \in Tables : at = a
  BY <1>1, AtEntry
<1>4. PICK i \in Index : slot = i
  BY <1>1, AtEntry
<1>5. CASE EnsureFails
  BY <1>5 DEF EnsureFails, NoNewPath
<1>6. CASE EnsureNew
  <2>1. PICK n \in free : n = NewTable /\ n \in Frames
    BY NewTableFree
  <2>2. Linked(k, a, i, n)
    BY <1>1, <1>2, <1>3, <1>4, <1>6, <2>1, NewLinkEffect
  <2> QED BY <1>0, <2>1, <2>2, LinkNoPath
<1>7. CASE EnsureOld
  <2>1. Widened(k, a, i)
    BY <1>1, <1>2, <1>3, <1>4, <1>7, WidenEffect
  <2> QED BY <1>0, <2>1, WidenNoPath
<1> QED BY <1>1, <1>5, <1>6, <1>7

\* The one new entry of write_leaf is the last of every path through it.
LEMMA LeafPaths ==
    ASSUME TypeInv, NEW lv \in [Frames -> 0 .. 4], Shape(lv), Keeps(lv),
           NEW k \in {3, 4}, NEW a \in Tables, NEW i \in Index, Mapped(k, a, i),
           NEW s \in Space, NEW address \in Nat, NEW m \in 2 .. 4, NEW t,
           pml4'[s] # NoTable, IsPath(mem', pml4'[s], address, m, t)
    PROVE  /\ Chain(lv, s, address, m, t)
           /\ \/ IsPath(mem, pml4[s], address, m, t)
              \/ m = k /\ t[m] = a /\ IndexAt(m, address) = i
<1> DEFINE j(q) == IndexAt(q, address)
<1>1. /\ pml4' = pml4 /\ ChangesOnly(a, i) /\ lv[a] = k
      /\ k = 3 => IsHuge(mem'[a][i])
  BY DEF Mapped, Shape, LevelsOK
<1>3. pml4[s] # NoTable
  BY <1>1
<1>4. \A q \in 1 .. m : j(q) \in Index /\ IsPresent(mem'[t[q]][j(q)])
  BY IndexInTable DEF IsPath
<1>5. ASSUME NEW q \in 1 .. m, t[q] \in Tables, ~ (t[q] = a /\ j(q) = i)
      PROVE  IsPresent(mem[t[q]][j(q)])
  BY <1>1, <1>4, <1>5 DEF ChangesOnly
<1>6. ASSUME NEW q \in 1 .. m - 1, t[q] \in Tables, lv[t[q]] = q
      PROVE  IsPresent(mem[t[q]][j(q)])
  <2>1. ~ (t[q] = a /\ j(q) = i)
    <3> SUFFICES ASSUME t[q] = a, j(q) = i PROVE FALSE
      OBVIOUS
    <3>1. q = 3 /\ k = 3
      BY <1>1, <1>6
    <3>2. ~ IsHuge(mem'[t[q]][j(q)])
      BY <3>1 DEF IsPath
    <3> QED BY <1>1, <3>1, <3>2
  <2> QED BY <1>5, <1>6, <2>1
<1>7. /\ Chain(lv, s, address, m, t)
      /\ IsPresent(mem[t[m]][j(m)]) => IsPath(mem, pml4[s], address, m, t)
  BY <1>3, <1>6, PathBack
<1>8. t[m] \in Tables /\ lv[t[m]] = m /\ m \in 1 .. m
  BY <1>7 DEF Chain
<1>9. CASE t[m] = a /\ j(m) = i
  BY <1>1, <1>7, <1>8, <1>9
<1>10. CASE ~ (t[m] = a /\ j(m) = i)
  BY <1>5, <1>7, <1>8, <1>10
<1> QED BY <1>9, <1>10

\* Every page below the entry that write_leaf writes is mapped through it.
LEMMA LeafMapsBlock ==
    ASSUME TypeInv, NEW lv \in [Frames -> 0 .. 4], Shape(lv), Keeps(lv),
           NEW k \in {3, 4}, NEW a \in Tables, NEW i \in Index, Mapped(k, a, i),
           NEW s \in Space, NEW v \in Nat, is_canonical(v), IndexAt(k, v) = i,
           NEW u, Chain(lv, s, v, k, u), u[k] = a, NEW page \in Block(k, v)
    PROVE  /\ pml4'[s] # NoTable
           /\ IsPath(mem', pml4'[s], page * kPageSize, k, u)
           /\ IndexAt(k, page * kPageSize) = i
<1>1. PICK b \in Nat : b = page * kPageSize
  BY PageAddress DEF Block
<1>2. is_canonical(b) /\ b \div Span[k] = v \div Span[k]
  BY <1>1 DEF Block, Page
<1>3. \A q \in 1 .. k : IndexAt(q, b) = IndexAt(q, v)
  BY <1>2, SameIndices
<1>4. /\ pml4' = pml4 /\ pml4[s] # NoTable /\ u[1] = pml4[s]
      /\ mem'[a][i] = make_page_entry(phys, LeafFlags) /\ (k = 3 => IsHuge(mem'[a][i]))
  BY DEF Mapped, Chain
<1>5. IsPresent(mem'[a][i])
  BY <1>4 DEF make_page_entry, LeafFlags, IsPresent
<1>6. ASSUME NEW q \in 1 .. k - 1
      PROVE  /\ IsPresent(mem'[u[q]][IndexAt(q, b)]) /\ ~ IsHuge(mem'[u[q]][IndexAt(q, b)])
             /\ u[q + 1] = mem'[u[q]][IndexAt(q, b)].addr \div kPageSize
  <2>1. q \in 1 .. k /\ IndexAt(q, b) = IndexAt(q, v) /\ IndexAt(q, b) \in Index
    BY <1>3, IndexInTable
  <2>2. /\ u[q] \in Tables /\ IsLink(lv, u[q], IndexAt(q, b))
        /\ u[q + 1] = Target(u[q], IndexAt(q, b))
    BY <2>1 DEF Chain
  <2>3. IsPresent(mem[u[q]][IndexAt(q, b)]) /\ ~ IsHuge(mem[u[q]][IndexAt(q, b)])
    BY <2>2 DEF IsLink
  <2>4. /\ IsPresent(mem'[u[q]][IndexAt(q, b)]) /\ ~ IsHuge(mem'[u[q]][IndexAt(q, b)])
        /\ mem'[u[q]][IndexAt(q, b)].addr = mem[u[q]][IndexAt(q, b)].addr
    BY <2>1, <2>2, <2>3 DEF Keeps
  <2> QED BY <2>2, <2>4 DEF Target
<1>7. IndexAt(k, b) = i /\ k \in 1 .. k
  BY <1>3
<1>8. k < 4 => IsHuge(mem'[u[k]][IndexAt(k, b)])
  BY <1>4, <1>7
<1>9. IsPath(mem', pml4'[s], b, k, u)
  BY <1>4, <1>5, <1>6, <1>7, <1>8, ZenonT(30) DEF IsPath
<1> QED BY <1>1, <1>4, <1>7, <1>9

\* No other page is, in no other space.
LEMMA LeafMapsOnlyBlock ==
    ASSUME TypeInv, RootsDistinct, NEW lv \in [Frames -> 0 .. 4], Shape(lv),
           NEW k \in {3, 4}, NEW s \in Space, NEW v \in Nat, is_canonical(v),
           NEW u, Chain(lv, s, v, k, u),
           NEW r \in Space, NEW page \in Page, NEW t, Chain(lv, r, page * kPageSize, k, t),
           t[k] = u[k], IndexAt(k, page * kPageSize) = IndexAt(k, v)
    PROVE  r = s /\ page \in Block(k, v)
<1>1. PICK b \in Nat : b = page * kPageSize
  BY PageAddress
<1>2. is_canonical(b)
  BY <1>1 DEF Page
<1>3. r = s /\ \A q \in 1 .. k - 1 : IndexAt(q, b) = IndexAt(q, v)
  BY <1>1, ChainsMeet
<1>4. \A q \in 1 .. k : IndexAt(q, b) = IndexAt(q, v)
  BY <1>1, <1>3
<1>5. b \div Span[k] = v \div Span[k]
  BY <1>2, <1>4, SameIndices
<1> QED BY <1>1, <1>3, <1>5 DEF Block

\* A shorter way down.
LEMMA ChainPrefix ==
    ASSUME NEW lv, NEW s, NEW a, NEW n \in 1 .. 4, NEW t, Chain(lv, s, a, n, t), NEW k \in 1 .. n
    PROVE  Chain(lv, s, a, k, t)
BY DEF Chain

\* And none of them was mapped before.
LEMMA BlockWasFree ==
    ASSUME TypeInv, NEW lv \in [Frames -> 0 .. 4], Shape(lv),
           NEW k \in {3, 4}, NEW s \in Space, NEW v \in Nat, is_canonical(v),
           NEW u, Chain(lv, s, v, k, u), ~ IsPresent(mem[u[k]][IndexAt(k, v)]),
           NEW page \in Block(k, v), NEW n \in 2 .. 4, NEW t,
           IsPath(mem, pml4[s], page * kPageSize, n, t)
    PROVE  FALSE
<1>1. PICK b \in Nat : b = page * kPageSize
  BY PageAddress DEF Block
<1>2. is_canonical(b) /\ b \div Span[k] = v \div Span[k]
  BY <1>1 DEF Block, Page
<1>3. \A q \in 1 .. k : IndexAt(q, b) = IndexAt(q, v)
  BY <1>2, SameIndices
<1>4. IsPath(mem, pml4[s], b, n, t) /\ pml4[s] # NoTable
  BY <1>1 DEF Chain
<1>5. Chain(lv, s, b, n, t)
  BY <1>4, PathChain
<1>6. CASE n >= k
  <2>1. Chain(lv, s, b, k, t)
    BY <1>5, <1>6, ChainPrefix
  <2>2. k \in 1 .. k /\ \A q \in 1 .. k - 1 : IndexAt(q, b) = IndexAt(q, v)
    BY <1>3
  <2>3. t[k] = u[k]
    BY <2>1, <2>2, ChainsSame
  <2>4. IsPresent(mem[t[k]][IndexAt(k, b)])
    BY <1>4, <1>6 DEF IsPath
  <2> QED BY <1>3, <2>2, <2>3, <2>4
<1>7. CASE n < k
  <2>1. Chain(lv, s, v, n, u)
    BY <1>7, ChainPrefix
  <2>2. n \in 1 .. n /\ n \in 1 .. 4
    BY <1>7
  <2>9. \A q \in 1 .. n - 1 : IndexAt(q, b) = IndexAt(q, v)
    BY <1>3, <1>7
  <2>3. t[n] = u[n]
    <3>1. CASE n = 2
      <4>1. Chain(lv, s, b, 2, t) /\ Chain(lv, s, v, 2, u)
        BY <1>5, <2>1, <3>1
      <4>2. \A q \in 1 .. 2 - 1 : IndexAt(q, b) = IndexAt(q, v)
        BY <2>9, <3>1
      <4>3. t[2] = u[2]
        BY <4>1, <4>2, ChainsSame
      <4> QED BY <3>1, <4>3
    <3>2. CASE n = 3
      <4>1. Chain(lv, s, b, 3, t) /\ Chain(lv, s, v, 3, u)
        BY <1>5, <2>1, <3>2
      <4>2. \A q \in 1 .. 3 - 1 : IndexAt(q, b) = IndexAt(q, v)
        BY <2>9, <3>2
      <4>3. t[3] = u[3]
        BY <4>1, <4>2, ChainsSame
      <4> QED BY <3>2, <4>3
    <3> QED BY <1>7, <3>1, <3>2
  <2>4. IsHuge(mem[t[n]][IndexAt(n, b)])
    BY <1>4, <1>7 DEF IsPath
  <2>5. ~ IsHuge(mem[u[n]][IndexAt(n, v)])
    BY <1>7 DEF Chain, IsLink
  <2>6. IndexAt(n, b) = IndexAt(n, v)
    BY <1>3, <1>7
  <2> QED BY <2>3, <2>4, <2>5, <2>6
<1> QED BY <1>6, <1>7

\* What write_leaf does to the translations: the pages below its entry become
\* mapped, in its space, none of which was.
LEMMA LeafTranslations ==
    ASSUME WInv, WInv', Allocates, LeafWritten, call.status = "running",
           NEW k \in {3, 4}, level = k, k = LeafLevel
    PROVE  /\ \A s \in Space : \A x :
                 x \in Translations(s)' <=>
                     \/ x \in Translations(s)
                     \/ /\ s = call.space
                        /\ \E page \in Block(k, virt) :
                              x = TransOf(page, k, [addr |-> phys, flags |-> LeafFlags])
           /\ \A x \in Translations(call.space), page \in Block(k, virt) : x.page # page
<1>1. PICK lv \in [Frames -> 0 .. 4] : Shape(lv)
  BY DEF WInv, TInv, IInv
<1>2. /\ IInv /\ TypeInv /\ RootsDistinct /\ Walking /\ IInv'
  BY DEF WInv, TInv, IInv
<1>3. PathsTranslate /\ PathsTranslate' /\ LeafDecides /\ LeafDecides'
  <2>1. PathsTranslate /\ LeafDecides
    BY <1>2, IInvPathsTranslate, IInvLeafDecides
  <2>2. IInv' => PathsTranslate'
    BY IInvPathsTranslate, PTL
  <2>3. IInv' => LeafDecides'
    BY IInvLeafDecides, PTL
  <2> QED BY <1>2, <2>1, <2>2, <2>3
<1>4. PICK a \in Tables : at = a
  BY <1>2, AtEntry
<1>5. PICK i \in Index : slot = i
  BY <1>2, AtEntry
<1>6. Mapped(k, a, i)
  BY <1>2, <1>4, <1>5, LeafEffect
<1>7. Keeps(lv)
  BY <1>6 DEF Keeps, Mapped, ChangesOnly
<1>8. PageOK /\ \E u \in [1 .. 4 -> Frames] : Descent(u)
  BY <1>2 DEF Walking
<1>9. PICK u \in [1 .. 4 -> Frames] : Descent(u)
  BY <1>8
<1>10. PICK v \in Nat : v = virt
  BY <1>2, Running
<1>11. PICK c \in Space : c = call.space
  BY <1>2, <1>8, WalkArgs
<1>12. is_canonical(v) /\ IndexAt(k, v) = i /\ u[k] = a /\ Chain(lv, c, v, k, u)
  <2>1. is_canonical(v)
    BY <1>2, <1>8, <1>10, WalkArgs
  <2>2. IndexAt(k, v) = i /\ u[k] = a
    BY <1>4, <1>5, <1>9, <1>10 DEF slot, Descent
  <2>3. Chain(lv, c, v, k, u)
    BY <1>1, <1>2, <1>8, <1>9, <1>10, <1>11, DescentChain
  <2> QED BY <2>1, <2>2, <2>3
<1> DEFINE e == [addr |-> phys, flags |-> LeafFlags]
<1>13. mem'[a][i] = e /\ ~ IsPresent(mem[a][i])
  BY <1>2, <1>6, <1>8, WalkArgs DEF Mapped
<1> HIDE DEF e
<1>14. ASSUME NEW s \in Space, NEW x \in Translations(s)', x \notin Translations(s)
       PROVE  s = c /\ \E page \in Block(k, v) : x = TransOf(page, k, e)
  <2>1. /\ pml4'[s] # NoTable
        /\ \E page \in Page, n \in 2 .. 4 : \E t : Translates(mem', pml4'[s], page, n, t, x)
    BY <1>3, <1>14 DEF PathsTranslate
  <2>2. PICK page \in Page, n \in 2 .. 4 : \E t : Translates(mem', pml4'[s], page, n, t, x)
    BY <2>1
  <2>3. PICK t : Translates(mem', pml4'[s], page, n, t, x)
    BY <2>2
  <2>4. PICK b \in Nat : b = page * kPageSize
    BY PageAddress
  <2>5. /\ IsPath(mem', pml4'[s], b, n, t)
        /\ x = TransOf(page, n, mem'[t[n]][IndexAt(n, b)])
    BY <2>3, <2>4 DEF Translates
  <2>6. /\ Chain(lv, s, b, n, t)
        /\ \/ IsPath(mem, pml4[s], b, n, t)
           \/ n = k /\ t[n] = a /\ IndexAt(n, b) = i
    <3>1. ASSUME NEW r \in Space, NEW d \in Nat, NEW m \in 2 .. 4, NEW p,
                 pml4'[r] # NoTable, IsPath(mem', pml4'[r], d, m, p)
          PROVE  /\ Chain(lv, r, d, m, p)
                 /\ \/ IsPath(mem, pml4[r], d, m, p)
                    \/ m = k /\ p[m] = a /\ IndexAt(m, d) = i
      BY <1>1, <1>2, <1>6, <1>7, <3>1, LeafPaths
    <3> QED BY <2>1, <2>5, <3>1, Zenon
  <2>7. ~ IsPath(mem, pml4[s], b, n, t)
    <3> SUFFICES ASSUME IsPath(mem, pml4[s], b, n, t) PROVE FALSE
      OBVIOUS
    <3>1. pml4[s] # NoTable
      BY <2>6 DEF Chain
    <3>2. mem'[t[n]][IndexAt(n, b)] = mem[t[n]][IndexAt(n, b)]
      BY <1>1, <1>2, <1>7, <3>1, PathKept
    <3>3. Translates(mem, pml4[s], page, n, t, x)
      BY <2>4, <2>5, <3>2 DEF Translates
    <3> QED BY <1>3, <1>14, <3>1, <3>3, ZenonT(30) DEF PathsTranslate
  <2>8. n = k /\ t[k] = a /\ IndexAt(k, b) = i
    BY <2>6, <2>7
  <2>9. s = c /\ page \in Block(k, v)
    BY <1>1, <1>2, <1>12, <2>4, <2>6, <2>8, LeafMapsOnlyBlock
  <2>10. x = TransOf(page, k, e)
    BY <1>13, <2>5, <2>8
  <2> QED BY <2>9, <2>10
<1>15. ASSUME NEW page \in Block(k, v), NEW x, x = TransOf(page, k, e)
       PROVE  x \in Translations(c)'
  <2>1. /\ pml4'[c] # NoTable
        /\ IsPath(mem', pml4'[c], page * kPageSize, k, u)
        /\ IndexAt(k, page * kPageSize) = i
    BY <1>1, <1>2, <1>6, <1>7, <1>12, LeafMapsBlock
  <2>2. Translates(mem', pml4'[c], page, k, u, x)
    BY <1>12, <1>13, <1>15, <2>1 DEF Translates
  <2>3. page \in Page /\ k \in 2 .. 4
    BY DEF Block
  <2> QED BY <1>3, <2>1, <2>2, <2>3 DEF PathsTranslate
<1>16. \A s \in Space : Translations(s) \subseteq Translations(s)'
  BY <1>1, <1>2, <1>3, <1>7, TranslationsGrow
<1>17. ASSUME NEW x \in Translations(c), NEW page \in Block(k, v) PROVE x.page # page
  <2> SUFFICES ASSUME x.page = page PROVE FALSE
    OBVIOUS
  <2>1. PICK p \in Page, n \in 2 .. 4 : \E t : Translates(mem, pml4[c], p, n, t, x)
    BY <1>3 DEF PathsTranslate
  <2>2. PICK t : Translates(mem, pml4[c], p, n, t, x)
    BY <2>1
  <2>3. IsPath(mem, pml4[c], p * kPageSize, n, t) /\ x.page = p
    BY <2>2 DEF Translates, TransOf
  <2>4. p = page
    BY <2>3
  <2>5. ~ IsPresent(mem[u[k]][IndexAt(k, v)])
    BY <1>12, <1>13
  <2> QED BY <1>1, <1>2, <1>12, <2>3, <2>4, <2>5, BlockWasFree
<1> QED BY <1>10, <1>11, <1>14, <1>15, <1>16, <1>17 DEF e

-----------------------------------------------------------------------------
(***************************************************************************)
(* The refinement                                                          *)
(***************************************************************************)

\* While the tables are the same, so are the translations.
LEMMA SameMemory ==
    ASSUME mem' = mem, pml4' = pml4, NEW s \in Space
    PROVE  Translations(s)' = Translations(s)
<1>1. Walks(s)' = Walks(s)
  BY Zenon DEF Walks, WalkOf
<1> QED BY <1>1, Zenon DEF Translations

\* No step but the writing of a leaf changes a translation.
LEMMA StepMaps ==
    ASSUME WInv, WInv', Allocates, [Next]_vars
    PROVE  \/ \A s \in Space : Translations(s)' = Translations(s)
           \/ LeafWritten /\ call.status = "running" /\ level = LeafLevel /\ LeafLevel \in {3, 4}
<1>1. PICK lv \in [Frames -> 0 .. 4] : Shape(lv)
  BY DEF WInv, TInv, IInv
<1>2. IInv /\ TypeInv /\ IInv'
  BY DEF WInv, TInv, IInv
<1>3. PathsTranslate /\ PathsTranslate' /\ LeafDecides /\ LeafDecides'
  <2>1. PathsTranslate /\ LeafDecides
    BY <1>2, IInvPathsTranslate, IInvLeafDecides
  <2>2. IInv' => PathsTranslate'
    BY IInvPathsTranslate, PTL
  <2>3. IInv' => LeafDecides'
    BY IInvLeafDecides, PTL
  <2> QED BY <1>2, <2>1, <2>2, <2>3
<1>4. ASSUME mem' = mem, pml4' = pml4
      PROVE  \A s \in Space : Translations(s)' = Translations(s)
  BY <1>4, SameMemory, Zenon
<1>5. CASE ensure_table
  <2>1. Keeps(lv)
    BY <1>1, <1>2, <1>5, EnsureKeeps
  <2>2. \A s \in Space : NoNewPath(s)
    BY <1>1, <1>2, <1>5, EnsureNoPath
  <2> QED BY <1>1, <1>2, <1>3, <2>1, <2>2, SameTranslations
<1>6. ASSUME NEW r \in Space, create_address_space(r)
      PROVE  \A s \in Space : Translations(s)' = Translations(s)
  <2>1. Next
    BY <1>6 DEF Next
  <2>2. Keeps(lv)
    BY <1>1, <1>2, <2>1, StepKeeps
  <2>3. \A s \in Space : NoNewPath(s)
    BY <1>1, <1>2, <1>6, CreateNoPath
  <2> QED BY <1>1, <1>2, <1>3, <2>2, <2>3, SameTranslations
<1>7. CASE write_leaf
  <2>1. /\ call.status = "running" /\ level = LeafLevel /\ LeafLevel \in {3, 4}
        /\ EnsureFails \/ LeafWritten
    BY <1>2, <1>7, LeafCases, Running
  <2>2. CASE EnsureFails
    BY <1>4, <2>2 DEF EnsureFails
  <2> QED BY <2>1, <2>2
<1>8. CASE enter_page
  BY <1>4, <1>8 DEF enter_page
<1>9. ASSUME NEW s \in Space, NEW page, NEW a, CallPage(s, page, a) \/ CallRange(s, page, a)
      PROVE  UNCHANGED <<mem, pml4>>
  BY <1>9 DEF CallPage, CallRange
<1>10. CASE UNCHANGED vars
  BY <1>4, <1>10 DEF vars
<1> QED BY <1>4, <1>5, <1>6, <1>7, <1>8, <1>9, <1>10 DEF Next, MapStep

\* A step that maps a run of unmapped pages of space r, and nothing else.
MapsRun(r, c, p, f, rights) ==
    /\ \A s \in Space \ {r} : Translations(s)' = Translations(s)
    /\ Translations(r)' = Translations(r) \cup Run(c, p, f, rights)
    /\ \A x \in Translations(r), j \in 0 .. c - 1 : x.page # p + j

\* write_leaf does so, for the page it was asked to map.
LEMMA LeafMapsRun ==
    ASSUME WInv, WInv', Allocates, LeafWritten, call.status = "running",
           level = LeafLevel, LeafLevel \in {3, 4}
    PROVE  \E r \in Space, c \in {1, kPageTableEntries}, p \in Nat, f \in Nat :
              /\ r = call.space /\ call.page = c * kPageSize
              /\ p % c = 0 /\ f % c = 0 /\ virt = p * kPageSize /\ phys = f * kPageSize
              /\ MapsRun(r, c, p, f, RightsOf(call.flags))
<1>1. PICK k \in {3, 4} : k = LeafLevel
  OBVIOUS
<1>2. TypeInv /\ PageOK
  BY DEF WInv, TInv, IInv, Walking
<1>3. PICK v \in Nat : v = virt
  BY <1>2, Running
<1>4. PICK a \in Nat : a = phys
  BY <1>2, Running
<1>5. call.page = Span[k] /\ call.space \in Space
  <2>1. call.page \in {kPageSize, kLargePageSize} /\ call.space \in Space
    BY <1>2, WalkArgs
  <2>2. Span[4] = kPageSize /\ Span[3] = kLargePageSize
    BY Spans
  <2> QED BY <1>1, <2>1, <2>2 DEF LeafLevel
<1>6. is_canonical(v) /\ v % Span[k] = 0 /\ a % Span[k] = 0
  BY <1>2, <1>3, <1>4, <1>5, WalkArgs
<1>7. PICK fl : fl = LeafFlags
  OBVIOUS
<1>8. PICK rights : rights = RightsOf(call.flags)
  OBVIOUS
<1>9. RightsOf(fl) = rights
  <2>1. /\ "Writable" \in fl <=> "Writable" \in call.flags
        /\ "User" \in fl <=> "User" \in call.flags
        /\ "NoExecute" \notin fl <=> "NoExecute" \notin call.flags
    BY <1>7 DEF LeafFlags
  <2>2. /\ ("Writable" \in fl) = ("Writable" \in call.flags)
        /\ ("User" \in fl) = ("User" \in call.flags)
        /\ ("NoExecute" \notin fl) = ("NoExecute" \notin call.flags)
    BY <2>1
  <2> QED BY <1>8, <2>2, RightsOfFlags, Zenon
<1>10. PICK c \in {1, kPageTableEntries}, p \in Nat, f \in Nat : LeafRun(k, v, a, fl, c, p, f)
  BY <1>6, LeafRuns
<1>11. PICK r \in Space : r = call.space
  BY <1>5
<1>12. /\ \A s \in Space : \A x :
             x \in Translations(s)' <=>
                 \/ x \in Translations(s)
                 \/ /\ s = r
                    /\ \E page \in Block(k, v) : x = TransOf(page, k, [addr |-> a, flags |-> fl])
       /\ \A x \in Translations(r), page \in Block(k, v) : x.page # page
  BY <1>1, <1>3, <1>4, <1>7, <1>11, LeafTranslations
<1>13. \A s \in Space \ {r} : Translations(s)' = Translations(s)
  <2> TAKE s \in Space \ {r}
  <2>1. \A x : x \in Translations(s)' <=> x \in Translations(s)
    BY <1>12
  <2> QED BY <2>1
<1>14. \A x : x \in Run(c, p, f, rights) <=>
                 \E page \in Block(k, v) : x = TransOf(page, k, [addr |-> a, flags |-> fl])
  <2>1. \A x : x \in Run(c, p, f, rights) <=>
           \E j \in 0 .. c - 1 : x = [page |-> p + j, frame |-> f + j, rights |-> RightsOf(fl)]
    BY <1>9, Zenon DEF Run
  <2>2. \A x : x \in Run(c, p, f, rights) <=>
           \E j \in 0 .. c - 1 : x = TransOf(p + j, k, [addr |-> a, flags |-> fl])
    BY <1>10, <2>1, Zenon DEF LeafRun
  <2>3. \A page : page \in Block(k, v) <=> \E j \in 0 .. c - 1 : page = p + j
    BY <1>10, ZenonT(30) DEF LeafRun
  <2> QED BY <2>2, <2>3, Zenon
<1>15. Translations(r)' = Translations(r) \cup Run(c, p, f, rights)
  <2>1. \A x : x \in Translations(r)' <=> x \in Translations(r) \/ x \in Run(c, p, f, rights)
    BY <1>12, <1>14, Zenon
  <2> QED BY <2>1, Zenon
<1>16. \A x \in Translations(r), j \in 0 .. c - 1 : x.page # p + j
  BY <1>10, <1>12, ZenonT(30) DEF LeafRun
<1>17. MapsRun(r, c, p, f, rights)
  BY <1>13, <1>15, <1>16 DEF MapsRun
<1>18. /\ r = call.space /\ call.page = c * kPageSize
       /\ p % c = 0 /\ f % c = 0 /\ virt = p * kPageSize /\ phys = f * kPageSize
  BY <1>3, <1>4, <1>5, <1>10, <1>11 DEF LeafRun
<1> QED BY <1>8, <1>17, <1>18

\* That is a step of AddressMap.
LEMMA RunExtends ==
    ASSUME NEW before, NEW c \in {1, kPageTableEntries}, NEW p \in Nat, NEW f \in Nat, NEW rights,
           p % c = 0, f % c = 0, \A x \in before, j \in 0 .. c - 1 : x.page # p + j
    PROVE  Abstract!Extend(before, before \cup Run(c, p, f, rights))
<1> DEFINE first == [page |-> p, frame |-> f, rights |-> rights]
           new == (before \cup Run(c, p, f, rights)) \ before
<1>1. c \in Nat \ {0} /\ 0 \in 0 .. c - 1
  BY Spans
<1>2. \A x \in before : x \notin Run(c, p, f, rights)
  BY DEF Run
<1>3. new = Run(c, p, f, rights)
  BY <1>2, Zenon
<1>4. ASSUME NEW n \in new, NEW b \in before PROVE n.page # b.page
  <2>1. PICK j \in 0 .. c - 1 : n = [page |-> p + j, frame |-> f + j, rights |-> rights]
    BY <1>3 DEF Run
  <2>2. n.page = p + j
    BY <2>1
  <2> QED BY <2>2
<1>5. first \in Run(c, p, f, rights)
  BY <1>1 DEF Run
<1>6. ASSUME NEW j \in 0 .. c - 1
      PROVE  [first EXCEPT !.page = @ + j, !.frame = @ + j]
                 = [page |-> p + j, frame |-> f + j, rights |-> rights]
  <2>1. first.page + j = p + j /\ first.frame + j = f + j
    OBVIOUS
  <2>2. PICK x, y : x = p + j /\ y = f + j
    OBVIOUS
  <2>3. [first EXCEPT !.page = x] = [page |-> x, frame |-> f, rights |-> rights]
    BY ONLY TRUE
  <2>4. [[page |-> x, frame |-> f, rights |-> rights] EXCEPT !.frame = y]
           = [page |-> x, frame |-> y, rights |-> rights]
    BY ONLY TRUE
  <2>5. [first EXCEPT !.page = x, !.frame = y]
           = [[page |-> x, frame |-> f, rights |-> rights] EXCEPT !.frame = y]
    BY ONLY <2>3, ZenonT(30)
  <2> QED BY <2>1, <2>2, <2>4, <2>5
<1> DEFINE moved(j) == [first EXCEPT !.page = @ + j, !.frame = @ + j]
<1>7. Run(c, p, f, rights) = {moved(j) : j \in 0 .. c - 1}
  <2>1. \A j \in 0 .. c - 1 : moved(j) = [page |-> p + j, frame |-> f + j, rights |-> rights]
    BY <1>6, ZenonT(30)
  <2> HIDE DEF moved
  <2> QED BY <2>1, Zenon DEF Run
<1>8. first.page % c = 0 /\ first.frame % c = 0
  OBVIOUS
<1>9. \E count \in {1, kPageTableEntries} :
         /\ first.page % count = 0 /\ first.frame % count = 0
         /\ new = {[first EXCEPT !.page = @ + j, !.frame = @ + j] : j \in 0 .. count - 1}
  BY <1>3, <1>7, <1>8, ZenonT(30)
<1> HIDE DEF first
<1>10. \E n \in new, count \in {1, kPageTableEntries} :
         /\ n.page % count = 0 /\ n.frame % count = 0
         /\ new = {[n EXCEPT !.page = @ + j, !.frame = @ + j] : j \in 0 .. count - 1}
  BY <1>3, <1>5, <1>9, Zenon
<1> QED BY <1>4, <1>10, ZenonT(30) DEF Abstract!Extend

\* Seen through page walks, every step of Vmm is one of AddressMap or none.
LEMMA StepRefines ==
    ASSUME WInv, WInv', Allocates, [Next]_vars
    PROVE  [Abstract!ANext]_([s \in Space |-> Translations(s)])
<1> DEFINE map == [s \in Space |-> Translations(s)]
<1>1. CASE \A s \in Space : Translations(s)' = Translations(s)
  <2>1. map' = map
    BY <1>1, Zenon
  <2> QED BY <2>1
<1>2. CASE LeafWritten /\ call.status = "running" /\ level = LeafLevel /\ LeafLevel \in {3, 4}
  <2>1. PICK r \in Space, c \in {1, kPageTableEntries}, p \in Nat, f \in Nat :
           /\ p % c = 0 /\ f % c = 0
           /\ MapsRun(r, c, p, f, RightsOf(call.flags))
    BY <1>2, LeafMapsRun
  <2>2. /\ \A s \in Space \ {r} : Translations(s)' = Translations(s)
        /\ Translations(r)' = Translations(r) \cup Run(c, p, f, RightsOf(call.flags))
        /\ \A x \in Translations(r), j \in 0 .. c - 1 : x.page # p + j
    BY <2>1 DEF MapsRun
  <2>3. Abstract!Extend(Translations(r), Translations(r)')
    <3>1. PICK before, rights : before = Translations(r) /\ rights = RightsOf(call.flags)
      OBVIOUS
    <3>2. Abstract!Extend(before, before \cup Run(c, p, f, rights))
      BY <2>1, <2>2, <3>1, RunExtends, ZenonT(30)
    <3> QED BY <2>2, <3>1, <3>2
  <2>4. \A s \in Space : map[s] = Translations(s) /\ map'[s] = Translations(s)'
    OBVIOUS
  <2>5. Abstract!Extend(map[r], map'[r]) /\ \A s \in Space \ {r} : map'[s] = map[s]
    BY <2>2, <2>3, <2>4, Zenon
  <2> QED BY <2>5 DEF Abstract!ANext
<1> QED BY <1>1, <1>2, StepMaps

-----------------------------------------------------------------------------
(***************************************************************************)
(* Requests                                                                *)
(***************************************************************************)

\* What is to be shown of a step for its request.
LEMMA RequestHolds ==
    ASSUME call' # NoCall =>
              \E s \in Space :
                 /\ call'.space = s
                 /\ call'.status = "ok" => call'.done = call'.size
                 /\ Asked(call'.virt, call'.phys, call'.done, RightsOf(call'.flags))
                       \subseteq Translations(s)'
    PROVE  RequestMapped'
BY DEF RequestMapped, Asked

\* A step that goes on with the same request, or ends it.
LEMMA RequestKept ==
    ASSUME RequestMapped, call \in CallType, call' = call \/ call' = [call EXCEPT !.status = "fail"],
           \A s \in Space : Translations(s) \subseteq Translations(s)'
    PROVE  RequestMapped'
<1>1. call # NoCall
  BY DEF CallType, NoCall
<1>2. PICK s \in Space : s = call.space
  BY DEF CallType
<1>3. /\ call'.space = s /\ call'.virt = call.virt /\ call'.phys = call.phys
      /\ call'.done = call.done /\ call'.size = call.size /\ call'.flags = call.flags
      /\ call'.status \in {call.status, "fail"}
  BY <1>2 DEF CallType
<1>4. /\ call.status = "ok" => call.done = call.size
      /\ Asked(call.virt, call.phys, call.done, RightsOf(call.flags)) \subseteq Translations(s)
  BY <1>1, <1>2 DEF RequestMapped, Asked
<1>5. /\ call'.status = "ok" => call'.done = call'.size
      /\ Asked(call'.virt, call'.phys, call'.done, RightsOf(call'.flags)) \subseteq Translations(s)'
  BY <1>3, <1>4
<1> QED BY <1>3, <1>5, RequestHolds

\* A step that writes a leaf.
LEMMA LeafFulfils ==
    ASSUME WInv, WInv', RequestMapped, Allocates, LeafWritten, call.status = "running",
           level = LeafLevel, LeafLevel \in {3, 4}
    PROVE  RequestMapped'
<1>1. TypeInv /\ Progress /\ Progress' /\ PageOK
  BY DEF WInv, TInv, IInv, Walking
<1>2. call \in CallType /\ call # NoCall
  BY <1>1, Running DEF NoCall
<1>3. PICK r \in Space, c \in {1, kPageTableEntries}, p \in Nat, f \in Nat :
         /\ r = call.space /\ call.page = c * kPageSize
         /\ virt = p * kPageSize /\ phys = f * kPageSize
         /\ MapsRun(r, c, p, f, RightsOf(call.flags))
  BY LeafMapsRun
<1>4. /\ call'.space = r /\ call'.virt = call.virt /\ call'.phys = call.phys
      /\ call'.done = call.done + c * kPageSize /\ call'.size = call.size
      /\ call'.flags = call.flags
  BY <1>2, <1>3 DEF LeafWritten, CallType
<1>5. call' # NoCall
  BY <1>2, ZenonT(30) DEF LeafWritten, CallType, NoCall
<1>6. call'.status = "ok" => call'.done = call'.size
  BY <1>1, <1>5 DEF Progress
<1> DEFINE R == RightsOf(call.flags)
<1>7. call.done \in Nat /\ call.virt \in Nat /\ call.phys \in Nat /\ c \in Nat
  BY <1>2, Spans DEF CallType
<1>8. call.done % kPageSize = 0
  BY <1>1, <1>2, <1>7, PageSizes DEF Progress, CallType
<1>9. call.virt + call.done = p * kPageSize /\ call.phys + call.done = f * kPageSize
  BY <1>3 DEF virt, phys
<1>10. Asked(call.virt, call.phys, call.done + c * kPageSize, R)
          \subseteq Asked(call.virt, call.phys, call.done, R) \cup Run(c, p, f, R)
  <2> HIDE DEF R
  <2> QED BY <1>7, <1>8, <1>9, AskedGrows, ZenonT(30)
<1>11. Asked(call.virt, call.phys, call.done, R) \subseteq Translations(r)
  BY <1>2, <1>3 DEF RequestMapped, Asked
<1>12. Translations(r)' = Translations(r) \cup Run(c, p, f, R)
  BY <1>3 DEF MapsRun
<1>13. Asked(call'.virt, call'.phys, call'.done, RightsOf(call'.flags)) \subseteq Translations(r)'
  BY <1>4, <1>10, <1>11, <1>12
<1> QED BY <1>4, <1>6, <1>13, RequestHolds

\* Every step keeps the request mapped as far as it has come.
LEMMA StepKeepsRequest ==
    ASSUME WInv, WInv', RequestMapped, Allocates, [Next]_vars
    PROVE  RequestMapped'
<1>1. TypeInv /\ IInv
  BY DEF WInv, TInv, IInv
<1>2. CASE call' = NoCall
  BY <1>2, RequestHolds
<1>3. CASE UNCHANGED vars
  <2>1. mem' = mem /\ pml4' = pml4 /\ call' = call
    BY <1>3 DEF vars
  <2>2. call = NoCall \/ call \in CallType
    BY <1>1 DEF TypeInv
  <2>3. \A s \in Space : Translations(s)' = Translations(s)
    BY <2>1, SameMemory
  <2> QED BY <1>2, <2>1, <2>2, <2>3, RequestKept
<1>4. ASSUME NEW s \in Space, NEW page, NEW a, NEW size, Start(s, page, a, size)
      PROVE  RequestMapped'
  <2>1. call'.space = s /\ call'.done = 0 /\ call'.status = "running"
    BY <1>4 DEF Start
  <2>2. \A v, w, rights : Asked(v, w, 0, rights) = {}
    BY DEF Asked
  <2>3. Asked(call'.virt, call'.phys, call'.done, RightsOf(call'.flags)) = {}
    BY <2>1, <2>2
  <2> QED BY <2>1, <2>3, RequestHolds
<1>5. ASSUME NEW s \in Space, NEW page, NEW a, CallPage(s, page, a) \/ CallRange(s, page, a)
      PROVE  RequestMapped'
  BY <1>2, <1>4, <1>5 DEF CallPage, CallRange
<1>6. CASE MapStep
  <2>1. call \in CallType /\ call.status = "running"
    BY <1>1, <1>6, Running DEF MapStep, enter_page, ensure_table, write_leaf
  <2>2. CASE LeafWritten /\ level = LeafLevel /\ LeafLevel \in {3, 4}
    BY <2>1, <2>2, LeafFulfils
  <2>3. CASE \A s \in Space : Translations(s)' = Translations(s)
    <3>1. CASE call' = call \/ call' = [call EXCEPT !.status = "fail"]
      BY <2>1, <2>3, <3>1, RequestKept
    <3>2. CASE Return("fail")
      BY <1>2, <3>1, <3>2 DEF Return
    <3>3. CASE enter_page
      BY <3>1, <3>2, <3>3 DEF enter_page
    <3>4. CASE ensure_table
      BY <3>1, <3>2, <3>4 DEF ensure_table
    <3>5. CASE write_leaf
      BY <1>1, <2>2, <3>2, <3>5, LeafCases, Running DEF EnsureFails
    <3> QED BY <1>6, <3>3, <3>4, <3>5 DEF MapStep
  <2> QED BY <2>2, <2>3, StepMaps
<1>7. ASSUME NEW s \in Space, create_address_space(s) PROVE RequestMapped'
  BY <1>2, <1>7 DEF create_address_space
<1> QED BY <1>3, <1>5, <1>6, <1>7 DEF Next

=============================================================================
