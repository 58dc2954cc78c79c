------------------------------ MODULE VmmBase -------------------------------
(***************************************************************************)
(* What the proofs about Vmm share: arithmetic of addresses, page walks, the *)
(* invariants, what each action does to the tables, and what a walk and    *)
(* translate find in them.                                                 *)
(*                                                                         *)
(* The tables of Vmm are shown correct for every page size, table size,    *)
(* physical memory, set of spaces and set of calls, as long as the         *)
(* allocator has a frame left.  (Without one, allocate_table takes frame 0 *)
(* for a table, and NoReplace fails: run vmm_no_memory.)                   *)
(***************************************************************************)
EXTENDS Vmm, TLAPS

-----------------------------------------------------------------------------
(***************************************************************************)
(* Addresses                                                               *)
(***************************************************************************)

\* Quotient and remainder.
LEMMA DivMod ==
    ASSUME NEW a \in Nat, NEW b \in Nat \ {0}
    PROVE  /\ a \div b \in Nat /\ a % b \in 0 .. b - 1 /\ a % b \in Nat /\ a % b < b
           /\ a = (a \div b) * b + (a % b)
OBVIOUS

\* They are unique.
LEMMA DivUnique ==
    ASSUME NEW b \in Nat \ {0}, NEW q \in Nat, NEW r \in Nat, r < b
    PROVE  (q * b + r) \div b = q /\ (q * b + r) % b = r
<1> DEFINE a == q * b + r
<1>1. q * b \in Nat /\ a \in Nat
  OBVIOUS
<1>2. a \div b \in Nat /\ a % b \in Nat /\ a % b < b /\ a = (a \div b) * b + (a % b)
  BY <1>1, DivMod
<1>3. PICK p \in Nat : p = a \div b
  BY <1>2
<1>4. PICK s \in Nat : s = a % b
  BY <1>2
<1>5. q * b + r = p * b + s /\ s < b
  BY <1>2, <1>3, <1>4
<1> HIDE DEF a
<1>6. ~ (q < p)
  <2> SUFFICES ASSUME q < p PROVE FALSE
    OBVIOUS
  <2>1. PICK d \in Nat : p = q + 1 + d
    <3>1. p - q - 1 \in Nat /\ p = q + 1 + (p - q - 1)
      OBVIOUS
    <3> QED BY <3>1
  <2>2. p * b = q * b + b + d * b /\ d * b \in Nat
    BY <2>1
  <2> QED BY <1>5, <2>2
<1>7. ~ (p < q)
  <2> SUFFICES ASSUME p < q PROVE FALSE
    OBVIOUS
  <2>1. PICK d \in Nat : q = p + 1 + d
    <3>1. q - p - 1 \in Nat /\ q = p + 1 + (q - p - 1)
      OBVIOUS
    <3> QED BY <3>1
  <2>2. q * b = p * b + b + d * b /\ d * b \in Nat
    BY <2>1
  <2> QED BY <1>5, <2>2
<1>8. p = q
  BY <1>6, <1>7
<1> QED BY <1>3, <1>4, <1>5, <1>8 DEF a

\* Dividing by a product is dividing twice.
LEMMA DivDiv ==
    ASSUME NEW a \in Nat, NEW x \in Nat \ {0}, NEW y \in Nat \ {0}
    PROVE  a \div (x * y) = (a \div x) \div y
<1>1. PICK q \in Nat, r \in Nat : q = a \div x /\ r = a % x /\ r < x /\ a = q * x + r
  BY DivMod
<1>2. PICK s \in Nat, t \in Nat : s = q \div y /\ t = q % y /\ t < y /\ q = s * y + t
  BY DivMod
<1>3. x * y \in Nat \ {0} /\ t * x + r \in Nat
  OBVIOUS
<1>4. a = s * (x * y) + (t * x + r)
  <2>1. q * x = (s * y) * x + t * x
    BY <1>2
  <2>2. (s * y) * x = s * (x * y)
    OBVIOUS
  <2> QED BY <1>1, <2>1, <2>2
<1>5. t * x + r < x * y
  <2>1. PICK d \in Nat : y = t + 1 + d
    <3>1. y - t - 1 \in Nat /\ y = t + 1 + (y - t - 1)
      BY <1>2
    <3> QED BY <3>1
  <2>2. x * y = t * x + x + d * x /\ d * x \in Nat
    BY <2>1
  <2> QED BY <1>1, <2>2
<1>6. (s * (x * y) + (t * x + r)) \div (x * y) = s
  BY <1>3, <1>5, DivUnique
<1> QED BY <1>1, <1>2, <1>4, <1>6

\* A frame's address has the frame as its quotient and no remainder.
LEMMA FrameOfAddress ==
    ASSUME NEW f \in Nat
    PROVE  /\ f * kPageSize \in Nat
           /\ (f * kPageSize) \div kPageSize = f
           /\ (f * kPageSize) % kPageSize = 0
BY PagingAssumption

\* The index of an address at a level is an index of the table.
LEMMA IndexInTable ==
    ASSUME NEW n \in 1 .. 4, NEW a \in Nat
    PROVE  IndexAt(n, a) \in Index
<1> DEFINE N == kPageTableEntries
<1>1. N \in Nat \ {0} /\ kPageSize \in Nat \ {0}
  BY PagingAssumption
<1>2. kPageSize * N \in Nat \ {0}
  BY <1>1
<1>3. kPageSize * N * N \in Nat \ {0}
  BY <1>1, <1>2
<1>4. kPageSize * N * N * N \in Nat \ {0}
  BY <1>1, <1>3
<1>5. Span[n] \in Nat \ {0}
  BY <1>1, <1>2, <1>3, <1>4 DEF Span
<1>6. a \div Span[n] \in Nat
  BY <1>5
<1> QED BY <1>1, <1>6 DEF IndexAt, Index

\* The spans of the levels, each kPageTableEntries times the next.
LEMMA Spans ==
    /\ \A n \in 1 .. 4 : Span[n] \in Nat \ {0}
    /\ Span[4] = kPageSize /\ Span[3] = kLargePageSize
    /\ \A n \in 1 .. 3 : Span[n] = Span[n + 1] * kPageTableEntries
    /\ LowSize = Span[1] * kPageTableEntries /\ LowSize \in Nat \ {0}
    /\ kPageTableEntries \in Nat \ {0} /\ kPageSize \in Nat \ {0}
<1> DEFINE N == kPageTableEntries
<1>1. N \in Nat \ {0} /\ kPageSize \in Nat \ {0}
  BY PagingAssumption
<1>2. kPageSize * N \in Nat \ {0}
  BY <1>1
<1>3. kPageSize * N * N \in Nat \ {0}
  BY <1>1, <1>2
<1>4. kPageSize * N * N * N \in Nat \ {0}
  BY <1>1, <1>3
<1>5. /\ Span[1] = kPageSize * N * N * N /\ Span[2] = kPageSize * N * N
      /\ Span[3] = kPageSize * N /\ Span[4] = kPageSize
  BY <1>1, <1>2, <1>3, <1>4 DEF Span
<1>6. \A n \in 1 .. 4 : Span[n] \in Nat \ {0}
  BY <1>1, <1>2, <1>3, <1>4, <1>5
<1>7. Span[1] = Span[2] * N /\ Span[2] = Span[3] * N /\ Span[3] = Span[4] * N
  BY <1>5
<1>8. \A n \in 1 .. 3 : Span[n] = Span[n + 1] * N
  BY <1>7
<1>9. LowSize = Span[1] * N /\ LowSize \in Nat \ {0}
  BY <1>1, <1>4, <1>5 DEF LowSize
<1> QED BY <1>1, <1>5, <1>6, <1>8, <1>9 DEF kLargePageSize

\* The quotients of an address by the spans follow from each other by its indices.
LEMMA Descend ==
    ASSUME NEW a \in Nat
    PROVE  /\ a \div LowSize \in Nat /\ \A n \in 1 .. 4 : a \div Span[n] \in Nat
           /\ a \div Span[1] = (a \div LowSize) * kPageTableEntries + IndexAt(1, a)
           /\ \A n \in 1 .. 3 :
                 a \div Span[n + 1] = (a \div Span[n]) * kPageTableEntries + IndexAt(n + 1, a)
<1> DEFINE N == kPageTableEntries
<1>1. N \in Nat \ {0} /\ LowSize \in Nat \ {0} /\ \A n \in 1 .. 4 : Span[n] \in Nat \ {0}
  BY Spans
<1>2. a \div LowSize \in Nat /\ \A n \in 1 .. 4 : a \div Span[n] \in Nat
  BY <1>1, DivMod, ZenonT(30)
<1>3. \A q \in Nat : q = (q \div N) * N + (q % N)
  BY <1>1, DivMod, ZenonT(30)
<1>4. a \div LowSize = (a \div Span[1]) \div N
  BY <1>1, Spans, DivDiv
<1>5. a \div Span[1] = (a \div LowSize) * N + IndexAt(1, a)
  BY <1>2, <1>3, <1>4 DEF IndexAt
<1>6. ASSUME NEW n \in 1 .. 3
      PROVE  a \div Span[n + 1] = (a \div Span[n]) * N + IndexAt(n + 1, a)
  <2>1. Span[n] = Span[n + 1] * N /\ n + 1 \in 1 .. 4
    BY Spans
  <2>2. a \div Span[n] = (a \div Span[n + 1]) \div N
    BY <1>1, <2>1, DivDiv
  <2> QED BY <1>2, <1>3, <2>1, <2>2 DEF IndexAt
<1> QED BY <1>2, <1>5, <1>6

\* Two addresses have the same indices down to level n, below the same upper
\* bits, exactly if they are in one block of that level.
LEMMA SameBlock ==
    ASSUME NEW a \in Nat, NEW b \in Nat, NEW n \in 1 .. 4
    PROVE  a \div Span[n] = b \div Span[n] <=>
               /\ a \div LowSize = b \div LowSize
               /\ \A k \in 1 .. n : IndexAt(k, a) = IndexAt(k, b)
<1> DEFINE N == kPageTableEntries
           Q(k) == a \div Span[k] = b \div Span[k]
           I(k) == IndexAt(k, a) = IndexAt(k, b)
<1>1. N \in Nat \ {0} /\ LowSize \in Nat \ {0} /\ \A k \in 1 .. 4 : Span[k] \in Nat \ {0}
  BY Spans
<1>2. a \div LowSize = b \div LowSize /\ I(1) => Q(1)
  BY Descend
<1>3. ASSUME NEW k \in 1 .. 3 PROVE Q(k) /\ I(k + 1) => Q(k + 1)
  BY Descend
<1>4. \A k \in 1 .. 4 : Q(k) => I(k)
  BY DEF IndexAt
<1>5. Q(1) => a \div LowSize = b \div LowSize
  <2>1. LowSize = Span[1] * N /\ Span[1] \in Nat \ {0}
    BY Spans
  <2>2. a \div LowSize = (a \div Span[1]) \div N
    BY <1>1, <2>1, DivDiv
  <2>3. b \div LowSize = (b \div Span[1]) \div N
    BY <1>1, <2>1, DivDiv
  <2> QED BY <2>2, <2>3
<1>6. ASSUME NEW k \in 1 .. 3 PROVE Q(k + 1) => Q(k)
  <2>1. Span[k] = Span[k + 1] * N /\ k + 1 \in 1 .. 4
    BY Spans
  <2>2. a \div Span[k] = (a \div Span[k + 1]) \div N
    BY <1>1, <2>1, DivDiv
  <2>3. b \div Span[k] = (b \div Span[k + 1]) \div N
    BY <1>1, <2>1, DivDiv
  <2> QED BY <2>2, <2>3
<1> HIDE DEF Q, I
<1>7. Q(2) => Q(1)
  BY <1>6
<1>8. Q(3) => Q(2)
  BY <1>6
<1>9. Q(4) => Q(3)
  BY <1>6
<1>10. Q(1) /\ I(2) => Q(2)
  BY <1>3
<1>11. Q(2) /\ I(3) => Q(3)
  BY <1>3
<1>12. Q(3) /\ I(4) => Q(4)
  BY <1>3
<1>13. n = 1 \/ n = 2 \/ n = 3 \/ n = 4
  OBVIOUS
<1>14. Q(n) <=> a \div LowSize = b \div LowSize /\ \A k \in 1 .. n : I(k)
  <2>1. (\A k \in 1 .. 1 : I(k)) <=> I(1)
    OBVIOUS
  <2>2. (\A k \in 1 .. 2 : I(k)) <=> I(1) /\ I(2)
    OBVIOUS
  <2>3. (\A k \in 1 .. 3 : I(k)) <=> I(1) /\ I(2) /\ I(3)
    OBVIOUS
  <2>4. (\A k \in 1 .. 4 : I(k)) <=> I(1) /\ I(2) /\ I(3) /\ I(4)
    OBVIOUS
  <2>5. (Q(1) => I(1)) /\ (Q(2) => I(2)) /\ (Q(3) => I(3)) /\ (Q(4) => I(4))
    BY <1>4
  <2> QED BY <1>2, <1>5, <1>7, <1>8, <1>9, <1>10, <1>11, <1>12, <1>13,
             <2>1, <2>2, <2>3, <2>4, <2>5
<1> QED BY <1>14 DEF Q, I

\* What the upper bits of a canonical address are, given its index in the PML4.
UpperOf(i) == IF i < kPageTableEntries \div 2 THEN 0 ELSE kUpperValues - 1

\* is_canonical looks at nothing else.
LEMMA Canonical ==
    ASSUME NEW a \in Nat
    PROVE  is_canonical(a) <=> a \div LowSize = UpperOf(IndexAt(1, a))
<1> DEFINE N == kPageTableEntries
           M == N \div 2
           i == IndexAt(1, a)
           u == a \div LowSize
<1>1. N \in Nat /\ M \in Nat \ {0} /\ N = 2 * M
  BY PagingAssumption
<1>2. LowSize \div 2 = Span[1] * M
  <2>1. PICK S \in Nat \ {0} : S = Span[1]
    BY Spans
  <2>2. LowSize = S * N
    BY <2>1, Spans
  <2>3. S * N = (S * M) * 2 + 0 /\ S * M \in Nat
    BY <1>1, <2>1
  <2>4. ((S * M) * 2 + 0) \div 2 = S * M
    BY <2>3, DivUnique
  <2> QED BY <2>1, <2>2, <2>3, <2>4
<1>3. Span[1] \in Nat \ {0} /\ u \in Nat /\ a \div Span[1] \in Nat
  <2>1. Span[1] \in Nat \ {0}
    BY Spans
  <2>2. u \in Nat /\ a \div Span[1] \in Nat
    BY Descend
  <2> QED BY <2>1, <2>2
<1>4. i \in 0 .. N - 1
  BY IndexInTable DEF Index
<1>5. a \div (LowSize \div 2) = (u * N + i) \div M
  <2>1. a \div (Span[1] * M) = (a \div Span[1]) \div M
    BY <1>1, <1>3, DivDiv
  <2> QED BY <1>2, <2>1, Descend
<1> HIDE DEF M, u, i
<1>6. CASE i < M
  <2>1. u * N + i = (2 * u) * M + i /\ 2 * u \in Nat /\ i \in Nat
    BY <1>1, <1>3, <1>4 DEF u
  <2>2. (u * N + i) \div M = 2 * u
    BY <1>1, <1>6, <2>1, DivUnique
  <2>3. (2 * u) % 2 = 0
    BY <1>3 DEF u
  <2>4. (a \div (LowSize \div 2)) % 2 = 0
    BY <1>5, <2>2, <2>3
  <2> QED BY <1>6, <2>4 DEF is_canonical, UpperOf, u, i, M
<1>7. CASE ~ (i < M)
  <2>1. u * N + i = (2 * u + 1) * M + (i - M) /\ 2 * u + 1 \in Nat /\ i - M \in Nat /\ i - M < M
    BY <1>1, <1>3, <1>4, <1>7 DEF u
  <2>2. (u * N + i) \div M = 2 * u + 1
    BY <1>1, <2>1, DivUnique
  <2>3. (2 * u + 1) % 2 = 1
    BY <1>3 DEF u
  <2>4. (a \div (LowSize \div 2)) % 2 = 1
    BY <1>5, <2>2, <2>3
  <2> QED BY <1>7, <2>4 DEF is_canonical, UpperOf, u, i, M
<1> QED BY <1>6, <1>7

\* The indices and the offset hold everything of an address below its upper bits.
LEMMA LowPart ==
    ASSUME NEW a \in Nat
    PROVE  /\ LowAddress(decompose_address(a)) = a % LowSize
           /\ a = (a \div LowSize) * LowSize + (a % LowSize)
           /\ a % LowSize \in Nat /\ a % LowSize < LowSize
<1>1. PICK N \in Nat \ {0} : N = kPageTableEntries
  BY Spans
<1>2. PICK s1 \in Nat \ {0}, s2 \in Nat \ {0}, s3 \in Nat \ {0}, s4 \in Nat \ {0} :
          s1 = Span[1] /\ s2 = Span[2] /\ s3 = Span[3] /\ s4 = Span[4]
  BY Spans
<1>3. s3 = s4 * N /\ s2 = s3 * N /\ s1 = s2 * N /\ LowSize = s1 * N /\ s4 = kPageSize
  <2>1. \A n \in 1 .. 3 : Span[n] = Span[n + 1] * N
    BY <1>1, Spans
  <2>2. Span[3] = Span[4] * N /\ Span[2] = Span[3] * N /\ Span[1] = Span[2] * N
    BY <2>1
  <2>3. LowSize = Span[1] * N /\ Span[4] = kPageSize
    BY <1>1, Spans
  <2> QED BY <1>2, <2>2, <2>3
<1>4. PICK q0 \in Nat, q1 \in Nat, q2 \in Nat, q3 \in Nat, q4 \in Nat :
          /\ q0 = a \div LowSize /\ q1 = a \div s1 /\ q2 = a \div s2
          /\ q3 = a \div s3 /\ q4 = a \div s4
  <2>1. a \div LowSize \in Nat /\ a \div s1 \in Nat /\ a \div s2 \in Nat /\ a \div s3 \in Nat /\ a \div s4 \in Nat
    BY Spans, DivMod, ZenonT(30)
  <2> QED BY <2>1, ZenonT(30)
<1>5. PICK i1 \in Nat, i2 \in Nat, i3 \in Nat, i4 \in Nat :
          /\ i1 = IndexAt(1, a) /\ i2 = IndexAt(2, a) /\ i3 = IndexAt(3, a) /\ i4 = IndexAt(4, a)
  <2>1. IndexAt(1, a) \in Nat /\ IndexAt(2, a) \in Nat /\ IndexAt(3, a) \in Nat /\ IndexAt(4, a) \in Nat
    <3>1. ASSUME NEW n \in 1 .. 4 PROVE IndexAt(n, a) \in Nat
      BY IndexInTable DEF Index
    <3> QED BY <3>1
  <2> QED BY <2>1
<1>6. q1 = q0 * N + i1 /\ q2 = q1 * N + i2 /\ q3 = q2 * N + i3 /\ q4 = q3 * N + i4
  <2>1. q1 = q0 * N + i1
    BY <1>1, <1>2, <1>4, <1>5, Descend
  <2>2. \A n \in 1 .. 3 : a \div Span[n + 1] = (a \div Span[n]) * N + IndexAt(n + 1, a)
    BY <1>1, Descend, ZenonT(30)
  <2>3. /\ a \div Span[2] = (a \div Span[1]) * N + IndexAt(2, a)
        /\ a \div Span[3] = (a \div Span[2]) * N + IndexAt(3, a)
        /\ a \div Span[4] = (a \div Span[3]) * N + IndexAt(4, a)
    BY <2>2
  <2> QED BY <1>2, <1>4, <1>5, <2>1, <2>3
<1>7. PICK off \in Nat : off = a % s4 /\ a = q4 * s4 + off
  <2>1. a % s4 \in Nat /\ a = (a \div s4) * s4 + (a % s4)
    BY DivMod
  <2> QED BY <1>4, <2>1
<1>8. q4 * s4 = q3 * s3 + i4 * s4
  BY <1>3, <1>6
<1>9. q3 * s3 = q2 * s2 + i3 * s3
  BY <1>3, <1>6
<1>10. q2 * s2 = q1 * s1 + i2 * s2
  BY <1>3, <1>6
<1>11. q1 * s1 = q0 * LowSize + i1 * s1
  BY <1>3, <1>6
<1> DEFINE low == i1 * s1 + i2 * s2 + i3 * s3 + i4 * s4 + off
<1>12. LowAddress(decompose_address(a)) = low
  <2>1. decompose_address(a).offset = off
    BY <1>3, <1>7 DEF decompose_address
  <2>2. \A n \in 1 .. 4 : decompose_address(a).index[n] = IndexAt(n, a)
    BY DEF decompose_address
  <2>3. /\ decompose_address(a).index[1] = i1 /\ decompose_address(a).index[2] = i2
        /\ decompose_address(a).index[3] = i3 /\ decompose_address(a).index[4] = i4
    BY <1>5, <2>2
  <2> QED BY <1>2, <2>1, <2>3 DEF LowAddress
<1>13. LowSize \in Nat \ {0} /\ q0 * LowSize \in Nat /\ i1 * s1 \in Nat /\ i2 * s2 \in Nat
       /\ i3 * s3 \in Nat /\ i4 * s4 \in Nat
  BY Spans
<1>14. a = q0 * LowSize + low
  BY <1>7, <1>8, <1>9, <1>10, <1>11, <1>13
<1>15. a = q0 * LowSize + (a % LowSize) /\ a % LowSize \in Nat /\ a % LowSize < LowSize
  BY <1>4, <1>13, DivMod
<1>16. low = a % LowSize
  BY <1>13, <1>14, <1>15
<1> QED BY <1>4, <1>12, <1>15, <1>16

\* An address put together from upper bits and a low part.
LEMMA PutTogether ==
    ASSUME NEW u \in Nat, NEW r \in Nat, r < LowSize
    PROVE  /\ u * LowSize + r \in Nat
           /\ (u * LowSize + r) \div LowSize = u
           /\ IndexAt(1, u * LowSize + r) = IndexAt(1, r)
           /\ r \div LowSize = 0
<1>1. PICK N \in Nat \ {0} : N = kPageTableEntries
  BY Spans
<1>2. PICK s \in Nat \ {0} : s = Span[1]
  BY Spans
<1>3. LowSize = s * N /\ LowSize \in Nat \ {0}
  BY <1>1, <1>2, Spans
<1>4. PICK q \in Nat, t \in Nat : q = r \div s /\ t = r % s /\ t < s /\ r = q * s + t
  BY DivMod, ZenonT(30)
<1>5. u * LowSize + r = (u * N + q) * s + t /\ u * N + q \in Nat
  <2>1. u * LowSize = (u * N) * s /\ (u * N + q) * s = (u * N) * s + q * s
    BY <1>3
  <2> QED BY <1>4, <2>1
<1>6. (u * LowSize + r) \div s = u * N + q
  BY <1>4, <1>5, DivUnique
<1>7. r \div LowSize = 0 /\ (u * LowSize + r) \div LowSize = u
  <2>1. (u * LowSize + r) \div LowSize = u
    BY <1>3, DivUnique
  <2>2. (0 * LowSize + r) \div LowSize = 0
    BY <1>3, DivUnique
  <2>3. 0 * LowSize + r = r
    BY <1>3
  <2> QED BY <2>1, <2>2, <2>3
<1>8. q < N
  <2>1. (r \div s) \div N = 0
    BY <1>3, <1>7, DivDiv
  <2> QED BY <1>4, <2>1
<1>9. (u * N + q) % N = q /\ q % N = q
  <2>1. (u * N + q) % N = q
    BY <1>8, DivUnique
  <2> QED BY <1>8, <2>1
<1>10. u * LowSize + r \in Nat
  BY <1>3
<1> QED BY <1>1, <1>2, <1>4, <1>6, <1>7, <1>9, <1>10 DEF IndexAt

\* decompose_address and reassemble_address lose nothing of a canonical address,
\* and is_canonical accepts exactly the addresses that survive the two, for
\* every page size, table size and width of the upper bits.
THEOREM ReassembleAlwaysInverts == ReassembleInverts
<1> SUFFICES ASSUME NEW a \in 0 .. kUint64Max
             PROVE  LET back == reassemble_address(decompose_address(a))
                    IN  is_canonical(back) /\ (is_canonical(a) <=> back = a)
  BY DEF ReassembleInverts
<1> DEFINE r == a % LowSize
           u == UpperOf(IndexAt(1, a))
           back == reassemble_address(decompose_address(a))
<1>0. a \in Nat
  OBVIOUS
<1>1. /\ LowAddress(decompose_address(a)) = r /\ r \in Nat /\ r < LowSize
      /\ a = (a \div LowSize) * LowSize + r /\ a \div LowSize \in Nat
  BY <1>0, LowPart, Descend
<1>2. LowSize \in Nat \ {0} /\ kUpperValues - 1 \in Nat \ {0}
  BY Spans, PagingAssumption
<1>3. u \in Nat
  BY <1>2 DEF UpperOf
<1>4. IndexAt(1, r) = IndexAt(1, a) /\ r \div LowSize = 0
  BY <1>1, PutTogether
<1>5. back = u * LowSize + r
  <2>1. (r \div (LowSize \div 2)) % 2 = 1 <=> u # 0
    <3>1. is_canonical(r) <=> r \div LowSize = u
      BY <1>1, <1>4, Canonical
    <3>2. is_canonical(r) <=> (r \div (LowSize \div 2)) % 2 = 0
      BY <1>1, <1>2, <1>4, ZenonT(30) DEF is_canonical
    <3>3. r \div (LowSize \div 2) \in Nat
      <4>1. LowSize \div 2 \in Nat \ {0}
        <5>1. PICK s \in Nat \ {0} : s = Span[1]
          BY Spans
        <5>2. LowSize = s * kPageTableEntries /\ kPageTableEntries \in Nat /\ kPageTableEntries > 1
          BY <5>1, Spans, PagingAssumption
        <5>3. s * kPageTableEntries >= 2
          BY <5>2
        <5> QED BY <1>2, <5>2, <5>3
      <4> QED BY <1>1, <4>1, DivMod
    <3> QED BY <1>4, <3>1, <3>2, <3>3
  <2>2. back = IF (r \div (LowSize \div 2)) % 2 = 1 THEN r + (kUpperValues - 1) * LowSize ELSE r
    BY <1>1 DEF reassemble_address
  <2>3. u = 0 \/ u = kUpperValues - 1
    BY DEF UpperOf
  <2> HIDE DEF back, u, r
  <2>4. CASE u = 0
    BY <1>1, <1>2, <2>1, <2>2, <2>4
  <2>5. CASE u # 0
    <3>1. back = r + (kUpperValues - 1) * LowSize /\ u = kUpperValues - 1
      BY <2>1, <2>2, <2>3, <2>5
    <3> QED BY <1>1, <1>2, <3>1
  <2> QED BY <2>4, <2>5
<1> HIDE DEF back, u, r
<1>6. back \in Nat /\ back \div LowSize = u /\ IndexAt(1, back) = IndexAt(1, a)
  BY <1>1, <1>3, <1>4, <1>5, PutTogether
<1>7. is_canonical(back)
  BY <1>6, Canonical DEF u
<1>8. is_canonical(a) <=> back = a
  <2>1. is_canonical(a) <=> a \div LowSize = u
    BY <1>0, Canonical DEF u
  <2> QED BY <1>1, <1>5, <1>6, <2>1
<1> QED BY <1>7, <1>8 DEF back

\* Multiples are apart by at least what they are multiples of.
LEMMA Multiples ==
    ASSUME NEW b \in Nat \ {0}, NEW x \in Nat, NEW y \in Nat, x % b = 0, y % b = 0, x < y
    PROVE  (x + b) % b = 0 /\ x + b <= y
<1>1. PICK p \in Nat : x = p * b
  <2>1. x \div b \in Nat /\ x = (x \div b) * b + (x % b)
    BY DivMod
  <2> QED BY <2>1
<1>2. PICK q \in Nat : y = q * b
  <2>1. y \div b \in Nat /\ y = (y \div b) * b + (y % b)
    BY DivMod
  <2> QED BY <2>1
<1>3. x + b = (p + 1) * b + 0 /\ p + 1 \in Nat
  BY <1>1
<1>4. ((p + 1) * b + 0) % b = 0
  BY <1>3, DivUnique
<1>5. p < q
  <2> SUFFICES ASSUME q <= p PROVE FALSE
    OBVIOUS
  <2>1. PICK d \in Nat : p = q + d
    <3>1. p - q \in Nat /\ p = q + (p - q)
      OBVIOUS
    <3> QED BY <3>1
  <2>2. p * b = q * b + d * b /\ d * b \in Nat
    BY <2>1
  <2> QED BY <1>1, <1>2, <2>2
<1>6. PICK d \in Nat : q = p + 1 + d
  <2>1. q - p - 1 \in Nat /\ q = p + 1 + (q - p - 1)
    BY <1>5
  <2> QED BY <2>1
<1>7. q * b = p * b + b + d * b /\ d * b \in Nat
  BY <1>6
<1> QED BY <1>1, <1>2, <1>3, <1>4, <1>7

\* The size of a page, small or large, is a positive multiple of the small one.
LEMMA PageSizes ==
    ASSUME NEW page \in {kPageSize, kLargePageSize}
    PROVE  /\ page \in Nat \ {0}
           /\ \A x \in Nat : x % page = 0 => x % kPageSize = 0
<1>1. kPageSize \in Nat \ {0} /\ kLargePageSize \in Nat \ {0} /\ kPageTableEntries \in Nat
  BY Spans
<1>2. kLargePageSize = kPageSize * kPageTableEntries
  BY DEF kLargePageSize, Span
<1>3. ASSUME NEW x \in Nat, x % kLargePageSize = 0 PROVE x % kPageSize = 0
  <2>1. PICK q \in Nat : x = q * kLargePageSize
    <3>1. x \div kLargePageSize \in Nat /\ x = (x \div kLargePageSize) * kLargePageSize + 0
      BY <1>1, <1>3, DivMod
    <3> QED BY <1>1, <3>1
  <2>2. x = (q * kPageTableEntries) * kPageSize /\ q * kPageTableEntries \in Nat
    BY <1>1, <1>2, <2>1
  <2> QED BY <2>2, FrameOfAddress
<1> QED BY <1>1, <1>3

\* An entry for an address that passed the checks holds that address.
LEMMA EntryOfPage ==
    ASSUME NEW a \in Nat, a % kPageSize = 0, a < kPhysicalLimit, NEW fl
    PROVE  make_page_entry(a, fl) = [addr |-> a, flags |-> fl]
<1>1. (a - 0) % kPhysicalLimit = a
  BY PagingAssumption
<1> QED BY <1>1 DEF make_page_entry

\* Canonical addresses with the same indices down to level k are in one block.
LEMMA SameIndices ==
    ASSUME NEW a \in Nat, NEW b \in Nat, is_canonical(a), is_canonical(b), NEW k \in 1 .. 4
    PROVE  a \div Span[k] = b \div Span[k] <=> \A q \in 1 .. k : IndexAt(q, a) = IndexAt(q, b)
<1>1. /\ a \div LowSize = UpperOf(IndexAt(1, a)) /\ b \div LowSize = UpperOf(IndexAt(1, b))
  BY Canonical
<1>2. 1 \in 1 .. k
  OBVIOUS
<1> QED BY <1>1, <1>2, SameBlock

\* Addresses of pages, divided by the size of c pages.
LEMMA WholePages ==
    ASSUME NEW P \in Nat \ {0}, NEW c \in Nat \ {0}, NEW page \in Nat
    PROVE  /\ (page * P) \div (c * P) = page \div c
           /\ (page * P) % (c * P) = (page % c) * P
<1>1. PICK q \in Nat : q = page \div c
  BY DivMod
<1>2. PICK j \in Nat : j = page % c
  BY DivMod
<1>3. page = q * c + j /\ j < c
  BY <1>1, <1>2, DivMod
<1>4. c * P \in Nat \ {0} /\ j * P \in Nat /\ j * P < c * P
  BY <1>3
<1>5. page * P = q * (c * P) + j * P
  BY <1>3
<1>6. PICK B \in Nat \ {0} : B = c * P
  BY <1>4
<1>7. PICK r \in Nat : r = j * P
  BY <1>4
<1>8. (q * B + r) \div B = q /\ (q * B + r) % B = r
  BY <1>4, <1>6, <1>7, DivUnique
<1> QED BY <1>1, <1>2, <1>5, <1>6, <1>7, <1>8

\* A multiple of a size is a number of times it.
LEMMA Times ==
    ASSUME NEW b \in Nat \ {0}, NEW x \in Nat, x % b = 0
    PROVE  \E q \in Nat : x = q * b
<1>1. x \div b \in Nat /\ x = (x \div b) * b + (x % b)
  BY DivMod
<1> QED BY <1>1

\* Canonical addresses fit in a uint64_t.
LEMMA CanonicalFits ==
    ASSUME NEW a \in Nat, is_canonical(a)
    PROVE  a <= kUint64Max
<1>1. LowSize \in Nat \ {0} /\ kUpperValues \in Nat /\ kUpperValues > 1
  BY Spans, PagingAssumption
<1>2. PICK u \in Nat : u = a \div LowSize
  BY <1>1, DivMod, ZenonT(30)
<1>3. u <= kUpperValues - 1
  BY <1>1, <1>2, Canonical DEF UpperOf
<1>4. PICK r \in Nat : r = a % LowSize
  BY <1>1, DivMod, ZenonT(30)
<1>5. a = u * LowSize + r /\ r < LowSize
  BY <1>1, <1>2, <1>4, DivMod
<1>6. PICK d \in Nat : kUpperValues = u + 1 + d
  <2>1. kUpperValues - 1 - u \in Nat /\ kUpperValues = u + 1 + (kUpperValues - 1 - u)
    BY <1>1, <1>3
  <2> QED BY <2>1, ZenonT(30)
<1>7. LowSize * kUpperValues = u * LowSize + LowSize + d * LowSize /\ d * LowSize \in Nat
  BY <1>1, <1>6
<1> QED BY <1>1, <1>5, <1>7 DEF kUint64Max

\* The address of a page is a natural number.
LEMMA PageAddress == ASSUME NEW page \in Page PROVE page * kPageSize \in Nat
<1>1. page \in Nat
  BY DEF Page
<1> QED BY <1>1, FrameOfAddress

\* The address space is a number of pages.
LEMMA PageCount ==
    ASSUME NEW page \in Nat, is_canonical(page * kPageSize)
    PROVE  page \in Page
<1>1. PICK P \in Nat \ {0} : P = kPageSize
  BY Spans
<1>2. kUint64Max + 1 = LowSize * kUpperValues /\ LowSize * kUpperValues \in Nat
  BY Spans, PagingAssumption DEF kUint64Max
<1>3. PICK w \in Nat : kUint64Max + 1 = w * P
  <2>1. PICK n \in Nat : n = kPageTableEntries
    BY Spans
  <2>2. LowSize = P * n * n * n * n
    BY <1>1, <2>1 DEF LowSize, Span
  <2>3. PICK m \in Nat : m = n * n * n * n
    OBVIOUS
  <2>4. LowSize = m * P
    BY <2>2, <2>3
  <2>5. PICK u \in Nat : u = kUpperValues
    BY PagingAssumption
  <2>6. LowSize * u = (m * u) * P /\ m * u \in Nat
    BY <2>4
  <2> QED BY <1>2, <2>5, <2>6, ZenonT(30)
<1>4. page * P \in Nat /\ page * P <= kUint64Max
  BY <1>1, CanonicalFits
<1>5. page * P < w * P
  BY <1>2, <1>3, <1>4, Spans, PagingAssumption DEF kUint64Max
<1>6. page < w
  <2> SUFFICES ASSUME w <= page PROVE FALSE
    OBVIOUS
  <2>1. PICK d \in Nat : page = w + d
    <3>1. page - w \in Nat /\ page = w + (page - w)
      OBVIOUS
    <3> QED BY <3>1
  <2>2. page * P = w * P + d * P /\ d * P \in Nat
    BY <2>1
  <2> QED BY <1>5, <2>2
<1>7. (w * P + 0) \div P = w
  BY DivUnique
<1>8. (kUint64Max + 1) \div kPageSize = w
  BY <1>1, <1>3, <1>7
<1> QED BY <1>6, <1>8 DEF Page

\* Every span is a number of pages.
LEMMA SpanPages ==
    ASSUME NEW n \in 2 .. 4
    PROVE  \E c \in Nat \ {0} : Span[n] = c * kPageSize
<1>1. PICK N \in Nat \ {0} : N = kPageTableEntries
  BY Spans
<1>2. PICK P \in Nat \ {0} : P = kPageSize
  BY Spans
<1>3. Span[4] = 1 * P /\ Span[3] = N * P /\ Span[2] = (N * N) * P /\ N * N \in Nat \ {0}
  BY <1>1, <1>2 DEF Span
<1> QED BY <1>2, <1>3

\* The address of a byte in the block of a leaf entry, and that of its page.
LEMMA ByteOfFrame ==
    ASSUME NEW n \in 2 .. 4, NEW addr \in Nat, addr % kPageSize = 0,
           NEW page \in Nat, NEW byte \in 0 .. kPageSize - 1
    PROVE  addr + ((page * kPageSize + byte) % Span[n])
               = ((addr + ((page * kPageSize) % Span[n])) \div kPageSize) * kPageSize + byte
<1>1. PICK P \in Nat \ {0} : P = kPageSize
  BY Spans
<1>2. PICK c \in Nat \ {0} : Span[n] = c * P
  BY <1>1, SpanPages, ZenonT(30)
<1>3. PICK q \in Nat : q = page \div c
  BY DivMod
<1>4. PICK j \in Nat : j = page % c
  BY DivMod, ZenonT(30)
<1>5. page = q * c + j /\ j < c
  BY <1>3, <1>4, DivMod
<1>6. PICK B \in Nat \ {0} : B = c * P
  OBVIOUS
<1>7. byte \in Nat /\ byte < P
  BY <1>1
<1>8. PICK r \in Nat : r = j * P
  OBVIOUS
<1>9. r + byte < B
  <2>1. PICK d \in Nat : c = j + 1 + d
    <3>1. c - j - 1 \in Nat /\ c = j + 1 + (c - j - 1)
      BY <1>5
    <3> QED BY <3>1
  <2>2. B = r + P + d * P /\ d * P \in Nat
    BY <1>6, <1>8, <2>1
  <2> QED BY <1>7, <2>2
<1>10. page * P = q * B + r /\ page * P + byte = q * B + (r + byte)
  BY <1>5, <1>6, <1>7, <1>8
<1>11. (q * B + r) % B = r
  BY <1>7, <1>9, DivUnique
<1>12. (q * B + (r + byte)) % B = r + byte
  <2>1. PICK z \in Nat : z = r + byte
    BY <1>7
  <2>2. (q * B + z) % B = z
    BY <1>9, <2>1, DivUnique, ZenonT(30)
  <2> QED BY <2>1, <2>2
<1>13. PICK g \in Nat : addr = g * P
  BY <1>1, Times, ZenonT(30)
<1>14. addr + r = (g + j) * P + 0 /\ g + j \in Nat
  BY <1>8, <1>13
<1>15. ((g + j) * P + 0) \div P = g + j
  BY <1>14, DivUnique
<1>16. (page * P) % Span[n] = r /\ (page * P + byte) % Span[n] = r + byte
  BY <1>2, <1>6, <1>10, <1>11, <1>12
<1>17. ((addr + r) \div P) * P + byte = addr + (r + byte)
  <2>1. (addr + r) \div P = g + j
    BY <1>14, <1>15
  <2>2. ((addr + r) \div P) * P = addr + r
    BY <1>14, <2>1
  <2> QED BY <1>7, <2>2
<1> QED BY <1>1, <1>16, <1>17, ZenonT(30)

-----------------------------------------------------------------------------
(***************************************************************************)
(* Page walks                                                              *)
(***************************************************************************)

\* In memory m, the entries of tables t[1] .. t[n] are the walk for an address,
\* and its last one maps the page.
IsPath(m, root, address, n, t) ==
    /\ t[1] = root
    /\ \A k \in 1 .. n - 1 :
          /\ IsPresent(m[t[k]][IndexAt(k, address)])
          /\ k > 1 => ~ IsHuge(m[t[k]][IndexAt(k, address)])
          /\ t[k + 1] = m[t[k]][IndexAt(k, address)].addr \div kPageSize
    /\ IsPresent(m[t[n]][IndexAt(n, address)])
    /\ n < 4 => IsHuge(m[t[n]][IndexAt(n, address)])

PathOf(m, address, n, t) == [k \in 1 .. n |-> m[t[k]][IndexAt(k, address)]]

\* The walk has n entries, and its last one is in table t[n].
EndsAt(m, root, address, n, t) ==
    /\ Len(Walk(m, root, address)) = n
    /\ LeafOf(Walk(m, root, address)) = m[t[n]][IndexAt(n, address)]

\* Walk follows the path.
LEMMA WalkFollows ==
    ASSUME NEW m, NEW root, NEW address, NEW n \in 2 .. 4, NEW t, IsPath(m, root, address, n, t)
    PROVE  /\ Walk(m, root, address) = PathOf(m, address, n, t)
           /\ EndsAt(m, root, address, n, t)
<1> DEFINE e(k) == m[t[k]][IndexAt(k, address)]
<1>0. /\ t[1] = root /\ IsPresent(e(1)) /\ t[2] = e(1).addr \div kPageSize
      /\ IsPresent(e(n)) /\ (n < 4 => IsHuge(e(n)))
  BY DEF IsPath
<1>1. CASE n = 2
  <2>0. IsHuge(e(2))
    BY <1>0, <1>1, SMTT(30)
  <2>1. Walk(m, root, address) = <<e(1), e(2)>>
    BY <1>0, <2>0, ZenonT(30) DEF Walk
  <2>2. PathOf(m, address, n, t) = <<e(1), e(2)>>
    BY <1>1 DEF PathOf
  <2> HIDE DEF e
  <2>3. Len(<<e(1), e(2)>>) = 2 /\ LeafOf(<<e(1), e(2)>>) = e(2)
    BY DEF LeafOf
  <2> QED BY <1>1, <2>1, <2>2, <2>3 DEF e, EndsAt
<1>2. CASE n = 3
  <2>0. IsPresent(e(2)) /\ ~ IsHuge(e(2)) /\ t[3] = e(2).addr \div kPageSize
    BY <1>2 DEF IsPath
  <2>00. IsHuge(e(3))
    BY <1>0, <1>2, SMTT(30)
  <2>1. Walk(m, root, address) = <<e(1), e(2), e(3)>>
    BY <1>0, <2>0, <2>00, ZenonT(30) DEF Walk
  <2>2. PathOf(m, address, n, t) = <<e(1), e(2), e(3)>>
    BY <1>2 DEF PathOf
  <2> HIDE DEF e
  <2>3. Len(<<e(1), e(2), e(3)>>) = 3 /\ LeafOf(<<e(1), e(2), e(3)>>) = e(3)
    BY DEF LeafOf
  <2> QED BY <1>2, <2>1, <2>2, <2>3 DEF e, EndsAt
<1>3. CASE n = 4
  <2>0. /\ IsPresent(e(2)) /\ ~ IsHuge(e(2)) /\ t[3] = e(2).addr \div kPageSize
        /\ IsPresent(e(3)) /\ ~ IsHuge(e(3)) /\ t[4] = e(3).addr \div kPageSize
    <3>1. 2 \in 1 .. n - 1 /\ 3 \in 1 .. n - 1 /\ 2 + 1 = 3 /\ 3 + 1 = 4 /\ 2 > 1 /\ 3 > 1
      BY <1>3, SMTT(30)
    <3> QED BY <3>1 DEF IsPath
  <2>1. Walk(m, root, address) = <<e(1), e(2), e(3), e(4)>>
    BY <1>0, <1>3, <2>0, ZenonT(30) DEF Walk
  <2>2. PathOf(m, address, n, t) = <<e(1), e(2), e(3), e(4)>>
    BY <1>3 DEF PathOf
  <2> HIDE DEF e
  <2>3. Len(<<e(1), e(2), e(3), e(4)>>) = 4 /\ LeafOf(<<e(1), e(2), e(3), e(4)>>) = e(4)
    BY DEF LeafOf
  <2> QED BY <1>3, <2>1, <2>2, <2>3 DEF e, EndsAt
<1> QED BY <1>1, <1>2, <1>3

\* The second half of WalkFollows.
LEMMA WalkEnds ==
    ASSUME NEW m, NEW root, NEW address, NEW n \in 2 .. 4, NEW t, IsPath(m, root, address, n, t)
    PROVE  EndsAt(m, root, address, n, t)
BY WalkFollows, Zenon

\* A walk whose last entry is present is such a path.
LEMMA WalkIsPath ==
    ASSUME NEW m, NEW root, NEW address, IsPresent(LeafOf(Walk(m, root, address)))
    PROVE  \E n \in 2 .. 4 : \E t : IsPath(m, root, address, n, t)
<1> DEFINE next(e) == e.addr \div kPageSize
           e1 == m[root][IndexAt(1, address)]
           e2 == m[next(e1)][IndexAt(2, address)]
           e3 == m[next(e2)][IndexAt(3, address)]
           e4 == m[next(e3)][IndexAt(4, address)]
           t == <<root, next(e1), next(e2), next(e3)>>
           goesOn(e) == IsPresent(e) /\ ~ IsHuge(e)
<1>1. Walk(m, root, address) =
          IF ~ IsPresent(e1) THEN <<e1>>
          ELSE IF ~ goesOn(e2) THEN <<e1, e2>>
          ELSE IF ~ goesOn(e3) THEN <<e1, e2, e3>>
          ELSE <<e1, e2, e3, e4>>
  BY ZenonT(30) DEF Walk
<1>2. /\ LeafOf(<<e1>>) = e1 /\ LeafOf(<<e1, e2>>) = e2
      /\ LeafOf(<<e1, e2, e3>>) = e3 /\ LeafOf(<<e1, e2, e3, e4>>) = e4
  <2> HIDE DEF e1, e2, e3, e4
  <2> QED BY DEF LeafOf
<1>3. /\ t[1] = root /\ t[2] = next(e1) /\ t[3] = next(e2) /\ t[4] = next(e3)
  <2> HIDE DEF e1, e2, e3, e4, next
  <2> QED BY SMTT(30)
<1>4. /\ m[t[1]][IndexAt(1, address)] = e1 /\ m[t[2]][IndexAt(2, address)] = e2
      /\ m[t[3]][IndexAt(3, address)] = e3 /\ m[t[4]][IndexAt(4, address)] = e4
  BY <1>3, ZenonT(30)
<1> HIDE DEF e1, e2, e3, e4, t
<1>5. IsPresent(e1)
  BY <1>1, <1>2
<1>6. CASE ~ goesOn(e2)
  <2>1. IsPresent(e2) /\ IsHuge(e2)
    BY <1>1, <1>2, <1>5, <1>6
  <2>2. IsPath(m, root, address, 2, t)
    BY <1>3, <1>4, <1>5, <2>1, SMTT(30) DEF IsPath
  <2> QED BY <2>2
<1>7. CASE goesOn(e2) /\ ~ goesOn(e3)
  <2>1. IsPresent(e3) /\ IsHuge(e3)
    BY <1>1, <1>2, <1>5, <1>7
  <2>2. IsPath(m, root, address, 3, t)
    BY <1>3, <1>4, <1>5, <1>7, <2>1, SMTT(30) DEF IsPath
  <2> QED BY <2>2
<1>8. CASE goesOn(e2) /\ goesOn(e3)
  <2>1. IsPresent(e4)
    BY <1>1, <1>2, <1>5, <1>8
  <2>2. IsPath(m, root, address, 4, t)
    BY <1>3, <1>4, <1>5, <1>8, <2>1, SMTT(30) DEF IsPath
  <2> QED BY <2>2
<1> QED BY <1>6, <1>7, <1>8, SMTT(30)

\* The tables and entries a walk meets from a table on; every path is along them.
LEMMA PathFollows ==
    ASSUME NEW m, NEW root, NEW a, NEW n \in 2 .. 4, NEW u, IsPath(m, root, a, n, u)
    PROVE  LET e1 == m[root][IndexAt(1, a)]
               e2 == m[e1.addr \div kPageSize][IndexAt(2, a)]
               e3 == m[e2.addr \div kPageSize][IndexAt(3, a)]
               e4 == m[e3.addr \div kPageSize][IndexAt(4, a)]
           IN  /\ IsPresent(e1) /\ IsPresent(e2)
               /\ n = 2 => IsHuge(e2)
               /\ n > 2 => ~ IsHuge(e2) /\ IsPresent(e3)
               /\ n = 3 => IsHuge(e3)
               /\ n > 3 => ~ IsHuge(e3) /\ IsPresent(e4)
<1>1. PICK e1 : e1 = m[root][IndexAt(1, a)]
  OBVIOUS
<1>2. PICK e2 : e2 = m[e1.addr \div kPageSize][IndexAt(2, a)]
  OBVIOUS
<1>3. PICK e3 : e3 = m[e2.addr \div kPageSize][IndexAt(3, a)]
  OBVIOUS
<1>4. PICK e4 : e4 = m[e3.addr \div kPageSize][IndexAt(4, a)]
  OBVIOUS
<1> DEFINE y(k) == m[u[k]][IndexAt(k, a)]
<1>5. \A k \in 1 .. n - 1 :
         IsPresent(y(k)) /\ (k > 1 => ~ IsHuge(y(k))) /\ u[k + 1] = y(k).addr \div kPageSize
  BY DEF IsPath
<1>6. u[1] = root /\ IsPresent(y(n)) /\ (n < 4 => IsHuge(y(n)))
  BY DEF IsPath
<1>7. y(1) = e1 /\ 1 \in 1 .. n - 1
  BY <1>1, <1>6
<1> HIDE DEF y
<1>8. IsPresent(e1) /\ u[2] = e1.addr \div kPageSize
  BY <1>5, <1>7
<1>9. y(2) = e2
  BY <1>2, <1>8 DEF y
<1>10. n > 2 => IsPresent(e2) /\ ~ IsHuge(e2) /\ u[3] = e2.addr \div kPageSize
  BY <1>5, <1>9
<1>11. n > 2 => y(3) = e3
  BY <1>3, <1>10 DEF y
<1>12. n > 3 => IsPresent(e3) /\ ~ IsHuge(e3) /\ u[4] = e3.addr \div kPageSize
  BY <1>5, <1>11
<1>13. n > 3 => y(4) = e4
  BY <1>4, <1>12 DEF y
<1>14. /\ IsPresent(e1) /\ IsPresent(e2)
       /\ n = 2 => IsHuge(e2)
       /\ n > 2 => ~ IsHuge(e2) /\ IsPresent(e3)
       /\ n = 3 => IsHuge(e3)
       /\ n > 3 => ~ IsHuge(e3) /\ IsPresent(e4)
  BY <1>6, <1>8, <1>9, <1>10, <1>11, <1>12, <1>13
<1> QED BY <1>1, <1>2, <1>3, <1>4, <1>14, ZenonT(30)

\* Rights that agree are equal.
LEMMA SameRights ==
    ASSUME NEW w1 \in BOOLEAN, NEW u1 \in BOOLEAN, NEW x1 \in BOOLEAN,
           NEW w2 \in BOOLEAN, NEW u2 \in BOOLEAN, NEW x2 \in BOOLEAN,
           w1 <=> w2, u1 <=> u2, x1 <=> x2
    PROVE  [write |-> w1, user |-> u1, exec |-> x1] = [write |-> w2, user |-> u2, exec |-> x2]
<1>1. w1 = w2 /\ u1 = u2 /\ x1 = x2
  OBVIOUS
<1> QED BY <1>1

\* The rights that flags ask for, one by one.
LEMMA RightsOfFlags ==
    ASSUME NEW fl
    PROVE  RightsOf(fl) = [write |-> "Writable" \in fl, user |-> "User" \in fl,
                           exec |-> "NoExecute" \notin fl]
<1> DEFINE walk == <<[addr |-> 0, flags |-> fl]>>
<1>1. DOMAIN walk = {1} /\ walk[1].flags = fl
  OBVIOUS
<1> HIDE DEF walk
<1>2. Rights(walk) = [write |-> "Writable" \in fl, user |-> "User" \in fl,
                      exec |-> "NoExecute" \notin fl]
  <2> DEFINE w == \A n \in DOMAIN walk : "Writable" \in walk[n].flags
             u == \A n \in DOMAIN walk : "User" \in walk[n].flags
             x == \A n \in DOMAIN walk : "NoExecute" \notin walk[n].flags
  <2>2. Rights(walk) = [write |-> w, user |-> u, exec |-> x]
    BY DEF Rights
  <2>3. w \in BOOLEAN /\ u \in BOOLEAN /\ x \in BOOLEAN
    OBVIOUS
  <2>4. (w <=> "Writable" \in fl) /\ (u <=> "User" \in fl) /\ (x <=> "NoExecute" \notin fl)
    BY <1>1
  <2> HIDE DEF w, u, x
  <2> QED BY <2>2, <2>3, <2>4, SameRights
<1> QED BY <1>2 DEF RightsOf, walk

-----------------------------------------------------------------------------
(***************************************************************************)
(* The pages a leaf entry maps                                             *)
(***************************************************************************)

\* The translation that a last entry e, at level n, gives a page.
TransOf(page, n, e) ==
    [page |-> page,
     frame |-> (e.addr + ((page * kPageSize) % Span[n])) \div kPageSize,
     rights |-> RightsOf(e.flags)]

\* A path in memory m from a root gives a page the translation x.
Translates(m, root, page, n, t, x) ==
    /\ IsPath(m, root, page * kPageSize, n, t)
    /\ x = TransOf(page, n, m[t[n]][IndexAt(n, page * kPageSize)])

\* The pages below the entry for an address at level k.
Block(k, address) == {page \in Page : (page * kPageSize) \div Span[k] = address \div Span[k]}

\* c pages from p on, mapped onto as many frames from f on.
Run(c, p, f, rights) ==
    {[page |-> p + j, frame |-> f + j, rights |-> rights] : j \in 0 .. c - 1}

\* The pages below a leaf entry, at level k for address v, with address field a:
\* c pages from an aligned page p on, mapped onto frames from an aligned f on.
LeafRun(k, v, a, fl, c, p, f) ==
    /\ Span[k] = c * kPageSize
    /\ p % c = 0 /\ f % c = 0 /\ v = p * kPageSize /\ a = f * kPageSize
    /\ Block(k, v) = {p + j : j \in 0 .. c - 1}
    /\ \A j \in 0 .. c - 1 :
          TransOf(p + j, k, [addr |-> a, flags |-> fl])
              = [page |-> p + j, frame |-> f + j, rights |-> RightsOf(fl)]

\* They are one page or kPageTableEntries pages.
LEMMA LeafRuns ==
    ASSUME NEW k \in {3, 4}, NEW v \in Nat, is_canonical(v), v % Span[k] = 0,
           NEW a \in Nat, a % Span[k] = 0, NEW fl
    PROVE  \E c \in {1, kPageTableEntries}, p \in Nat, f \in Nat : LeafRun(k, v, a, fl, c, p, f)
<1>1. PICK P \in Nat \ {0} : P = kPageSize
  BY Spans
<1>2. PICK c \in Nat \ {0} : c = IF k = 4 THEN 1 ELSE kPageTableEntries
  BY Spans
<1>3. Span[k] = c * P /\ c * P \in Nat \ {0}
  <2>1. CASE k = 4
    BY <1>1, <1>2, <2>1, Spans
  <2>2. CASE k = 3
    BY <1>1, <1>2, <2>2 DEF Span
  <2> QED BY <2>1, <2>2
<1>4. PICK B \in Nat \ {0} : B = c * P
  BY <1>3
<1>5. PICK q \in Nat : v = q * B
  <2>1. v % B = 0
    BY <1>3, <1>4
  <2> QED BY <2>1, Times, Zenon
<1>6. PICK g \in Nat : a = g * B
  <2>1. a % B = 0
    BY <1>3, <1>4
  <2> QED BY <2>1, Times, Zenon
<1>7. PICK p \in Nat : p = q * c
  OBVIOUS
<1>8. PICK f \in Nat : f = g * c
  OBVIOUS
<1>9. v = p * P /\ a = f * P
  BY <1>4, <1>5, <1>6, <1>7, <1>8
<1>10. p \div c = q /\ p % c = 0 /\ f % c = 0
  <2>1. (q * c + 0) \div c = q /\ (q * c + 0) % c = 0
    BY DivUnique
  <2>2. (g * c + 0) % c = 0
    BY DivUnique
  <2> QED BY <1>7, <1>8, <2>1, <2>2
<1>11. ASSUME NEW page \in Nat PROVE (page * P) \div Span[k] = page \div c
  BY <1>3, WholePages
<1>12. ASSUME NEW j \in 0 .. c - 1
       PROVE  /\ p + j \in Nat /\ (p + j) \div c = q /\ (p + j) % c = j
  <2>1. (q * c + j) \div c = q /\ (q * c + j) % c = j
    BY DivUnique
  <2> QED BY <1>7, <2>1
<1>13. v \div Span[k] = q
  BY <1>9, <1>10, <1>11, ZenonT(30)
<1>14. ASSUME NEW page \in Block(k, v) PROVE \E j \in 0 .. c - 1 : page = p + j
  <2>0. page \in Page /\ (page * P) \div Span[k] = v \div Span[k]
    BY <1>1 DEF Block
  <2>3. page \in Nat
    BY <2>0 DEF Page
  <2>1. page \in Nat /\ page \div c = q
    BY <1>11, <1>13, <2>0, <2>3, ZenonT(30)
  <2>2. page = (page \div c) * c + (page % c) /\ page % c \in 0 .. c - 1
    BY <2>1, DivMod
  <2> QED BY <1>7, <2>1, <2>2
<1>15. ASSUME NEW j \in 0 .. c - 1 PROVE p + j \in Block(k, v)
  <2>1. PICK page \in Nat : page = p + j
    BY <1>12
  <2>2. PICK b \in Nat : b = page * P
    OBVIOUS
  <2>3. b \div Span[k] = v \div Span[k]
    BY <1>11, <1>12, <1>13, <2>1, <2>2, ZenonT(30)
  <2>4. b \div LowSize = v \div LowSize /\ \A n \in 1 .. k : IndexAt(n, b) = IndexAt(n, v)
    BY <2>3, SameBlock
  <2>5. is_canonical(b)
    BY <2>4, Canonical
  <2>6. page \in Page
    BY <1>1, <2>2, <2>5, PageCount
  <2> QED BY <1>1, <2>1, <2>2, <2>3, <2>6 DEF Block
<1>16. ASSUME NEW j \in 0 .. c - 1
       PROVE  (a + (((p + j) * P) % Span[k])) \div P = f + j
  <2>1. PICK page \in Nat : page = p + j
    BY <1>12
  <2>2. (page * P) % Span[k] = (page % c) * P
    BY <1>3, WholePages, ZenonT(30)
  <2>3. ((p + j) * P) % Span[k] = j * P
    BY <1>12, <2>1, <2>2, ZenonT(30)
  <2>4. a + j * P = (f + j) * P + 0 /\ f + j \in Nat
    BY <1>9
  <2>5. ((f + j) * P + 0) \div P = f + j
    BY <2>4, DivUnique
  <2> QED BY <2>3, <2>4, <2>5
<1>17. \A j \in 0 .. c - 1 :
          TransOf(p + j, k, [addr |-> a, flags |-> fl])
              = [page |-> p + j, frame |-> f + j, rights |-> RightsOf(fl)]
  BY <1>1, <1>16 DEF TransOf
<1>18. c \in {1, kPageTableEntries} /\ Span[k] = c * kPageSize
  BY <1>1, <1>2, <1>3
<1>19. Block(k, v) = {p + j : j \in 0 .. c - 1}
  BY <1>14, <1>15, ZenonT(30)
<1>20. v = p * kPageSize /\ a = f * kPageSize
  BY <1>1, <1>9
<1>21. LeafRun(k, v, a, fl, c, p, f)
  BY <1>10, <1>17, <1>18, <1>19, <1>20, ZenonT(30) DEF LeafRun
<1> QED BY <1>18, <1>21

\* What a request asks for in its first done bytes.
Asked(v, a, done, rights) ==
    {[page |-> (v + offset) \div kPageSize,
      frame |-> (a + offset) \div kPageSize,
      rights |-> rights] : offset \in {o \in 0 .. done - 1 : o % kPageSize = 0}}

\* The next run of pages is what it asks for in its next bytes.
LEMMA AskedGrows ==
    ASSUME NEW v \in Nat, NEW a \in Nat, NEW d \in Nat, d % kPageSize = 0,
           NEW c \in Nat, NEW p \in Nat, NEW f \in Nat, NEW rights,
           v + d = p * kPageSize, a + d = f * kPageSize
    PROVE  Asked(v, a, d + c * kPageSize, rights) \subseteq Asked(v, a, d, rights) \cup Run(c, p, f, rights)
<1>1. PICK P \in Nat \ {0} : P = kPageSize
  BY Spans
<1>2. PICK n \in Nat : d = n * P
  BY <1>1, Times, ZenonT(30)
<1> SUFFICES ASSUME NEW x \in Asked(v, a, d + c * kPageSize, rights)
             PROVE  x \in Asked(v, a, d, rights) \cup Run(c, p, f, rights)
  OBVIOUS
<1>3. PICK o \in 0 .. (d + c * P) - 1 :
         o % P = 0 /\ x = [page |-> (v + o) \div P, frame |-> (a + o) \div P, rights |-> rights]
  BY <1>1, ZenonT(30) DEF Asked
<1>4. CASE o < d
  <2>1. o \in {q \in 0 .. d - 1 : q % P = 0}
    BY <1>3, <1>4
  <2>2. x \in Asked(v, a, d, rights)
    BY <1>1, <1>3, <2>1, ZenonT(30) DEF Asked
  <2> QED BY <2>2
<1>5. CASE d <= o
  <2>1. o \in Nat /\ c * P \in Nat /\ o < d + c * P
    BY <1>2, <1>3
  <2>2. PICK m \in Nat : o = m * P
    BY <1>3, <2>1, Times, ZenonT(30)
  <2>3. n <= m
    <3> SUFFICES ASSUME m < n PROVE FALSE
      OBVIOUS
    <3>1. PICK e \in Nat : n = m + 1 + e
      <4>1. n - m - 1 \in Nat /\ n = m + 1 + (n - m - 1)
        OBVIOUS
      <4> QED BY <4>1
    <3>2. n * P = m * P + P + e * P /\ e * P \in Nat
      BY <3>1
    <3> QED BY <1>2, <1>5, <2>2, <3>2
  <2>4. PICK j \in Nat : m = n + j
    <3>1. m - n \in Nat /\ m = n + (m - n)
      BY <2>3
    <3> QED BY <3>1
  <2>5. o = d + j * P /\ j * P \in Nat
    BY <1>2, <2>2, <2>4
  <2>6. j < c
    <3> SUFFICES ASSUME c <= j PROVE FALSE
      OBVIOUS
    <3>1. PICK e \in Nat : j = c + e
      <4>1. j - c \in Nat /\ j = c + (j - c)
        OBVIOUS
      <4> QED BY <4>1
    <3>2. j * P = c * P + e * P /\ e * P \in Nat
      BY <3>1
    <3> QED BY <2>1, <2>5, <3>2
  <2>7. v + o = (p + j) * P + 0 /\ a + o = (f + j) * P + 0
    BY <1>1, <2>5
  <2>8. ((p + j) * P + 0) \div P = p + j
    BY DivUnique
  <2>9. ((f + j) * P + 0) \div P = f + j
    BY DivUnique
  <2>10. x = [page |-> p + j, frame |-> f + j, rights |-> rights]
    BY <1>3, <2>7, <2>8, <2>9
  <2>11. x \in Run(c, p, f, rights)
    BY <2>6, <2>10 DEF Run
  <2> QED BY <2>11
<1> QED BY <1>3, <1>4, <1>5

-----------------------------------------------------------------------------
(***************************************************************************)
(* The shape of the tables                                                 *)
(*                                                                         *)
(* The argument rests on levels.  Nothing in memory says which level a     *)
(* table has, and the address in a leaf may well be that of a table; what  *)
(* is inductive is that every allocated frame can be given one level that  *)
(* all entries leading to it agree with.                                   *)
(***************************************************************************)

\* The frame the allocator hands out next is a free one.
Allocates == free # {} /\ Min(free) \in free

Tables == Pool \ free

CallType ==
    [space : Space, page : {kPageSize, kLargePageSize}, virt : Nat, phys : Nat, size : Nat,
     flags : SUBSET PageFlags, done : Nat, status : {"running", "ok", "fail"}]

\* Types, and that a walk is under way only in a call and no deeper than its leaf.
TypeInv ==
    /\ TypeOK
    /\ call = NoCall \/ call \in CallType
    /\ level # 0 => call.status = "running" /\ level <= LeafLevel

Target(t, ix) == mem[t][ix].addr \div kPageSize

\* The entry leads to a table, lv giving the levels of tables.
IsLink(lv, t, ix) == lv[t] < 4 /\ IsPresent(mem[t][ix]) /\ ~ IsHuge(mem[t][ix])

LevelsOK(lv) ==
    /\ \A t \in Tables : lv[t] \in 1 .. 4
    /\ \A s \in Space : pml4[s] # NoTable => lv[pml4[s]] = 1
    /\ level # 0 => lv[at] = level

\* Links lead one level down, and restrict neither writing nor execution.
LinksOK(lv) ==
    \A t \in Tables, ix \in Index :
        /\ lv[t] < 3 => ~ IsHuge(mem[t][ix])
        /\ IsLink(lv, t, ix) =>
              /\ Target(t, ix) \in Tables
              /\ lv[Target(t, ix)] = lv[t] + 1
              /\ "Writable" \in mem[t][ix].flags
              /\ "NoExecute" \notin mem[t][ix].flags

\* A table hangs from one entry: otherwise ensure_table would widen one of its
\* links and leave the other.
OneLink(lv) ==
    \A t, u \in Tables, ix, jx \in Index :
        IsLink(lv, t, ix) /\ IsLink(lv, u, jx) /\ Target(t, ix) = Target(u, jx)
            => t = u /\ ix = jx

GrantsUser(t, ix) == IsPresent(mem[t][ix]) /\ "User" \in mem[t][ix].flags

\* A link has User if anything below it has, or is about to have.
UserOK(lv) ==
    \A t \in Tables, ix \in Index :
        IsLink(lv, t, ix) =>
            /\ \A jx \in Index : GrantsUser(Target(t, ix), jx) => "User" \in mem[t][ix].flags
            /\ level # 0 /\ Target(t, ix) = at /\ "User" \in call.flags
                  => "User" \in mem[t][ix].flags

Shape(lv) == LevelsOK(lv) /\ LinksOK(lv) /\ OneLink(lv) /\ UserOK(lv)

IInv == TypeInv /\ \E lv \in [Frames -> 0 .. 4] : Shape(lv)

-----------------------------------------------------------------------------
(***************************************************************************)
(* Trees: no table is shared or lost                                       *)
(***************************************************************************)

\* The tables of the four levels, from the roots down.
Roots == {pml4[s] : s \in {r \in Space : pml4[r] # NoTable}}
Pdpts == Below(Roots)
Pds == Below(Pdpts)
Pts == Below(Pds)

RootsDistinct == \A s, r \in Space : pml4[s] = pml4[r] /\ pml4[s] # NoTable => s = r

\* Every allocated frame is reached from a root.
NoneLost == Tables \subseteq Roots \cup Pdpts \cup Pds \cup Pts

TInv == IInv /\ RootsDistinct /\ NoneLost

-----------------------------------------------------------------------------
(***************************************************************************)
(* The call in progress                                                    *)
(*                                                                         *)
(* The shape of the tables says nothing of the call in progress.  That the *)
(* entry it is about to write is the one for its page takes the way it has *)
(* come: the tables t[1] .. t[level] from the root of its space, each      *)
(* linked to the next by an index of the page.                             *)
(***************************************************************************)

Descent(t) ==
    /\ t[1] = pml4[call.space] /\ t[level] = at
    /\ \A k \in 1 .. level - 1 :
          /\ t[k] \in Tables
          /\ IsPresent(mem[t[k]][IndexAt(k, virt)]) /\ ~ IsHuge(mem[t[k]][IndexAt(k, virt)])
          /\ t[k + 1] = Target(t[k], IndexAt(k, virt))

\* A walk is under way only for a page that passed the checks of its arguments.
Walking == level # 0 => PageOK /\ \E t \in [1 .. 4 -> Frames] : Descent(t)

\* The address fields of entries hold addresses of pages.
Aligned == \A t \in Tables, ix \in Index : mem[t][ix].addr % kPageSize = 0

\* A call goes through its request page by page, and not beyond its end.
Progress ==
    call # NoCall =>
        /\ call.size % call.page = 0 /\ call.done % call.page = 0
        /\ call.done <= call.size
        /\ call.status = "running" => call.done < call.size
        /\ call.status = "ok" => call.done = call.size

WInv == TInv /\ Walking /\ Aligned /\ Progress

-----------------------------------------------------------------------------
(***************************************************************************)
(* Types                                                                   *)
(***************************************************************************)

\* The entries make_page_entry builds are entries, and lead to the frame they
\* are made for.
LEMMA EntryType ==
    ASSUME NEW a \in Nat, NEW fl \in SUBSET PageFlags
    PROVE  make_page_entry(a, fl) \in Entry
<1>0. kPhysicalLimit \in Nat /\ kPhysicalLimit > 0
  <2>1. Garbage.addr \in 0 .. kPhysicalLimit - 1
    BY VmmAssumption DEF Entry
  <2> QED BY <2>1, PagingAssumption
<1>1. a - (a % kPageSize) \in Nat
  BY PagingAssumption
<1>2. (a - (a % kPageSize)) % kPhysicalLimit \in 0 .. kPhysicalLimit - 1
  BY <1>0, <1>1
<1> QED BY <1>2 DEF make_page_entry, Entry

\* make_page_entry cuts nothing off the address of a frame.
LEMMA EntryOfFrame ==
    ASSUME NEW f \in Frames, NEW fl
    PROVE  make_page_entry(f * kPageSize, fl) = [addr |-> f * kPageSize, flags |-> fl]
<1>1. f \in Nat /\ NumFrames \in Nat /\ f + 1 <= NumFrames
  BY VmmAssumption DEF Frames
<1>2. (f + 1) * kPageSize <= NumFrames * kPageSize
  BY <1>1, PagingAssumption
<1>3. f * kPageSize \in Nat /\ f * kPageSize < kPhysicalLimit
  BY <1>1, <1>2, FrameOfAddress, PagingAssumption, VmmAssumption
<1>4. (f * kPageSize) % kPageSize = 0
  BY <1>1, FrameOfAddress
<1>5. (f * kPageSize - 0) % kPhysicalLimit = f * kPageSize
  BY <1>3, PagingAssumption
<1> QED BY <1>4, <1>5 DEF make_page_entry

\* The frame allocate_table takes is a free one, and it always takes one.
LEMMA NewTableFree ==
    ASSUME TypeInv, Allocates
    PROVE  /\ NewTable \in free /\ NewTable \in Pool /\ NewTable \in Frames
           /\ NewTable \in Nat /\ NewTable # NoTable
<1>1. free \subseteq Pool /\ Pool \subseteq Frames /\ Frames \subseteq Nat
  BY VmmAssumption DEF TypeInv, TypeOK, Frames
<1>2. Min(free) \in free
  BY DEF Allocates
<1>3. NewTable = Min(free)
  BY <1>1, <1>2, FrameOfAddress, ZenonT(30) DEF NewTable, alloc_frame, Allocates
<1>4. NewTable \in free /\ NewTable \in Pool /\ NewTable \in Frames /\ NewTable \in Nat
  BY <1>1, <1>2, <1>3, ZenonT(30)
<1>5. NewTable # -1
  BY <1>4
<1> QED BY <1>4, <1>5 DEF NoTable

\* What a step of a running call knows of the call and of its entry.
LEMMA Running ==
    ASSUME TypeInv, call.status = "running"
    PROVE  /\ call \in CallType
           /\ virt \in Nat /\ phys \in Nat
           /\ LeafLevel \in {3, 4}
           /\ intermediate_flags \in SUBSET PageFlags
           /\ LeafFlags \in SUBSET PageFlags
<1>1. call \in CallType
  BY DEF TypeInv, NoCall
<1> QED BY <1>1 DEF CallType, virt, phys, LeafLevel, intermediate_flags, LeafFlags, PageFlags

\* While a walk is under way, it is at an entry of an allocated table.
LEMMA AtEntry ==
    ASSUME TypeInv, level # 0
    PROVE  /\ level \in 1 .. 4
           /\ at \in Tables /\ at \in Frames /\ slot \in Index
           /\ entry \in Entry
<1>1. level \in 1 .. 4 /\ at \in Tables /\ at \in Frames
  BY VmmAssumption DEF TypeInv, TypeOK, Tables
<1>2. slot \in Index
  BY <1>1, Running, IndexInTable DEF slot, TypeInv
<1> QED BY <1>1, <1>2 DEF entry, TypeInv, TypeOK

\* A zeroed table holds entries.
LEMMA ZeroTableType == ZeroTable \in [Index -> Entry]
<1>1. 0 \in 0 .. kPhysicalLimit - 1
  BY VmmAssumption, PagingAssumption DEF Entry
<1> QED BY <1>1 DEF ZeroTable, NoEntry, Entry

\* What a walk knows of its page and of the entry it writes.
LEMMA WalkArgs ==
    ASSUME TypeInv, call.status = "running", PageOK
    PROVE  /\ call.space \in Space /\ pml4[call.space] # NoTable
           /\ call.page \in {kPageSize, kLargePageSize}
           /\ is_canonical(virt) /\ virt % call.page = 0 /\ virt % kPageSize = 0
           /\ phys % call.page = 0 /\ phys % kPageSize = 0 /\ phys < kPhysicalLimit
           /\ make_page_entry(phys, LeafFlags) = [addr |-> phys, flags |-> LeafFlags]
<1>1. call \in CallType /\ virt \in Nat /\ phys \in Nat
  BY Running
<1>2. call.space \in Space /\ call.page \in {kPageSize, kLargePageSize}
  BY <1>1 DEF CallType
<1>3. /\ pml4[call.space] # NoTable /\ is_canonical(virt)
      /\ virt % call.page = 0 /\ phys % call.page = 0 /\ phys < kPhysicalLimit
  BY DEF PageOK
<1>4. virt % kPageSize = 0 /\ phys % kPageSize = 0
  BY <1>1, <1>2, <1>3, PageSizes
<1>5. make_page_entry(phys, LeafFlags) = [addr |-> phys, flags |-> LeafFlags]
  BY <1>1, <1>3, <1>4, EntryOfPage
<1> QED BY <1>2, <1>3, <1>4, <1>5

-----------------------------------------------------------------------------
(***************************************************************************)
(* The three ways a step of a walk changes a table: a link to a new table, *)
(* more rights on a link, a leaf.  The actions make only these changes,    *)
(* while the allocator has a frame left.                                   *)
(***************************************************************************)

\* Of the tables, a step changes entry i of table a only.
ChangesOnly(a, i) ==
    \A t \in Tables, ix \in Index : ~ (t = a /\ ix = i) => mem'[t][ix] = mem[t][ix]

\* What a step does, entry by entry, that links a new table n to entry i of
\* table a at level k, that widens the link there, or that writes a leaf there.
Linked(k, a, i, n) ==
    /\ level = k /\ level' = k + 1 /\ at = a /\ at' = n
    /\ free' = free \ {n} /\ UNCHANGED <<call, pml4>>
    /\ ChangesOnly(a, i)
    /\ \A ix \in Index : mem'[n][ix] = NoEntry
    /\ ~ IsPresent(mem[a][i])
    /\ Target(a, i)' = n /\ mem'[a][i].flags = intermediate_flags
    /\ mem'[a][i].addr = n * kPageSize

Widened(k, a, i) ==
    /\ level = k /\ level' = k + 1 /\ at = a /\ at' = Target(a, i)
    /\ UNCHANGED <<free, call, pml4>>
    /\ ChangesOnly(a, i)
    /\ IsPresent(mem[a][i]) /\ ~ IsHuge(mem[a][i])
    /\ mem'[a][i].addr = mem[a][i].addr
    /\ mem'[a][i].flags = mem[a][i].flags \cup intermediate_flags

Mapped(k, a, i) ==
    /\ level = k /\ level' = 0 /\ at = a /\ UNCHANGED <<free, pml4>>
    /\ ChangesOnly(a, i)
    /\ ~ IsPresent(mem[a][i])
    /\ k = 3 => IsHuge(mem'[a][i])
    /\ "User" \in mem'[a][i].flags => "User" \in call.flags
    /\ mem'[a][i] = make_page_entry(phys, LeafFlags)

\* Storing an entry changes that entry and keeps the tables well typed.
LEMMA Store ==
    ASSUME NEW m \in [Frames -> [Index -> Entry]], NEW t \in Frames, NEW ix \in Index,
           NEW e \in Entry
    PROVE  /\ [m EXCEPT ![t][ix] = e] \in [Frames -> [Index -> Entry]]
           /\ [m EXCEPT ![t][ix] = e][t][ix] = e
           /\ \A u \in Frames, jx \in Index :
                 ~ (u = t /\ jx = ix) => [m EXCEPT ![t][ix] = e][u][jx] = m[u][jx]
OBVIOUS

\* The three outcomes of ensure_table: it fails, links a new table, or widens
\* the link to the one that is there.
EnsureFails == Return("fail") /\ UNCHANGED <<mem, free, pml4>>

EnsureNew ==
    /\ ~ IsPresent(entry)
    /\ mem' = [WithNewTable EXCEPT ![at][slot] =
                  make_page_entry(NewTable * kPageSize, intermediate_flags)]
    /\ free' = free \ {NewTable} /\ at' = NewTable
    /\ level' = level + 1 /\ UNCHANGED <<call, pml4>>

EnsureOld ==
    /\ ~ IsHuge(entry) /\ IsPresent(entry)
    /\ mem' = [mem EXCEPT ![at][slot].flags = @ \cup intermediate_flags]
    /\ at' = entry.addr \div kPageSize
    /\ level' = level + 1 /\ UNCHANGED <<free, call, pml4>>

\* The three outcomes of ensure_table.
LEMMA EnsureCases ==
    ASSUME ensure_table
    PROVE  /\ call.status = "running" /\ level \in 1 .. LeafLevel - 1
           /\ EnsureFails \/ EnsureNew \/ EnsureOld
BY DEF ensure_table, EnsureFails, EnsureNew, EnsureOld

\* What linking a new table does to memory.
LEMMA NewLinkEffect ==
    ASSUME TypeInv, Allocates, EnsureNew, call.status = "running",
           NEW k, level = k, NEW a \in Tables, at = a, NEW i \in Index, slot = i,
           NEW n \in free, n = NewTable
    PROVE  mem' \in [Frames -> [Index -> Entry]] /\ Linked(k, a, i, n)
<1> DEFINE m == [mem EXCEPT ![n] = ZeroTable]
           e == make_page_entry(n * kPageSize, intermediate_flags)
<1>1. n \in Frames /\ n \in Nat /\ a \in Frames /\ Tables \subseteq Frames /\ n \notin Tables
  BY VmmAssumption DEF TypeInv, TypeOK, Tables, Frames
<1>2. /\ m \in [Frames -> [Index -> Entry]]
      /\ \A t \in Tables : m[t] = mem[t]
      /\ \A ix \in Index : m[n][ix] = NoEntry
  BY <1>1, ZeroTableType DEF TypeInv, TypeOK, ZeroTable
<1>3. e \in Entry
  BY <1>1, FrameOfAddress, EntryType, Running
<1>4. e.addr = n * kPageSize /\ e.flags = intermediate_flags
  <2>1. e = [addr |-> n * kPageSize, flags |-> intermediate_flags]
    BY <1>1, EntryOfFrame, ZenonT(30)
  <2> QED BY <2>1
<1>5. e.addr \div kPageSize = n
  BY <1>1, <1>4, FrameOfAddress
<1>6. mem' = [m EXCEPT ![a][i] = e]
  BY DEF EnsureNew, WithNewTable
<1> HIDE DEF m, e
<1>7. /\ mem' \in [Frames -> [Index -> Entry]]
      /\ mem'[a][i] = e
      /\ \A u \in Frames, jx \in Index : ~ (u = a /\ jx = i) => mem'[u][jx] = m[u][jx]
  BY <1>1, <1>2, <1>3, <1>6, Store
<1>8. ChangesOnly(a, i)
  <2> SUFFICES ASSUME NEW t \in Tables, NEW ix \in Index, ~ (t = a /\ ix = i)
               PROVE  mem'[t][ix] = mem[t][ix]
    BY DEF ChangesOnly
  <2>1. t \in Frames /\ m[t] = mem[t]
    BY <1>1, <1>2
  <2> QED BY <1>7, <2>1
<1>9. \A ix \in Index : mem'[n][ix] = NoEntry
  BY <1>1, <1>2, <1>7
<1>10. /\ Target(a, i)' = n /\ mem'[a][i].flags = intermediate_flags
       /\ mem'[a][i].addr = n * kPageSize
  BY <1>4, <1>5, <1>7 DEF Target
<1> QED BY <1>7, <1>8, <1>9, <1>10 DEF Linked, EnsureNew, entry

\* What widening a link does to memory.
LEMMA WidenEffect ==
    ASSUME TypeInv, EnsureOld, call.status = "running",
           NEW k, level = k, NEW a \in Tables, at = a, NEW i \in Index, slot = i
    PROVE  mem' \in [Frames -> [Index -> Entry]] /\ Widened(k, a, i)
<1> DEFINE e == [mem[a][i] EXCEPT !.flags = @ \cup intermediate_flags]
<1>1. a \in Frames /\ Tables \subseteq Frames /\ mem \in [Frames -> [Index -> Entry]]
  BY VmmAssumption DEF TypeInv, TypeOK, Tables
<1>2. mem[a][i] \in Entry
  BY <1>1
<1>3. /\ e \in Entry /\ e.addr = mem[a][i].addr
      /\ e.flags = mem[a][i].flags \cup intermediate_flags
  BY <1>2, Running DEF Entry
<1>4. mem' = [mem EXCEPT ![a][i] = e]
  BY DEF EnsureOld
<1> HIDE DEF e
<1>5. /\ mem' \in [Frames -> [Index -> Entry]]
      /\ mem'[a][i] = e
      /\ \A u \in Frames, jx \in Index : ~ (u = a /\ jx = i) => mem'[u][jx] = mem[u][jx]
  BY <1>1, <1>3, <1>4, Store
<1>6. ChangesOnly(a, i)
  BY <1>1, <1>5 DEF ChangesOnly
<1> QED BY <1>3, <1>5, <1>6 DEF Widened, EnsureOld, entry, Target

\* What write_leaf does when it does not fail.
LeafWritten ==
    /\ ~ IsPresent(entry)
    /\ mem' = [mem EXCEPT ![at][slot] = make_page_entry(phys, LeafFlags)]
    /\ call' = [call EXCEPT !.done = call.done + call.page,
                   !.status = IF call.done + call.page < call.size THEN "running" ELSE "ok"]
    /\ level' = 0 /\ at' = NoTable
    /\ UNCHANGED <<free, pml4>>

\* The two outcomes of write_leaf.
LEMMA LeafCases ==
    ASSUME write_leaf
    PROVE  /\ call.status = "running" /\ level = LeafLevel
           /\ EnsureFails \/ LeafWritten
BY DEF write_leaf, EnsureFails, LeafWritten

\* What writing a leaf does to memory.
LEMMA LeafEffect ==
    ASSUME TypeInv, LeafWritten, call.status = "running",
           NEW k \in {3, 4}, level = k, k = LeafLevel,
           NEW a \in Tables, at = a, NEW i \in Index, slot = i
    PROVE  mem' \in [Frames -> [Index -> Entry]] /\ Mapped(k, a, i)
<1> DEFINE e == make_page_entry(phys, LeafFlags)
<1>1. a \in Frames /\ Tables \subseteq Frames /\ mem \in [Frames -> [Index -> Entry]]
  BY VmmAssumption DEF TypeInv, TypeOK, Tables
<1>2. e \in Entry /\ e.flags = LeafFlags
  <2>1. e \in Entry
    BY EntryType, Running
  <2> QED BY <2>1 DEF make_page_entry
<1>3. mem' = [mem EXCEPT ![a][i] = e]
  BY DEF LeafWritten
<1> HIDE DEF e
<1>4. /\ mem' \in [Frames -> [Index -> Entry]]
      /\ mem'[a][i] = e
      /\ \A u \in Frames, jx \in Index : ~ (u = a /\ jx = i) => mem'[u][jx] = mem[u][jx]
  BY <1>1, <1>2, <1>3, Store
<1>5. ChangesOnly(a, i)
  BY <1>1, <1>4 DEF ChangesOnly
<1>6. /\ k = 3 => IsHuge(mem'[a][i])
      /\ "User" \in mem'[a][i].flags => "User" \in call.flags
  BY <1>2, <1>4 DEF LeafFlags, LeafLevel, IsHuge
<1> QED BY <1>4, <1>5, <1>6 DEF Mapped, LeafWritten, entry, e

-----------------------------------------------------------------------------
(***************************************************************************)
(* What a step leaves in place                                             *)
(***************************************************************************)

\* A step leaves roots and present entries where they are, and changes of a
\* present entry at most the flags of a link.
Keeps(lv) ==
    /\ \A s \in Space : pml4[s] # NoTable => pml4'[s] = pml4[s]
    /\ \A t \in Tables, ix \in Index :
          IsPresent(mem[t][ix]) =>
              /\ IsPresent(mem'[t][ix])
              /\ IsHuge(mem'[t][ix]) <=> IsHuge(mem[t][ix])
              /\ mem'[t][ix].addr = mem[t][ix].addr
              /\ IsLink(lv, t, ix) \/ mem'[t][ix] = mem[t][ix]

\* A step that changes no table keeps everything.
LEMMA SameKeeps ==
    ASSUME UNCHANGED <<mem, pml4>>, NEW lv
    PROVE  Keeps(lv)
BY DEF Keeps

\* create_address_space zeroes a frame that was no table.
LEMMA CreateKeeps ==
    ASSUME TypeInv, Allocates, NEW s \in Space, create_address_space(s), NEW lv
    PROVE  Keeps(lv)
<1>1. CASE ~ TableAllocated
  BY <1>1, SameKeeps DEF create_address_space
<1>2. CASE TableAllocated
  <2>1. pml4[s] = NoTable /\ pml4' = [pml4 EXCEPT ![s] = NewTable]
    BY <1>2 DEF create_address_space
  <2>2. \A r \in Space : pml4[r] # NoTable => pml4'[r] = pml4[r]
    BY <2>1 DEF TypeInv, TypeOK
  <2>3. \A t \in Tables : mem'[t] = mem[t]
    <3>1. mem' = [mem EXCEPT ![NewTable] = ZeroTable]
      BY <1>2 DEF create_address_space, WithNewTable
    <3>2. NewTable \notin Tables /\ Tables \subseteq Frames
      BY NewTableFree, VmmAssumption DEF Tables
    <3> QED BY <3>1, <3>2 DEF TypeInv, TypeOK
  <2> QED BY <2>2, <2>3 DEF Keeps
<1> QED BY <1>1, <1>2

\* ensure_table changes an absent entry, or the flags of a link.
LEMMA EnsureKeeps ==
    ASSUME TypeInv, Allocates, ensure_table, NEW lv \in [Frames -> 0 .. 4], Shape(lv)
    PROVE  Keeps(lv)
<1>1. /\ call.status = "running" /\ level \in 1 .. LeafLevel - 1 /\ LeafLevel \in {3, 4}
      /\ EnsureFails \/ EnsureNew \/ EnsureOld
  BY EnsureCases, Running
<1>2. PICK a \in Tables : at = a
  BY <1>1, AtEntry
<1>3. PICK i \in Index : slot = i
  BY <1>1, AtEntry
<1>4. CASE EnsureFails
  BY <1>4, SameKeeps DEF EnsureFails
<1>5. CASE EnsureNew
  <2>1. PICK n \in free : n = NewTable
    BY NewTableFree
  <2>2. PICK k : Linked(k, a, i, n)
    BY <1>1, <1>2, <1>3, <1>5, <2>1, NewLinkEffect
  <2> QED BY <2>2 DEF Keeps, Linked, ChangesOnly
<1>6. CASE EnsureOld
  <2>1. PICK k : Widened(k, a, i)
    BY <1>1, <1>2, <1>3, <1>6, WidenEffect
  <2>2. /\ IsPresent(mem[a][i]) /\ ~ IsHuge(mem[a][i]) /\ pml4' = pml4
        /\ ChangesOnly(a, i) /\ mem'[a][i].addr = mem[a][i].addr
    BY <2>1 DEF Widened
  <2>3. IsPresent(mem'[a][i]) /\ ~ IsHuge(mem'[a][i])
    BY <2>1, <2>2 DEF Widened, IsPresent, IsHuge, intermediate_flags
  <2>4. lv[a] < 4
    BY <1>1, <1>2 DEF Shape, LevelsOK
  <2>5. IsLink(lv, a, i)
    BY <2>2, <2>4 DEF IsLink
  <2> QED BY <2>2, <2>3, <2>5 DEF Keeps, ChangesOnly
<1> QED BY <1>1, <1>4, <1>5, <1>6

\* write_leaf writes only an entry that was not present.
LEMMA LeafKeeps ==
    ASSUME TypeInv, write_leaf, NEW lv
    PROVE  Keeps(lv)
<1>1. /\ call.status = "running" /\ level # 0 /\ level = LeafLevel
      /\ EnsureFails \/ LeafWritten
  BY LeafCases, Running
<1>2. PICK a \in Tables : at = a
  BY <1>1, AtEntry
<1>3. PICK i \in Index : slot = i
  BY <1>1, AtEntry
<1>4. CASE EnsureFails
  BY <1>4, SameKeeps DEF EnsureFails
<1>5. CASE LeafWritten
  <2>1. PICK k \in {3, 4} : level = k /\ k = LeafLevel
    BY <1>1, Running
  <2>2. Mapped(k, a, i)
    BY <1>1, <1>2, <1>3, <1>5, <2>1, LeafEffect
  <2> QED BY <2>2 DEF Keeps, Mapped, ChangesOnly
<1> QED BY <1>1, <1>4, <1>5

\* Every step keeps what is mapped, one case for each action.
LEMMA StepKeeps ==
    ASSUME TypeInv, Allocates, Next, NEW lv \in [Frames -> 0 .. 4], Shape(lv)
    PROVE  Keeps(lv)
<1>1. CASE MapStep
  <2>1. CASE enter_page
    BY <2>1, SameKeeps DEF enter_page
  <2>2. CASE ensure_table
    BY <2>2, EnsureKeeps
  <2>3. CASE write_leaf
    BY <2>3, LeafKeeps
  <2> QED BY <1>1, <2>1, <2>2, <2>3 DEF MapStep
<1>2. ASSUME NEW s \in Space, create_address_space(s) PROVE Keeps(lv)
  BY <1>2, CreateKeeps
<1>3. ASSUME NEW s \in Space, NEW page, NEW a, CallPage(s, page, a) \/ CallRange(s, page, a)
      PROVE  Keeps(lv)
  BY <1>3, SameKeeps DEF CallPage, CallRange
<1> QED BY <1>1, <1>2, <1>3 DEF Next

-----------------------------------------------------------------------------
(***************************************************************************)
(* What a page walk finds                                                  *)
(***************************************************************************)

\* The tables of a path have the levels of their places in it, and the entries
\* above the last one are links.
PathOK(lv, address, n, t) ==
    /\ \A k \in 1 .. n : /\ t[k] \in Tables /\ lv[t[k]] = k
                         /\ IndexAt(k, address) \in Index
                         /\ IsPresent(mem[t[k]][IndexAt(k, address)])
    /\ \A k \in 1 .. n - 1 : /\ IsLink(lv, t[k], IndexAt(k, address))
                             /\ t[k + 1] = Target(t[k], IndexAt(k, address))

\* In tables of that shape, a path goes down one level with each entry.
LEMMA PathLevels ==
    ASSUME TypeInv, NEW lv \in [Frames -> 0 .. 4], Shape(lv), NEW s \in Space, pml4[s] # NoTable,
           NEW address \in Nat, NEW n \in 2 .. 4, NEW t, IsPath(mem, pml4[s], address, n, t)
    PROVE  PathOK(lv, address, n, t)
<1> DEFINE i(k) == IndexAt(k, address)
<1>1. \A k \in 1 .. 4 : i(k) \in Index
  BY IndexInTable
<1>2. \A k \in 1 .. n : IsPresent(mem[t[k]][i(k)])
  BY DEF IsPath
<1>3. \A k \in 1 .. n - 1 : t[k + 1] = Target(t[k], i(k))
  BY DEF IsPath, Target
<1>4. ASSUME NEW k \in 1 .. n - 1, t[k] \in Tables, lv[t[k]] = k
      PROVE  IsLink(lv, t[k], i(k)) /\ t[k + 1] \in Tables /\ lv[t[k + 1]] = k + 1
  <2>1. ~ IsHuge(mem[t[k]][i(k)])
    <3>1. CASE k = 1
      <4>1. k \in 1 .. 4 /\ lv[t[k]] < 3
        BY <1>4, <3>1
      <4> QED BY <1>1, <1>4, <4>1, ZenonT(30) DEF Shape, LinksOK
    <3>2. CASE k > 1
      BY <3>2 DEF IsPath
    <3> QED BY <3>1, <3>2
  <2>2. IsLink(lv, t[k], i(k))
    BY <1>2, <1>4, <2>1 DEF IsLink
  <2> QED BY <1>1, <1>3, <1>4, <2>2 DEF Shape, LinksOK
<1>5. t[1] \in Tables /\ lv[t[1]] = 1
  BY DEF IsPath, Shape, LevelsOK, TypeInv, TypeOK, Tables
<1>6. t[2] \in Tables /\ lv[t[2]] = 2 /\ IsLink(lv, t[1], i(1))
  BY <1>4, <1>5
<1>7. n > 2 => t[3] \in Tables /\ lv[t[3]] = 3 /\ IsLink(lv, t[2], i(2))
  BY <1>4, <1>6
<1>8. n > 3 => t[4] \in Tables /\ lv[t[4]] = 4 /\ IsLink(lv, t[3], i(3))
  BY <1>4, <1>7
<1> HIDE DEF i
<1>9. \A k \in 1 .. n : t[k] \in Tables /\ lv[t[k]] = k
  BY <1>5, <1>6, <1>7, <1>8
<1>10. \A k \in 1 .. n - 1 : IsLink(lv, t[k], i(k))
  BY <1>6, <1>7, <1>8
<1> QED BY <1>1, <1>2, <1>3, <1>9, <1>10 DEF i, PathOK

\* Along a path, the links grant whatever the last entry grants.
LEMMA PathRights ==
    ASSUME TypeInv, NEW lv \in [Frames -> 0 .. 4], Shape(lv), NEW s \in Space, pml4[s] # NoTable,
           NEW address \in Nat, NEW n \in 2 .. 4, NEW t, IsPath(mem, pml4[s], address, n, t)
    PROVE  Rights(PathOf(mem, address, n, t)) = RightsOf(mem[t[n]][IndexAt(n, address)].flags)
<1>0. PathOK(lv, address, n, t)
  BY PathLevels
<1> DEFINE fl(k) == mem[t[k]][IndexAt(k, address)].flags
           path == PathOf(mem, address, n, t)
<1>1. DOMAIN path = 1 .. n /\ \A k \in 1 .. n : path[k].flags = fl(k)
  BY DEF PathOf
<1>2. \A k \in 1 .. n - 1 : "Writable" \in fl(k) /\ "NoExecute" \notin fl(k)
  <2> SUFFICES ASSUME NEW k \in 1 .. n - 1
               PROVE  "Writable" \in fl(k) /\ "NoExecute" \notin fl(k)
    OBVIOUS
  <2>1. k \in 1 .. n
    OBVIOUS
  <2> QED BY <1>0, <2>1, ZenonT(30) DEF PathOK, Shape, LinksOK
<1>3. \A k \in 1 .. n - 1 : "User" \in fl(k + 1) => "User" \in fl(k)
  <2> SUFFICES ASSUME NEW k \in 1 .. n - 1, "User" \in fl(k + 1)
               PROVE  "User" \in fl(k)
    OBVIOUS
  <2>1. k + 1 \in 1 .. n /\ k \in 1 .. n
    OBVIOUS
  <2>2. /\ t[k] \in Tables /\ IndexAt(k, address) \in Index /\ IndexAt(k + 1, address) \in Index
        /\ IsLink(lv, t[k], IndexAt(k, address)) /\ t[k + 1] = Target(t[k], IndexAt(k, address))
        /\ IsPresent(mem[t[k + 1]][IndexAt(k + 1, address)])
    BY <1>0, <2>1 DEF PathOK
  <2>3. GrantsUser(t[k + 1], IndexAt(k + 1, address))
    BY <2>2 DEF GrantsUser
  <2> QED BY <2>2, <2>3, ZenonT(30) DEF Shape, UserOK
<1> HIDE DEF fl, path
<1>4. "User" \in fl(n) => \A k \in 1 .. n : "User" \in fl(k)
  <2> SUFFICES ASSUME "User" \in fl(n) PROVE \A k \in 1 .. n : "User" \in fl(k)
    OBVIOUS
  <2>1. n = 4 => "User" \in fl(3)
    BY <1>3
  <2>2. n >= 3 => "User" \in fl(2)
    BY <1>3, <2>1
  <2>3. "User" \in fl(1)
    BY <1>3, <2>2
  <2> QED BY <2>1, <2>2, <2>3
<1>5. /\ (\A k \in 1 .. n : "Writable" \in fl(k)) <=> "Writable" \in fl(n)
      /\ (\A k \in 1 .. n : "User" \in fl(k)) <=> "User" \in fl(n)
      /\ (\A k \in 1 .. n : "NoExecute" \notin fl(k)) <=> "NoExecute" \notin fl(n)
  BY <1>2, <1>4
<1>6. /\ (\A k \in DOMAIN path : "Writable" \in path[k].flags) <=> "Writable" \in fl(n)
      /\ (\A k \in DOMAIN path : "User" \in path[k].flags) <=> "User" \in fl(n)
      /\ (\A k \in DOMAIN path : "NoExecute" \notin path[k].flags) <=> "NoExecute" \notin fl(n)
  BY <1>1, <1>5
<1>7. Rights(path) = [write |-> "Writable" \in fl(n), user |-> "User" \in fl(n),
                      exec |-> "NoExecute" \notin fl(n)]
  <2> DEFINE w == \A k \in DOMAIN path : "Writable" \in path[k].flags
             u == \A k \in DOMAIN path : "User" \in path[k].flags
             x == \A k \in DOMAIN path : "NoExecute" \notin path[k].flags
  <2>1. Rights(path) = [write |-> w, user |-> u, exec |-> x]
    BY DEF Rights
  <2>2. w \in BOOLEAN /\ u \in BOOLEAN /\ x \in BOOLEAN
    OBVIOUS
  <2>3. (w <=> "Writable" \in fl(n)) /\ (u <=> "User" \in fl(n)) /\ (x <=> "NoExecute" \notin fl(n))
    BY <1>6
  <2> HIDE DEF w, u, x
  <2> QED BY <2>1, <2>2, <2>3, SameRights
<1>8. Rights(path) = RightsOf(fl(n))
  BY <1>7, RightsOfFlags
<1> QED BY <1>8 DEF fl, path

\* A walk of a space that reaches a leaf is a path from its root.
LEMMA WalksArePaths ==
    ASSUME NEW s \in Space, NEW w \in Walks(s)
    PROVE  /\ pml4[s] # NoTable /\ w.page \in Page
           /\ w = [page |-> w.page, path |-> Walk(mem, pml4[s], w.page * kPageSize)]
           /\ \E n \in 2 .. 4 : \E t : IsPath(mem, pml4[s], w.page * kPageSize, n, t)
<1>1. PICK page \in IF pml4[s] = NoTable THEN {} ELSE Page :
          w = [page |-> page, path |-> WalkOf(s, page)] /\ IsPresent(LeafOf(w.path))
  BY DEF Walks
<1>2. pml4[s] # NoTable /\ page \in Page /\ w.page = page
      /\ w.path = Walk(mem, pml4[s], page * kPageSize)
  BY <1>1 DEF WalkOf
<1>3. IsPresent(LeafOf(Walk(mem, pml4[s], page * kPageSize)))
  BY <1>1, <1>2
<1>4. \E n \in 2 .. 4 : \E t : IsPath(mem, pml4[s], page * kPageSize, n, t)
  BY <1>3, WalkIsPath
<1> QED BY <1>1, <1>2, <1>4 DEF WalkOf

\* The last entry of a walk decides its rights, by the invariant.
LEMMA IInvLeafDecides == IInv => LeafDecides
<1> SUFFICES ASSUME IInv, NEW s \in Space, NEW w \in Walks(s)
             PROVE  Rights(w.path) = RightsOf(LeafOf(w.path).flags)
  BY DEF LeafDecides
<1>1. PICK lv \in [Frames -> 0 .. 4] : Shape(lv)
  BY DEF IInv
<1> DEFINE address == w.page * kPageSize
<1>2. /\ pml4[s] # NoTable /\ address \in Nat /\ w.path = Walk(mem, pml4[s], address)
      /\ \E n \in 2 .. 4 : \E t : IsPath(mem, pml4[s], address, n, t)
  BY WalksArePaths, PageAddress
<1> HIDE DEF address
<1>3. PICK n \in 2 .. 4 : \E t : IsPath(mem, pml4[s], address, n, t)
  BY <1>2
<1>3t. PICK t : IsPath(mem, pml4[s], address, n, t)
  BY <1>3
<1>4. /\ w.path = PathOf(mem, address, n, t)
      /\ LeafOf(w.path) = mem[t[n]][IndexAt(n, address)]
  BY <1>2, <1>3t, WalkFollows DEF EndsAt
<1>5. Rights(PathOf(mem, address, n, t)) = RightsOf(mem[t[n]][IndexAt(n, address)].flags)
  BY <1>1, <1>2, <1>3t, PathRights DEF IInv
<1> QED BY <1>4, <1>5

\* So a path stays a path, with the same last entry: that one is no link.
LEMMA PathKept ==
    ASSUME TypeInv, NEW lv \in [Frames -> 0 .. 4], Shape(lv), Keeps(lv),
           NEW s \in Space, pml4[s] # NoTable, NEW address \in Nat,
           NEW n \in 2 .. 4, NEW t, IsPath(mem, pml4[s], address, n, t)
    PROVE  /\ IsPath(mem', pml4'[s], address, n, t)
           /\ mem'[t[n]][IndexAt(n, address)] = mem[t[n]][IndexAt(n, address)]
<1> DEFINE i(k) == IndexAt(k, address)
<1>1. PathOK(lv, address, n, t)
  BY PathLevels
<1>2. \A k \in 1 .. n : /\ t[k] \in Tables /\ lv[t[k]] = k
                        /\ i(k) \in Index /\ IsPresent(mem[t[k]][i(k)])
  BY <1>1 DEF PathOK
<1>3. \A k \in 1 .. n : /\ IsPresent(mem'[t[k]][i(k)])
                        /\ IsHuge(mem'[t[k]][i(k)]) <=> IsHuge(mem[t[k]][i(k)])
                        /\ mem'[t[k]][i(k)].addr = mem[t[k]][i(k)].addr
                        /\ IsLink(lv, t[k], i(k)) \/ mem'[t[k]][i(k)] = mem[t[k]][i(k)]
  BY <1>2, ZenonT(30) DEF Keeps
<1>4. n \in 1 .. n /\ ~ IsLink(lv, t[n], i(n))
  BY <1>2 DEF IsPath, IsLink
<1>5. mem'[t[n]][i(n)] = mem[t[n]][i(n)]
  BY <1>3, <1>4, ZenonT(30)
<1>6. pml4'[s] = pml4[s]
  BY ZenonT(30) DEF Keeps
<1>7. \A k \in 1 .. n - 1 : k \in 1 .. n
  OBVIOUS
<1>8. ASSUME NEW k \in 1 .. n - 1
      PROVE  /\ IsPresent(mem'[t[k]][i(k)])
             /\ k > 1 => ~ IsHuge(mem'[t[k]][i(k)])
             /\ t[k + 1] = mem'[t[k]][i(k)].addr \div kPageSize
  <2>1. /\ k > 1 => ~ IsHuge(mem[t[k]][i(k)])
        /\ t[k + 1] = mem[t[k]][i(k)].addr \div kPageSize
    BY DEF IsPath
  <2> QED BY <1>3, <1>7, <2>1, ZenonT(30)
<1>9. IsPresent(mem'[t[n]][i(n)]) /\ (n < 4 => IsHuge(mem'[t[n]][i(n)])) /\ t[1] = pml4'[s]
  BY <1>5, <1>6 DEF IsPath
<1> QED BY <1>5, <1>8, <1>9, ZenonT(30) DEF IsPath

\* With rights that follow from the last entry, a page keeps its translation.
LEMMA TranslationsGrow ==
    ASSUME TypeInv, NEW lv \in [Frames -> 0 .. 4], Shape(lv), Keeps(lv),
           LeafDecides, LeafDecides', NEW s \in Space
    PROVE  Translations(s) \subseteq Translations(s)'
<1> SUFFICES ASSUME NEW x \in Translations(s) PROVE x \in Translations(s)'
  OBVIOUS
<1>1. PICK w \in Walks(s) :
        x = [page |-> w.page,
             frame |-> (LeafOf(w.path).addr + ((w.page * kPageSize) % Span[Len(w.path)])) \div kPageSize,
             rights |-> Rights(w.path)]
  BY DEF Translations
<1>2. PICK address \in Nat : address = w.page * kPageSize
  BY WalksArePaths, PageAddress
<1>3. /\ pml4[s] # NoTable /\ w.page \in Page /\ w.path = Walk(mem, pml4[s], address)
      /\ \E n \in 2 .. 4 : \E t : IsPath(mem, pml4[s], address, n, t)
  BY <1>2, WalksArePaths
<1>4n. PICK n \in 2 .. 4 : \E t : IsPath(mem, pml4[s], address, n, t)
  BY <1>3
<1>4. PICK t : IsPath(mem, pml4[s], address, n, t)
  BY <1>4n
<1>5. /\ IsPath(mem', pml4'[s], address, n, t)
      /\ mem'[t[n]][IndexAt(n, address)] = mem[t[n]][IndexAt(n, address)]
  BY <1>3, <1>4, PathKept, ZenonT(30)
<1>6. Len(w.path) = n /\ LeafOf(w.path) = mem[t[n]][IndexAt(n, address)]
  <2>1. /\ Len(Walk(mem, pml4[s], address)) = n
        /\ LeafOf(Walk(mem, pml4[s], address)) = mem[t[n]][IndexAt(n, address)]
    <3>1. EndsAt(mem, pml4[s], address, n, t)
      BY <1>4, WalkEnds
    <3> QED BY <3>1 DEF EndsAt
  <2> QED BY <1>3, <2>1, ZenonT(30)
<1> DEFINE path == Walk(mem', pml4'[s], address)
           v == [page |-> w.page, path |-> path]
<1>7. Len(path) = n /\ LeafOf(path) = mem[t[n]][IndexAt(n, address)]
  <2>1. PICK m, root : m = mem' /\ root = pml4'[s]
    OBVIOUS
  <2>2. IsPath(m, root, address, n, t)
    BY <1>5, <2>1
  <2>3. EndsAt(m, root, address, n, t)
    BY <2>2, WalkEnds
  <2> QED BY <1>5, <2>1, <2>3 DEF EndsAt
<1>8. IsPresent(LeafOf(path))
  BY <1>4, <1>7 DEF IsPath
<1>9. pml4'[s] # NoTable /\ path = WalkOf(s, w.page)'
  BY <1>2, <1>3, ZenonT(30) DEF Keeps, WalkOf
<1> HIDE DEF path
<1>10. v \in Walks(s)'
  BY <1>3, <1>8, <1>9, ZenonT(30) DEF Walks
<1>11. Rights(w.path) = RightsOf(LeafOf(w.path).flags) /\ Rights(path) = RightsOf(LeafOf(path).flags)
  <2>1. Rights(v.path) = RightsOf(LeafOf(v.path).flags)
    BY <1>10, SMTT(30) DEF LeafDecides
  <2> QED BY <2>1 DEF LeafDecides
<1>12. x = [page |-> v.page,
            frame |-> (LeafOf(v.path).addr + ((v.page * kPageSize) % Span[Len(v.path)])) \div kPageSize,
            rights |-> Rights(v.path)]
  BY <1>1, <1>6, <1>7, <1>11, ZenonT(30)
<1> HIDE DEF v
<1> QED BY <1>10, <1>12, ZenonT(30) DEF Translations

\* Links with the same target are the same.
LEMMA SameLink ==
    ASSUME NEW lv, Shape(lv), NEW t \in Tables, NEW u \in Tables, NEW ix \in Index,
           NEW jx \in Index, IsLink(lv, t, ix), IsLink(lv, u, jx), Target(t, ix) = Target(u, jx)
    PROVE  t = u /\ ix = jx
BY DEF Shape, OneLink

\* The translations of a space are those of its paths.
PathsTranslate ==
    \A s \in Space : \A x :
        x \in Translations(s) <=>
            /\ pml4[s] # NoTable
            /\ \E page \in Page, n \in 2 .. 4 : \E t : Translates(mem, pml4[s], page, n, t, x)

\* It follows from the rights being those of the last entry.
LEMMA IInvPathsTranslate == IInv => PathsTranslate
<1> SUFFICES ASSUME IInv, NEW s \in Space, NEW x
             PROVE  x \in Translations(s) <=>
                      /\ pml4[s] # NoTable
                      /\ \E page \in Page, n \in 2 .. 4 : \E t : Translates(mem, pml4[s], page, n, t, x)
  BY ZenonT(30) DEF PathsTranslate
<1>0. LeafDecides
  BY IInvLeafDecides
<1>1. ASSUME x \in Translations(s)
      PROVE  /\ pml4[s] # NoTable
             /\ \E page \in Page, n \in 2 .. 4 : \E t : Translates(mem, pml4[s], page, n, t, x)
  <2>1. PICK w \in Walks(s) :
          x = [page |-> w.page,
               frame |-> (LeafOf(w.path).addr + ((w.page * kPageSize) % Span[Len(w.path)])) \div kPageSize,
               rights |-> Rights(w.path)]
    BY <1>1 DEF Translations
  <2>2. PICK page \in Page : page = w.page
    BY WalksArePaths
  <2>3. /\ pml4[s] # NoTable /\ w.path = Walk(mem, pml4[s], page * kPageSize)
        /\ \E n \in 2 .. 4 : \E t : IsPath(mem, pml4[s], page * kPageSize, n, t)
    BY <2>2, WalksArePaths
  <2>4. PICK n \in 2 .. 4 : \E t : IsPath(mem, pml4[s], page * kPageSize, n, t)
    BY <2>3
  <2>5. PICK t : IsPath(mem, pml4[s], page * kPageSize, n, t)
    BY <2>4
  <2>6. EndsAt(mem, pml4[s], page * kPageSize, n, t)
    BY <2>5, WalkEnds
  <2>7. Len(w.path) = n /\ LeafOf(w.path) = mem[t[n]][IndexAt(n, page * kPageSize)]
    BY <2>3, <2>6 DEF EndsAt
  <2>8. Rights(w.path) = RightsOf(LeafOf(w.path).flags)
    BY <1>0 DEF LeafDecides
  <2>9. x = TransOf(page, n, mem[t[n]][IndexAt(n, page * kPageSize)])
    BY <2>1, <2>2, <2>7, <2>8 DEF TransOf
  <2> QED BY <2>3, <2>5, <2>9 DEF Translates
<1>2. ASSUME pml4[s] # NoTable, NEW page \in Page, NEW n \in 2 .. 4, NEW t,
             Translates(mem, pml4[s], page, n, t, x)
      PROVE  x \in Translations(s)
  <2>1. /\ IsPath(mem, pml4[s], page * kPageSize, n, t)
        /\ x = TransOf(page, n, mem[t[n]][IndexAt(n, page * kPageSize)])
    BY <1>2 DEF Translates
  <2>2. EndsAt(mem, pml4[s], page * kPageSize, n, t)
    BY <2>1, WalkEnds
  <2> DEFINE path == Walk(mem, pml4[s], page * kPageSize)
             w == [page |-> page, path |-> path]
  <2>3. Len(path) = n /\ LeafOf(path) = mem[t[n]][IndexAt(n, page * kPageSize)]
    BY <2>2 DEF EndsAt
  <2>4. IsPresent(LeafOf(path))
    BY <2>1, <2>3 DEF IsPath
  <2>5. path = WalkOf(s, page)
    BY DEF WalkOf
  <2> HIDE DEF path
  <2>6. w \in Walks(s) /\ w.page = page /\ w.path = path
    BY <1>2, <2>4, <2>5, ZenonT(30) DEF Walks
  <2> HIDE DEF w
  <2>7. Rights(w.path) = RightsOf(LeafOf(w.path).flags)
    BY <1>0, <2>6 DEF LeafDecides
  <2>8. x = [page |-> w.page,
             frame |-> (LeafOf(w.path).addr + ((w.page * kPageSize) % Span[Len(w.path)])) \div kPageSize,
             rights |-> Rights(w.path)]
    BY <2>1, <2>3, <2>6, <2>7, ZenonT(30) DEF TransOf
  <2> QED BY <2>6, <2>8, ZenonT(30) DEF Translations
<1> QED BY <1>1, <1>2

-----------------------------------------------------------------------------
(***************************************************************************)
(* translate                                                               *)
(***************************************************************************)

\* translate ends where the path for the address does, and returns 0 if there is none.
LEMMA TranslateFollows ==
    ASSUME NEW s \in Space, pml4[s] # NoTable, NEW a \in Nat, NEW b \in Nat, is_canonical(b),
           \A k \in 1 .. 4 : IndexAt(k, b) = IndexAt(k, a)
    PROVE  \/ /\ translate(s, b) = 0
              /\ \A n \in 2 .. 4 : \A u : ~ IsPath(mem, pml4[s], a, n, u)
           \/ \E n \in 2 .. 4 : \E u :
                 /\ IsPath(mem, pml4[s], a, n, u)
                 /\ translate(s, b) = mem[u[n]][IndexAt(n, a)].addr + (b % Span[n])
<1>1. PICK root : root = pml4[s]
  OBVIOUS
<1>2. PICK e1 : e1 = mem[root][IndexAt(1, a)]
  OBVIOUS
<1>3. PICK e2 : e2 = mem[e1.addr \div kPageSize][IndexAt(2, a)]
  OBVIOUS
<1>4. PICK e3 : e3 = mem[e2.addr \div kPageSize][IndexAt(3, a)]
  OBVIOUS
<1>5. PICK e4 : e4 = mem[e3.addr \div kPageSize][IndexAt(4, a)]
  OBVIOUS
<1>6. translate(s, b) =
         IF ~ IsPresent(e1) THEN 0
         ELSE IF ~ IsPresent(e2) THEN 0
         ELSE IF IsHuge(e2) THEN e2.addr + (b % Span[2])
         ELSE IF ~ IsPresent(e3) THEN 0
         ELSE IF IsHuge(e3) THEN e3.addr + (b % Span[3])
         ELSE IF ~ IsPresent(e4) THEN 0
         ELSE e4.addr + (b % Span[4])
  <2>1. 1 \in 1 .. 4 /\ 2 \in 1 .. 4 /\ 3 \in 1 .. 4 /\ 4 \in 1 .. 4
    OBVIOUS
  <2>2. /\ IndexAt(1, b) = IndexAt(1, a) /\ IndexAt(2, b) = IndexAt(2, a)
        /\ IndexAt(3, b) = IndexAt(3, a) /\ IndexAt(4, b) = IndexAt(4, a)
    BY <2>1, Zenon
  <2> QED BY <1>1, <1>2, <1>3, <1>4, <1>5, <2>2, Zenon DEF translate, PageOffset
<1>7. PICK t : /\ t[1] = root /\ t[2] = e1.addr \div kPageSize
               /\ t[3] = e2.addr \div kPageSize /\ t[4] = e3.addr \div kPageSize
               /\ mem[t[1]][IndexAt(1, a)] = e1 /\ mem[t[2]][IndexAt(2, a)] = e2
               /\ mem[t[3]][IndexAt(3, a)] = e3 /\ mem[t[4]][IndexAt(4, a)] = e4
  <2>1. PICK t : t = <<root, e1.addr \div kPageSize, e2.addr \div kPageSize,
                       e3.addr \div kPageSize>>
    BY Zenon
  <2>2. /\ t[1] = root /\ t[2] = e1.addr \div kPageSize
        /\ t[3] = e2.addr \div kPageSize /\ t[4] = e3.addr \div kPageSize
    BY <2>1
  <2> QED BY <1>2, <1>3, <1>4, <1>5, <2>2, Zenon
<1>8. CASE IsPresent(e1) /\ IsPresent(e2) /\ IsHuge(e2)
  <2>1. IsPath(mem, root, a, 2, t)
    BY <1>7, <1>8 DEF IsPath
  <2>2. translate(s, b) = mem[t[2]][IndexAt(2, a)].addr + (b % Span[2])
    BY <1>6, <1>7, <1>8
  <2>3. 2 \in 2 .. 4
    OBVIOUS
  <2> QED BY <1>1, <2>1, <2>2, <2>3, ZenonT(30)
<1>9. CASE IsPresent(e1) /\ IsPresent(e2) /\ ~ IsHuge(e2) /\ IsPresent(e3) /\ IsHuge(e3)
  <2>1. IsPath(mem, root, a, 3, t)
    BY <1>7, <1>9 DEF IsPath
  <2>2. translate(s, b) = mem[t[3]][IndexAt(3, a)].addr + (b % Span[3])
    BY <1>6, <1>7, <1>9
  <2>3. 3 \in 2 .. 4
    OBVIOUS
  <2> QED BY <1>1, <2>1, <2>2, <2>3, ZenonT(30)
<1>10. CASE /\ IsPresent(e1) /\ IsPresent(e2) /\ ~ IsHuge(e2) /\ IsPresent(e3) /\ ~ IsHuge(e3)
            /\ IsPresent(e4)
  <2>1. IsPath(mem, root, a, 4, t)
    BY <1>7, <1>10 DEF IsPath
  <2>2. translate(s, b) = mem[t[4]][IndexAt(4, a)].addr + (b % Span[4])
    BY <1>6, <1>7, <1>10, SMTT(30)
  <2>3. 4 \in 2 .. 4
    OBVIOUS
  <2> QED BY <1>1, <2>1, <2>2, <2>3, ZenonT(30)
<1>11. ASSUME NEW n \in 2 .. 4, NEW u, IsPath(mem, root, a, n, u)
       PROVE  /\ IsPresent(e1) /\ IsPresent(e2)
              /\ n = 2 => IsHuge(e2)
              /\ n > 2 => ~ IsHuge(e2) /\ IsPresent(e3)
              /\ n = 3 => IsHuge(e3)
              /\ n > 3 => ~ IsHuge(e3) /\ IsPresent(e4)
  BY <1>2, <1>3, <1>4, <1>5, <1>11, PathFollows, Zenon
<1>12. CASE \/ ~ IsPresent(e1) \/ ~ IsPresent(e2)
            \/ ~ IsHuge(e2) /\ ~ IsPresent(e3)
            \/ ~ IsHuge(e2) /\ ~ IsHuge(e3) /\ ~ IsPresent(e4)
  <2>1. ASSUME NEW n \in 2 .. 4, NEW u, IsPath(mem, root, a, n, u) PROVE FALSE
    BY <1>11, <1>12, <2>1
  <2>2. translate(s, b) = 0
    BY <1>6, <1>8, <1>12
  <2> QED BY <1>1, <2>1, <2>2, ZenonT(30)
<1> QED BY <1>8, <1>9, <1>10, <1>12, ZenonT(30)

\* The frames of a page in a space: what its paths lead to.
FramesOf(s, page) == {t.frame : t \in {u \in Translations(s) : u.page = page}}

\* An address of a page that no path is for is not mapped.
LEMMA NoPathNoFrame ==
    ASSUME PathsTranslate, NEW s \in Space, NEW page \in Nat,
           pml4[s] # NoTable /\ page \in Page =>
               \A n \in 2 .. 4 : \A u : ~ IsPath(mem, pml4[s], page * kPageSize, n, u)
    PROVE  FramesOf(s, page) = {}
<1> SUFFICES ASSUME NEW x \in Translations(s), x.page = page PROVE FALSE
  BY DEF FramesOf
<1>1. PICK p \in Page, n \in 2 .. 4 : \E t : Translates(mem, pml4[s], p, n, t, x)
  BY DEF PathsTranslate
<1>2. PICK t : Translates(mem, pml4[s], p, n, t, x)
  BY <1>1
<1>3. IsPath(mem, pml4[s], p * kPageSize, n, t) /\ x.page = p /\ pml4[s] # NoTable
  BY <1>2, ZenonT(30) DEF Translates, TransOf, PathsTranslate
<1> QED BY <1>3

\* The byte of an address in the frame of its page, by the page number.
LEMMA ByteTranslates ==
    ASSUME WInv, NEW s \in Space, NEW page \in Nat, NEW byte \in 0 .. kPageSize - 1
    PROVE  translate(s, page * kPageSize + byte) \in
               IF FramesOf(s, page) = {} THEN {0}
               ELSE {f * kPageSize + byte : f \in FramesOf(s, page)}
<1>1. PICK lv \in [Frames -> 0 .. 4] : Shape(lv)
  BY DEF WInv, TInv, IInv
<1>2. TypeInv /\ Aligned /\ PathsTranslate
  BY IInvPathsTranslate DEF WInv, TInv, IInv
<1>3. PICK P \in Nat \ {0} : P = kPageSize
  BY Spans
<1>4. PICK a \in Nat : a = page * kPageSize
  BY <1>3
<1>5. PICK b \in Nat : b = page * kPageSize + byte
  BY <1>3, <1>4
<1>6. b \div Span[4] = a \div Span[4]
  <2>1. (page * P + byte) \div P = page /\ (page * P + 0) \div P = page
    <3>1. byte \in Nat /\ byte < P
      BY <1>3
    <3>2. (page * P + byte) \div P = page
      BY <3>1, DivUnique
    <3>3. (page * P + 0) \div P = page
      BY DivUnique
    <3> QED BY <3>2, <3>3
  <2>2. Span[4] = P
    BY <1>3, Spans
  <2> QED BY <1>3, <1>4, <1>5, <2>1, <2>2
<1>7. b \div LowSize = a \div LowSize /\ \A k \in 1 .. 4 : IndexAt(k, b) = IndexAt(k, a)
  BY <1>6, SameBlock
<1>8. is_canonical(b) <=> is_canonical(a)
  BY <1>7, Canonical
<1>9. CASE pml4[s] = NoTable \/ ~ is_canonical(b)
  <2>1. translate(s, b) = 0
    BY <1>9, ZenonT(30) DEF translate
  <2>2. ~ (pml4[s] # NoTable /\ page \in Page)
    BY <1>4, <1>8, <1>9 DEF Page
  <2>3. FramesOf(s, page) = {}
    BY <1>2, <2>2, NoPathNoFrame
  <2> QED BY <1>5, <2>1, <2>3
<1>10. CASE pml4[s] # NoTable /\ is_canonical(b)
  <2>0. page \in Page
    BY <1>4, <1>8, <1>10, PageCount
  <2>1. \/ /\ translate(s, b) = 0
           /\ \A n \in 2 .. 4 : \A u : ~ IsPath(mem, pml4[s], a, n, u)
        \/ \E n \in 2 .. 4 : \E u :
              /\ IsPath(mem, pml4[s], a, n, u)
              /\ translate(s, b) = mem[u[n]][IndexAt(n, a)].addr + (b % Span[n])
    BY <1>7, <1>10, TranslateFollows, ZenonT(30)
  <2>2. CASE /\ translate(s, b) = 0
             /\ \A n \in 2 .. 4 : \A u : ~ IsPath(mem, pml4[s], a, n, u)
    <3>1. FramesOf(s, page) = {}
      BY <1>2, <1>4, <2>2, NoPathNoFrame
    <3> QED BY <1>5, <2>2, <3>1
  <2>3. ASSUME NEW n \in 2 .. 4, NEW u, IsPath(mem, pml4[s], a, n, u),
               translate(s, b) = mem[u[n]][IndexAt(n, a)].addr + (b % Span[n])
        PROVE  \E f \in FramesOf(s, page) : translate(s, b) = f * kPageSize + byte
    <3>1. PathOK(lv, a, n, u)
      BY <1>1, <1>2, <1>10, <2>3, PathLevels
    <3>2. u[n] \in Tables /\ IndexAt(n, a) \in Index
      <4>1. n \in 1 .. n
        OBVIOUS
      <4> QED BY <3>1, <4>1, Zenon DEF PathOK
    <3>3. PICK e \in Entry : e = mem[u[n]][IndexAt(n, a)]
      BY <1>2, <3>2, VmmAssumption DEF TypeInv, TypeOK, Tables
    <3>4. e.addr \in Nat /\ e.addr % kPageSize = 0
      BY <1>2, <3>2, <3>3 DEF Aligned, Entry
    <3>5. PICK x : x = TransOf(page, n, e)
      OBVIOUS
    <3>6. x \in Translations(s)
      <4>1. Translates(mem, pml4[s], page, n, u, x)
        BY <1>4, <2>3, <3>3, <3>5 DEF Translates
      <4> QED BY <1>2, <1>10, <2>0, <4>1 DEF PathsTranslate
    <3>7. x.page = page /\ x.frame = (e.addr + ((page * kPageSize) % Span[n])) \div kPageSize
      BY <3>5 DEF TransOf
    <3>8. x.frame \in FramesOf(s, page)
      BY <3>6, <3>7 DEF FramesOf
    <3>9. e.addr + (b % Span[n]) = x.frame * kPageSize + byte
      BY <1>5, <3>4, <3>7, ByteOfFrame
    <3> QED BY <2>3, <3>3, <3>8, <3>9
  <2>4. CASE \E f \in FramesOf(s, page) : translate(s, b) = f * kPageSize + byte
    BY <1>5, <2>4
  <2> QED BY <2>1, <2>2, <2>3, <2>4
<1> QED BY <1>9, <1>10

=============================================================================
