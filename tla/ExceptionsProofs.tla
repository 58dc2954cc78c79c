--------------------------- MODULE ExceptionsProofs ---------------------------
(***************************************************************************)
(* Proofs about exceptions, for every error code, fault address and depth  *)
(* of exceptions inside the handler.                                       *)
(*                                                                         *)
(* The frame isr_handler reads is built by four parties: the CPU, the stub *)
(* of the vector, isr_common, and the layout of InterruptFrame.  They      *)
(* agree word by word; the rest is that a report in progress stays true    *)
(* while others begin above it.                                            *)
(***************************************************************************)
EXTENDS Exceptions, TLAPS

-----------------------------------------------------------------------------
(***************************************************************************)
(* From a vector to its stub                                               *)
(***************************************************************************)

\* The two selectors gdt::init loads name a 64-bit code segment and a writable data
\* segment of ring 0.
LEMMA Selectors == CodeOK(kKernelCodeSelector) /\ DataOK(kKernelDataSelector)
<1>1. /\ Descriptor(8) = kernel_code /\ Descriptor(16) = kernel_data
      /\ Within(8) /\ Within(16)
  BY DEF Descriptor, Within, gdt
<1>2. kernel_code[6] = 154 /\ kernel_code[7] = 175 /\ kernel_data[6] = 146
  BY DEF kernel_code, kernel_data, make_descriptor
<1>3. Bit(154, 7) = 1 /\ Bit(154, 6) = 0 /\ Bit(154, 5) = 0 /\ Bit(154, 4) = 1 /\ Bit(154, 3) = 1
  BY DEF Bit
<1>4. Bit(175, 5) = 1 /\ Bit(175, 6) = 0
  BY DEF Bit
<1>5. Bit(146, 7) = 1 /\ Bit(146, 6) = 0 /\ Bit(146, 5) = 0 /\ Bit(146, 4) = 1 /\ Bit(146, 3) = 0 /\ Bit(146, 1) = 1
  BY DEF Bit
<1> QED BY <1>1, <1>2, <1>3, <1>4, <1>5
    DEF CodeOK, DataOK, IsCode64, IsData, Ring0, kKernelCodeSelector, kKernelDataSelector

\* What the concatenation of p and q holds where.
Concat(S, p, q) ==
    /\ p \o q \in Seq(S) /\ Len(p \o q) = Len(p) + Len(q)
    /\ \A k \in 1 .. Len(p) : (p \o q)[k] = p[k]
    /\ \A k \in 1 .. Len(q) : (p \o q)[Len(p) + k] = q[k]

\* Concat holds of every two sequences: what one push leaves below another.
LEMMA Concatenation ==
    ASSUME NEW S, NEW p \in Seq(S), NEW q \in Seq(S)
    PROVE  Concat(S, p, q)
BY DEF Concat

\* The four words of an address, put together from a gate.
LEMMA FourWords ==
    ASSUME NEW a, NEW b, NEW c, NEW d
    PROVE  <<a, b>> \o <<c, d>> = <<a, b, c, d>>
<1> DEFINE S == {a, b, c, d}  p == <<a, b>>  q == <<c, d>>  t == <<a, b, c, d>>
<1>1. p \in Seq(S) /\ q \in Seq(S) /\ t \in Seq(S)
  OBVIOUS
<1>2. /\ Len(p) = 2 /\ Len(q) = 2 /\ p[1] = a /\ p[2] = b /\ q[1] = c /\ q[2] = d
      /\ Len(t) = 4 /\ t[1] = a /\ t[2] = b /\ t[3] = c /\ t[4] = d
  OBVIOUS
<1> HIDE DEF S, p, q, t
<1>3. Concat(S, p, q)
  BY <1>1, Concatenation, Zenon
<1>4. (p \o q)[1] = a /\ (p \o q)[2] = b /\ (p \o q)[3] = c /\ (p \o q)[4] = d
  BY <1>2, <1>3 DEF Concat
<1>5. p \o q = t
  BY <1>1, <1>2, <1>3, <1>4 DEF Concat
<1> QED BY <1>5 DEF p, q, t

\* Through its gate the CPU comes to the stub of each vector.
LEMMA StubFound ==
    ASSUME NEW v \in 0 .. 31
    PROVE  StubAt(GateOffset(idt[v])) = v /\ GateOffset(idt[v]) \in Range(isr_stub_table)
<1>1. idt[v] = make_entry(isr_stub_table[v], kKernelCodeSelector, 0, 142)
  BY DEF idt
<1>2. isr_stub_table[v] = <<4096 + 16 * v, 32768, 65535, 65535>>
  BY DEF isr_stub_table
<1>3. GateOffset(idt[v]) = isr_stub_table[v]
  <2>1. /\ idt[v].offset_low = 4096 + 16 * v /\ idt[v].offset_mid = 32768
        /\ idt[v].offset_high = <<65535, 65535>>
    BY <1>1, <1>2 DEF make_entry
  <2>2. <<4096 + 16 * v, 32768>> \o <<65535, 65535>> = <<4096 + 16 * v, 32768, 65535, 65535>>
    BY FourWords
  <2> QED BY <1>2, <2>1, <2>2 DEF GateOffset
<1>4. \A w \in 0 .. 31 : isr_stub_table[w] = isr_stub_table[v] => w = v
  BY DEF isr_stub_table
<1> QED BY <1>3, <1>4 DEF StubAt, Range, isr_stub_table

-----------------------------------------------------------------------------
(***************************************************************************)
(* From the pushes of an exception to InterruptFrame                       *)
(***************************************************************************)

\* The offset of each field of InterruptFrame.
LEMMA FrameField ==
    ASSUME NEW words, NEW k \in 1 .. 22
    PROVE  Frame(words)[InterruptFrame[k]] = words[k]
<1>1. DOMAIN InterruptFrame = 1 .. 22
  BY DEF InterruptFrame
<1>2. \A i, j \in 1 .. 22 : InterruptFrame[i] = InterruptFrame[j] => i = j
  BY DEF InterruptFrame
<1>3. InterruptFrame[k] \in Range(InterruptFrame)
  BY <1>1 DEF Range
<1>4. (CHOOSE i \in DOMAIN InterruptFrame : InterruptFrame[i] = InterruptFrame[k]) = k
  BY <1>1, <1>2
<1> QED BY <1>3, <1>4 DEF Frame

\* isr_common pushes the registers so that they lie in the order of the structure.
LEMMA RegisterOrder == \A k \in 1 .. 15 : InterruptFrame[k] = GPR[16 - k]
<1> TAKE k \in 1 .. 15
<1> QED BY k = 1 \/ k = 2 \/ k = 3 \/ k = 4 \/ k = 5 \/ k = 6 \/ k = 7 \/ k = 8 \/ k = 9 \/ k = 10
           \/ k = 11 \/ k = 12 \/ k = 13 \/ k = 14 \/ k = 15
    DEF InterruptFrame, GPR

\* The words isr_common pushes, and the registers a frame saves.
Pushed(depth) == {Register(GPR[k], depth) : k \in 1 .. 15}
Saved == Range(GPR) \cup {"rip", "rflags", "rsp"}

\* Where the words of four sequences are once they are pushed on each other.
Parts(W, a, b, c) ==
    /\ \A k \in 1 .. Len(a) : W[k] = a[k]
    /\ \A k \in 1 .. Len(b) : W[Len(a) + k] = b[k]
    /\ \A k \in 1 .. Len(c) : W[Len(a) + Len(b) + k] = c[k]

\* Parts describes what the pushes of an exception leave on the stack.
LEMMA FourParts ==
    ASSUME NEW S, NEW a \in Seq(S), NEW b \in Seq(S), NEW c \in Seq(S), NEW z \in Seq(S)
    PROVE  Parts(a \o b \o c \o z, a, b, c)
<1> DEFINE W == a \o b \o c \o z  g == a \o b  h == g \o c
<1>1. Concat(S, a, b)
  BY Concatenation, Zenon
<1>2. g \in Seq(S)
  BY <1>1 DEF Concat
<1> HIDE DEF g
<1>3. Concat(S, g, c)
  BY <1>2, Concatenation, Zenon
<1>4. h \in Seq(S)
  BY <1>3 DEF Concat
<1> HIDE DEF h
<1>5. Concat(S, h, z)
  BY <1>4, Concatenation, Zenon
<1>6. W = h \o z
  BY DEF g, h
<1> HIDE DEF W
<1>7. Len(a) \in Nat /\ Len(b) \in Nat /\ Len(c) \in Nat
  OBVIOUS
<1>8. Len(g) = Len(a) + Len(b) /\ Len(h) = Len(a) + Len(b) + Len(c)
  BY <1>1, <1>3 DEF Concat, g, h
<1>9. \A k \in 1 .. Len(h) : W[k] = h[k]
  BY <1>5, <1>6 DEF Concat
<1>10. \A k \in 1 .. Len(g) : h[k] = g[k]
  BY <1>3 DEF Concat, h
<1>11. \A k \in 1 .. Len(c) : h[Len(g) + k] = c[k]
  BY <1>3 DEF Concat, h
<1>12. \A k \in 1 .. Len(a) : g[k] = a[k]
  BY <1>1 DEF Concat, g
<1>13. \A k \in 1 .. Len(b) : g[Len(a) + k] = b[k]
  BY <1>1 DEF Concat, g
<1>14. \A k \in 1 .. Len(a) : W[k] = a[k]
  BY <1>7, <1>8, <1>9, <1>10, <1>12
<1>15. \A k \in 1 .. Len(b) : W[Len(a) + k] = b[k]
  <2> TAKE k \in 1 .. Len(b)
  <2>1. Len(a) + k \in 1 .. Len(g) /\ Len(a) + k \in 1 .. Len(h)
    BY <1>7, <1>8
  <2> QED BY <2>1, <1>9, <1>10, <1>13
<1>16. \A k \in 1 .. Len(c) : W[Len(a) + Len(b) + k] = c[k]
  BY <1>7, <1>8, <1>9, <1>11
<1>17. Parts(W, a, b, c)
  BY <1>14, <1>15, <1>16 DEF Parts
<1> QED BY <1>17 DEF W

\* What a stub and isr_common leave on the stack of an exception, word by word.
Words(v, code, depth) == isr_common(depth) \o isr_stub(v) \o cpu_push(v, code, depth) \o Below

\* The words are in the order of InterruptFrame, whether the CPU pushes an error code
\* or the stub does.
LEMMA Stack ==
    ASSUME NEW v \in 0 .. 31, NEW code, NEW d \in Nat
    PROVE  LET W == Words(v, code, d) IN
           /\ \A k \in 1 .. 15 : W[k] = Register(GPR[16 - k], d)
           /\ W[16] = <<"vector", v>>
           /\ W[17] = <<"code", IF v \in CpuPushesCode THEN code ELSE 0>>
           /\ W[18] = Register("rip", d) /\ W[19] = <<"selector", cs>>
           /\ W[20] = Register("rflags", d) /\ W[21] = Register("rsp", d)
           /\ W[22] = <<"selector", ss>>
<1> DEFINE W == Words(v, code, d)
           S == Pushed(d) \cup {<<"vector", v>>, <<"code", 0>>, <<"code", code>>,
                  Register("rip", d), <<"selector", cs>>, Register("rflags", d),
                  Register("rsp", d), <<"selector", ss>>, <<"caller", 0>>}
           a == isr_common(d)  b == isr_stub(v)
           e == IF v \in CpuPushesCode THEN << <<"code", code>> >> ELSE <<>>
           f == << Register("rip", d), <<"selector", cs>>, Register("rflags", d),
                   Register("rsp", d), <<"selector", ss>> >>
           c == e \o f
<1>1. a \in Seq(S) /\ Len(a) = 15 /\ \A k \in 1 .. 15 : a[k] = Register(GPR[16 - k], d)
  <2>1. \A k \in 1 .. 15 : Register(GPR[16 - k], d) \in S
    <3> TAKE k \in 1 .. 15
    <3>1. 16 - k \in 1 .. 15
      OBVIOUS
    <3> QED BY <3>1 DEF Pushed
  <2> HIDE DEF S
  <2> QED BY <2>1 DEF isr_common
<1>2. Below \in Seq(S)
  BY DEF Below
<1>3. f \in Seq(S) /\ Len(f) = 5
      /\ f[1] = Register("rip", d) /\ f[2] = <<"selector", cs>> /\ f[3] = Register("rflags", d)
      /\ f[4] = Register("rsp", d) /\ f[5] = <<"selector", ss>>
  OBVIOUS
<1>4. W = a \o b \o c \o Below
  BY DEF cpu_push, Words
<1> HIDE DEF W
<1>5. ISR_ERROR = CpuPushesCode
  BY DEF ISR_ERROR, CpuPushesCode
<1>6. <<"vector", v>> \in S /\ <<"code", 0>> \in S /\ <<"code", code>> \in S
  OBVIOUS
<1>7. CASE v \in CpuPushesCode
  <2> HIDE DEF S, a, f
  <2>1. b = << <<"vector", v>> >> /\ e = << <<"code", code>> >>
    BY <1>5, <1>7 DEF isr_stub
  <2> HIDE DEF b, e
  <2>2. b \in Seq(S) /\ Len(b) = 1 /\ b[1] = <<"vector", v>>
    BY <2>1, <1>6
  <2>3. e \in Seq(S) /\ Len(e) = 1 /\ e[1] = <<"code", code>>
    BY <2>1, <1>6
  <2>4. Concat(S, e, f)
    BY <2>3, <1>3, Concatenation, Zenon
  <2>5. c \in Seq(S) /\ Len(c) = 6 /\ c[1] = e[1] /\ \A k \in 1 .. 5 : c[1 + k] = f[k]
    BY <2>3, <2>4, <1>3 DEF Concat
  <2> HIDE DEF c
  <2>6. Parts(W, a, b, c)
    BY <2>2, <2>5, <1>1, <1>2, <1>4, FourParts, Zenon
  <2>7. (\A k \in 1 .. 15 : W[k] = a[k]) /\ W[16] = b[1]
    BY <2>2, <2>6, <1>1 DEF Parts
  <2>8. \A k \in 1 .. 6 : W[16 + k] = c[k]
    <3>1. \A k \in 1 .. Len(c) : W[Len(a) + Len(b) + k] = c[k]
      BY <2>6 DEF Parts
    <3>2. Len(a) + Len(b) = 16 /\ Len(c) = 6
      BY <2>2, <2>5, <1>1
    <3> QED BY <3>1, <3>2
  <2>9. /\ W[17] = c[1] /\ W[18] = c[2] /\ W[19] = c[3] /\ W[20] = c[4] /\ W[21] = c[5]
        /\ W[22] = c[6]
    BY <2>8
  <2>10. c[2] = f[1] /\ c[3] = f[2] /\ c[4] = f[3] /\ c[5] = f[4] /\ c[6] = f[5]
    BY <2>5
  <2> QED BY <2>2, <2>3, <2>5, <2>7, <2>9, <2>10, <1>1, <1>3, <1>7 DEF W
<1>8. CASE v \notin CpuPushesCode
  <2> HIDE DEF S, a, f
  <2>1. b = << <<"vector", v>>, <<"code", 0>> >> /\ e = <<>>
    BY <1>5, <1>8 DEF isr_stub
  <2> HIDE DEF b, e
  <2>2. b \in Seq(S) /\ Len(b) = 2 /\ b[1] = <<"vector", v>> /\ b[2] = <<"code", 0>>
    BY <2>1, <1>6
  <2>3. e \in Seq(S) /\ Len(e) = 0
    BY <2>1
  <2>4. Concat(S, e, f)
    BY <2>3, <1>3, Concatenation, Zenon
  <2>5. c \in Seq(S) /\ Len(c) = 5 /\ \A k \in 1 .. 5 : c[k] = f[k]
    <3>1. c \in Seq(S) /\ Len(c) = Len(e) + Len(f) /\ \A k \in 1 .. Len(f) : c[Len(e) + k] = f[k]
      BY <2>4 DEF Concat
    <3> HIDE DEF c
    <3>2. Len(c) = 5
      BY <3>1, <2>3, <1>3
    <3>3. \A k \in 1 .. 5 : c[k] = f[k]
      <4> TAKE k \in 1 .. 5
      <4>1. c[Len(e) + k] = f[k] /\ Len(e) + k = k
        BY <3>1, <2>3, <1>3
      <4> QED BY <4>1
    <3> QED BY <3>1, <3>2, <3>3
  <2> HIDE DEF c
  <2>6. Parts(W, a, b, c)
    BY <2>2, <2>5, <1>1, <1>2, <1>4, FourParts, Zenon
  <2>7. (\A k \in 1 .. 15 : W[k] = a[k]) /\ W[16] = b[1] /\ W[17] = b[2]
    BY <2>2, <2>6, <1>1 DEF Parts
  <2>8. \A k \in 1 .. 5 : W[17 + k] = c[k]
    <3>1. \A k \in 1 .. Len(c) : W[Len(a) + Len(b) + k] = c[k]
      BY <2>6 DEF Parts
    <3>2. Len(a) + Len(b) = 17 /\ Len(c) = 5
      BY <2>2, <2>5, <1>1
    <3> QED BY <3>1, <3>2
  <2>9. W[18] = c[1] /\ W[19] = c[2] /\ W[20] = c[3] /\ W[21] = c[4] /\ W[22] = c[5]
    BY <2>8
  <2>10. c[1] = f[1] /\ c[2] = f[2] /\ c[3] = f[3] /\ c[4] = f[4] /\ c[5] = f[5]
    BY <2>5
  <2> QED BY <2>2, <2>7, <2>9, <2>10, <1>1, <1>3, <1>8 DEF W
<1> QED BY <1>7, <1>8

\* The names of the fields of InterruptFrame.
LEMMA FieldNames ==
    Range(InterruptFrame) = Saved \cup {"vector", "error_code", "cs", "ss"}
<1>1. DOMAIN InterruptFrame = 1 .. 22 /\ DOMAIN GPR = 1 .. 15
  BY DEF InterruptFrame, GPR
<1>2. ASSUME NEW k \in 1 .. 22
      PROVE  InterruptFrame[k] \in Saved \cup {"vector", "error_code", "cs", "ss"}
  <2>1. CASE k \in 1 .. 15
    <3>1. 16 - k \in 1 .. 15 /\ InterruptFrame[k] = GPR[16 - k]
      BY <2>1, RegisterOrder
    <3> QED BY <3>1, <1>1 DEF Saved, Range
  <2>2. CASE k \in 16 .. 22
    BY <2>2 DEF InterruptFrame, Saved
  <2> QED BY <2>1, <2>2
<1>3. ASSUME NEW k \in 1 .. 15
      PROVE  GPR[k] \in Range(InterruptFrame)
  <2>1. 16 - k \in 1 .. 22 /\ InterruptFrame[16 - k] = GPR[16 - (16 - k)] /\ 16 - (16 - k) = k
    BY RegisterOrder
  <2> QED BY <2>1, <1>1 DEF Range
<1>4. {"rip", "rflags", "rsp", "vector", "error_code", "cs", "ss"} \subseteq Range(InterruptFrame)
  <2>1. /\ InterruptFrame[16] = "vector" /\ InterruptFrame[17] = "error_code"
        /\ InterruptFrame[18] = "rip" /\ InterruptFrame[19] = "cs" /\ InterruptFrame[20] = "rflags"
        /\ InterruptFrame[21] = "rsp" /\ InterruptFrame[22] = "ss"
    BY DEF InterruptFrame
  <2> QED BY <2>1, <1>1 DEF Range
<1> QED BY <1>1, <1>2, <1>3, <1>4 DEF Saved, Range

\* What isr_handler finds in each field, for every exception.
LEMMA FrameHolds ==
    ASSUME NEW v \in 0 .. 31, NEW code, NEW d \in Nat
    PROVE  LET F == Frame(Words(v, code, d)) IN
           /\ F["vector"] = <<"vector", v>>
           /\ F["error_code"] = <<"code", IF v \in CpuPushesCode THEN code ELSE 0>>
           /\ F["cs"] = <<"selector", cs>> /\ F["ss"] = <<"selector", ss>>
           /\ \A r \in Saved : F[r] = Register(r, d)
<1> DEFINE W == Words(v, code, d)  F == Frame(W)
<1>1. /\ \A k \in 1 .. 15 : W[k] = Register(GPR[16 - k], d)
      /\ W[16] = <<"vector", v>>
      /\ W[17] = <<"code", IF v \in CpuPushesCode THEN code ELSE 0>>
      /\ W[18] = Register("rip", d) /\ W[19] = <<"selector", cs>>
      /\ W[20] = Register("rflags", d) /\ W[21] = Register("rsp", d)
      /\ W[22] = <<"selector", ss>>
  BY Stack
<1> HIDE DEF W
<1>2. \A k \in 1 .. 22 : F[InterruptFrame[k]] = W[k]
  BY FrameField
<1> HIDE DEF F
<1>3. /\ InterruptFrame[16] = "vector" /\ InterruptFrame[17] = "error_code"
      /\ InterruptFrame[18] = "rip" /\ InterruptFrame[19] = "cs" /\ InterruptFrame[20] = "rflags"
      /\ InterruptFrame[21] = "rsp" /\ InterruptFrame[22] = "ss"
  BY DEF InterruptFrame
<1>4. F["vector"] = W[16] /\ F["error_code"] = W[17] /\ F["rip"] = W[18] /\ F["cs"] = W[19]
      /\ F["rflags"] = W[20] /\ F["rsp"] = W[21] /\ F["ss"] = W[22]
  BY <1>2, <1>3
<1>5. \A r \in Range(GPR) : F[r] = Register(r, d)
  <2>1. DOMAIN GPR = 1 .. 15
    BY DEF GPR
  <2> SUFFICES ASSUME NEW k \in 1 .. 15 PROVE F[GPR[k]] = Register(GPR[k], d)
    BY <2>1 DEF Range
  <2>2. /\ 16 - k \in 1 .. 15 /\ 16 - k \in 1 .. 22 /\ InterruptFrame[16 - k] = GPR[16 - (16 - k)]
        /\ 16 - (16 - k) = k
    BY RegisterOrder
  <2>3. F[InterruptFrame[16 - k]] = W[16 - k] /\ W[16 - k] = Register(GPR[16 - (16 - k)], d)
    BY <2>2, <1>1, <1>2
  <2> QED BY <2>2, <2>3
<1> QED BY <1>1, <1>4, <1>5 DEF Saved, F, W

-----------------------------------------------------------------------------
(***************************************************************************)
(* The inductive invariant.                                                *)
(***************************************************************************)

PageFault(r) == r.frame["vector"] = <<"vector", 14>>

\* What the dump of r says in its parts, with a in the place of CR2.
Bits(r) == IF PageFault(r) THEN Decoded(r.frame["error_code"][2]) ELSE {}
Says(r, a) ==
    {<<f, r.frame[f]>> : f \in Range(InterruptFrame)}
    \cup {<<"name", r.frame["vector"]>>, <<"cr2", <<"address", a>>>>} \cup Bits(r)

\* The parts printed before line l have been shown.
Shown(r) ==
    /\ r.line > 2 => <<"vector", r.frame["vector"]>> \in r.shown
    /\ r.line > 3 => <<"name", r.frame["vector"]>> \in r.shown
    /\ r.line > 4 => <<"error_code", r.frame["error_code"]>> \in r.shown
    /\ r.line > 5 => Bits(r) \subseteq r.shown
    /\ r.line > 6 => <<"cr2", <<"address", r.cr2>>>> \in r.shown
    /\ r.line > 7 => \A f \in Range(InterruptFrame) \ {"vector", "error_code"} :
                         <<f, r.frame[f]>> \in r.shown

\* Until isr_handler has read CR2 for a page fault it is the register itself that has
\* to hold the address, and only the innermost report can still read it.
Faithful(r) ==
    /\ DOMAIN r = {"frame", "line", "cr2", "shown", "up", "truth"}
    /\ r.line \in 1 .. Halted
    /\ ~(PageFault(r) /\ r.line <= 5) => r.truth = Says(r, r.cr2)
    /\ r.shown \subseteq r.truth
    /\ r.up = Up
    /\ r.up => Shown(r)

Innermost(r) == PageFault(r) /\ r.line <= 5 => r.truth = Says(r, cr2)

\* The tables are installed in order, and every report is faithful so far.
ReportInv ==
    /\ pc # "gdt::init" => gdtr = "kernel"
    /\ idtr = "kernel" => gdtr = "kernel"
    /\ state # "triple fault"
    /\ reports \in Seq(Range(reports))
    /\ \A k \in DOMAIN reports : Faithful(reports[k])
    /\ reports # <<>> => idtr = "kernel" /\ (state = "alive" => Innermost(Current))

\* A frame says what the CPU held when its exception came, for every vector.
LEMMA FrameTells ==
    ASSUME NEW v \in 0 .. 31, NEW code, NEW address, Depth \in Nat,
           NEW r, r.frame = Frame(Words(v, code, Depth))
    PROVE  /\ PageFault(r) <=> v = 14
           /\ Truth(v, code, address) = Says(r, IF v = 14 THEN address ELSE 0)
<1> DEFINE F == Frame(Words(v, code, Depth))
           x == IF v \in CpuPushesCode THEN code ELSE 0
<1>1. /\ F["vector"] = <<"vector", v>> /\ F["error_code"] = <<"code", x>>
      /\ F["cs"] = <<"selector", cs>> /\ F["ss"] = <<"selector", ss>>
      /\ \A q \in Saved : F[q] = Register(q, Depth)
  BY FrameHolds
<1>2. r.frame = F
  OBVIOUS
<1> HIDE DEF F
<1>3. PageFault(r) <=> v = 14
  BY <1>1, <1>2 DEF PageFault
<1>4. Bits(r) = IF v = 14 THEN Decoded(code) ELSE {}
  BY <1>1, <1>2, <1>3 DEF Bits, CpuPushesCode
<1>5. {<<f, r.frame[f]>> : f \in Range(InterruptFrame)}
      = {<<q, Register(q, Depth)>> : q \in Saved}
        \cup {<<"vector", <<"vector", v>>>>, <<"error_code", <<"code", x>>>>,
              <<"cs", <<"selector", cs>>>>, <<"ss", <<"selector", ss>>>>}
  <2> DEFINE V == {<<"vector", <<"vector", v>>>>, <<"error_code", <<"code", x>>>>,
              <<"cs", <<"selector", cs>>>>, <<"ss", <<"selector", ss>>>>}
  <2>1. {<<f, F[f]>> : f \in Saved \cup {"vector", "error_code", "cs", "ss"}}
        = {<<q, F[q]>> : q \in Saved}
          \cup {<<"vector", F["vector"]>>, <<"error_code", F["error_code"]>>,
                <<"cs", F["cs"]>>, <<"ss", F["ss"]>>}
    BY Zenon
  <2>2. {<<q, F[q]>> : q \in Saved} = {<<q, Register(q, Depth)>> : q \in Saved}
    BY <1>1
  <2> QED BY <2>1, <2>2, <1>1, <1>2, FieldNames
<1> QED BY <1>1, <1>2, <1>3, <1>4, <1>5 DEF Truth, Says, Saved

\* An exception goes through its gate once the kernel's tables are in place.
LEMMA GatesWork ==
    ASSUME NEW v \in 0 .. 31, gdtr = "kernel"
    PROVE  GateOK(idt[v])
<1>1. idt[v] = make_entry(isr_stub_table[v], kKernelCodeSelector, 0, 142)
  BY DEF idt
<1>2. idt[v].type_attr = 142 /\ idt[v].selector = kKernelCodeSelector
  BY <1>1 DEF make_entry
<1> QED BY <1>2, StubFound, Selectors DEF GateOK

\* A sequence is one of its own elements.
LEMMA OwnElements ==
    ASSUME NEW S, NEW q \in Seq(S)
    PROVE  q \in Seq(Range(q)) /\ DOMAIN q = 1 .. Len(q) /\ Len(q) \in Nat
BY DEF Range

\* p is q with x added at its end.
Extended(p, q, x) ==
    /\ p \in Seq(Range(p)) /\ p # <<>>
    /\ DOMAIN p = 1 .. Len(q) + 1 /\ Len(p) = Len(q) + 1
    /\ p[Len(q) + 1] = x
    /\ \A k \in 1 .. Len(q) : p[k] = q[k]

\* What one more report changes in the sequence of reports.
LEMMA Appended ==
    ASSUME NEW S, NEW q \in Seq(S), NEW x
    PROVE  Extended(Append(q, x), q, x)
<1> DEFINE T == S \cup {x}
<1>1. q \in Seq(T)
  OBVIOUS
<1>2. x \in T
  OBVIOUS
<1> HIDE DEF T
<1>3. Append(q, x) \in Seq(T)
  BY <1>1, <1>2
<1>4. Append(q, x) \in Seq(Range(Append(q, x)))
  BY <1>3, OwnElements, Zenon
<1>5. /\ Len(Append(q, x)) = Len(q) + 1
      /\ Append(q, x)[Len(q) + 1] = x
      /\ \A k \in 1 .. Len(q) : Append(q, x)[k] = q[k]
  BY <1>1, <1>2
<1>6. DOMAIN Append(q, x) = 1 .. Len(q) + 1
  BY <1>3, <1>5
<1>7. Append(q, x) # <<>>
  BY <1>5, <1>1
<1> QED BY <1>4, <1>5, <1>6, <1>7 DEF Extended

\* p is q with x in the place n.
Changed(p, q, n, x) ==
    /\ p \in Seq(Range(p)) /\ DOMAIN p = 1 .. Len(q) /\ Len(p) = Len(q)
    /\ p[n] = x
    /\ \A k \in 1 .. Len(q) : k # n => p[k] = q[k]

\* What a step of isr_handler changes in the sequence of reports.
LEMMA Replaced ==
    ASSUME NEW S, NEW q \in Seq(S), NEW n \in 1 .. Len(q), NEW x
    PROVE  Changed([q EXCEPT ![n] = x], q, n, x)
<1> DEFINE T == S \cup {x}  p == [q EXCEPT ![n] = x]
<1>1. q \in Seq(T) /\ x \in T
  OBVIOUS
<1> HIDE DEF T
<1>2. p \in Seq(T) /\ Len(p) = Len(q)
  BY <1>1
<1>3. p[n] = x /\ \A k \in 1 .. Len(q) : k # n => p[k] = q[k]
  BY <1>1
<1> HIDE DEF p
<1>4. p \in Seq(Range(p)) /\ DOMAIN p = 1 .. Len(p)
  BY <1>2, OwnElements, Zenon
<1>5. Changed(p, q, n, x)
  BY <1>2, <1>3, <1>4 DEF Changed
<1> QED BY <1>5 DEF p

-----------------------------------------------------------------------------
\* The invariant holds when kmain starts.
LEMMA InitReports == Init => ReportInv
<1> SUFFICES ASSUME Init PROVE ReportInv
  OBVIOUS
<1>1. reports = <<>>
  BY DEF Init
<1>2. reports \in Seq(Range(reports)) /\ DOMAIN reports = {}
  BY <1>1
<1> QED BY <1>1, <1>2 DEF Init, ReportInv

\* The calls of kmain install the tables in order and run only while nothing is
\* reported.
LEMMA BootKeeps == ReportInv /\ Boot => ReportInv'
<1> SUFFICES ASSUME ReportInv, Boot PROVE ReportInv'
  OBVIOUS
<1>1. reports = <<>> /\ reports' = <<>>
  BY DEF Boot, gdt_init, idt_init, serial_init, set_sink, InKmain
<1>2. reports' \in Seq(Range(reports')) /\ DOMAIN reports' = {}
  BY <1>1
<1>3. (pc' # "gdt::init" => gdtr' = "kernel") /\ (idtr' = "kernel" => gdtr' = "kernel")
  BY DEF ReportInv, Boot, gdt_init, idt_init, serial_init, set_sink, InKmain
<1>4. state' # "triple fault"
  BY Selectors DEF ReportInv, Boot, gdt_init, idt_init, serial_init, set_sink, InKmain
<1> QED BY <1>1, <1>2, <1>3, <1>4 DEF ReportInv

\* Faithful reads of the state only whether the port and the sink are up.
LEMMA StaysFaithful ==
    ASSUME NEW r, Faithful(r), Up' = Up
    PROVE  Faithful(r)'
BY DEF Faithful, Says, Bits, PageFault, Shown, Decoded, Halted

\* An exception adds a report that is faithful, and leaves the others alone.
LEMMA RaiseKeeps ==
    ASSUME ReportInv, NEW v \in 0 .. 31, NEW code \in ErrorCodes, NEW address \in Addresses,
           raise(v, code, address)
    PROVE  ReportInv'
<1>1. /\ reports \in Seq(Range(reports)) /\ DOMAIN reports = 1 .. Len(reports)
      /\ Depth \in Nat /\ Depth = Len(reports)
  BY OwnElements DEF ReportInv, Depth
<1>2. Up' = Up /\ pc' = pc /\ gdtr' = gdtr /\ idtr' = idtr
  BY DEF raise, Up
<1>3. idtr = "kernel" => GateOK(idt[v])
  BY GatesWork DEF ReportInv
<1>4. CASE idtr = "kernel" /\ Depth < StackDepth
  <2>1. GateOK(idt[v])
    BY <1>4, <1>3
  <2>12. PICK r : r = [frame |-> Frame(isr_common(Depth) \o isr_stub(StubAt(GateOffset(idt[v])))
                                        \o cpu_push(v, code, Depth) \o Below),
                        line |-> 1, cr2 |-> 0, shown |-> {}, up |-> Up,
                        truth |-> Truth(v, code, address)]
    OBVIOUS
  <2>2. reports' = Append(reports, r) /\ state' = state
    BY <1>4, <2>1, <2>12 DEF raise
  <2>3. cr2' = IF v = 14 THEN address ELSE cr2
    BY DEF raise
  <2>4. r.frame = Frame(Words(v, code, Depth))
    BY <2>12, StubFound DEF Words
  <2>5. /\ DOMAIN r = {"frame", "line", "cr2", "shown", "up", "truth"} /\ r.line = 1 /\ r.cr2 = 0
        /\ r.shown = {} /\ r.up = Up /\ r.truth = Truth(v, code, address)
    BY <2>12
  <2>6. /\ PageFault(r) <=> v = 14
        /\ r.truth = Says(r, IF v = 14 THEN address ELSE 0)
    <3>1. /\ PageFault(r) <=> v = 14
          /\ Truth(v, code, address) = Says(r, IF v = 14 THEN address ELSE 0)
      BY <2>4, <1>1, FrameTells, Zenon
    <3> QED BY <3>1, <2>5, Zenon
  <2>7. Faithful(r)
    BY <2>5, <2>6 DEF Faithful, Halted, Shown
  <2>11. Extended(reports', reports, r)
    BY <2>2, <1>1, Appended, Zenon
  <2>8. /\ reports' \in Seq(Range(reports'))
        /\ DOMAIN reports' = 1 .. Len(reports) + 1 /\ Len(reports') = Len(reports) + 1
        /\ reports'[Len(reports) + 1] = r
        /\ \A k \in 1 .. Len(reports) : reports'[k] = reports[k]
        /\ reports' # <<>>
    BY <2>11 DEF Extended
  <2>9. ASSUME NEW k \in DOMAIN reports' PROVE Faithful(reports[k])'
    <3>1. k \in 1 .. Len(reports) \/ k = Len(reports) + 1
      BY <2>8, <1>1
    <3>2. CASE k \in 1 .. Len(reports)
      <4>1. Faithful(reports[k]) /\ reports'[k] = reports[k]
        BY <3>2, <2>8, <1>1 DEF ReportInv
      <4> QED BY <4>1, <1>2 DEF Faithful, Says, Bits, PageFault, Shown, Decoded, Halted
    <3>3. CASE k = Len(reports) + 1
      <4>1. reports'[k] = r
        BY <3>3, <2>8
      <4> QED BY <4>1, <2>7, <1>2 DEF Faithful, Says, Bits, PageFault, Shown, Decoded, Halted
    <3> QED BY <3>1, <3>2, <3>3
  <2>10. Innermost(Current)'
    <3>1. Current' = r
      BY <2>8 DEF Current, Depth
    <3> QED BY <3>1, <2>6, <2>3 DEF Innermost, Says, Bits, PageFault, Decoded
  <2> QED BY <1>2, <1>4, <2>2, <2>8, <2>9, <2>10 DEF ReportInv
<1>5. CASE idtr # "kernel"
  <2>1. reports = <<>> /\ reports' = <<>> /\ state' = "lost"
    BY <1>5 DEF raise, ReportInv
  <2>2. reports' \in Seq(Range(reports')) /\ DOMAIN reports' = {}
    BY <2>1
  <2> QED BY <2>1, <2>2, <1>2 DEF ReportInv
\* The stack is used up: the reports stay as they are, and none goes on.
<1>6. CASE idtr = "kernel" /\ ~(Depth < StackDepth)
  <2>1. reports' = reports /\ state' = "overrun"
    BY <1>3, <1>6 DEF raise
  <2>2. ASSUME NEW k \in DOMAIN reports' PROVE Faithful(reports[k])'
    <3>1. Faithful(reports[k]) /\ reports'[k] = reports[k]
      BY <2>1, <2>2 DEF ReportInv
    <3> QED BY <3>1, <1>2 DEF Faithful, Says, Bits, PageFault, Shown, Decoded, Halted
  <2> QED BY <1>1, <1>2, <1>6, <2>1, <2>2 DEF ReportInv
<1> QED BY <1>4, <1>5, <1>6

\* A line of the dump shows only what is true, and everything it is there to show.
LEMMA LineIsTrue ==
    ASSUME ReportInv, reports # <<>>, NEW r, r = Current, Faithful(r), Innermost(r),
           NEW a, a = (IF r.line = 5 /\ PageFault(r) THEN cr2 ELSE r.cr2),
           r.line < Halted
    PROVE  /\ ~(PageFault(r) /\ r.line < 5) => r.truth = Says(r, a)
           /\ Shows \subseteq r.truth
           /\ r.line = 2 => <<"vector", r.frame["vector"]>> \in Shows
           /\ r.line = 3 => <<"name", r.frame["vector"]>> \in Shows
           /\ r.line = 4 => <<"error_code", r.frame["error_code"]>> \in Shows
           /\ r.line = 5 => Bits(r) \subseteq Shows
           /\ r.line = 6 => <<"cr2", <<"address", r.cr2>>>> \in Shows
           /\ r.line = 7 => \A f \in Range(InterruptFrame) \ {"vector", "error_code"} :
                                <<f, r.frame[f]>> \in Shows
<1>1. r.line \in 1 .. 7
  BY DEF Faithful, Halted
<1>2. ~(PageFault(r) /\ r.line < 5) => r.truth = Says(r, a)
  BY <1>1 DEF Faithful, Innermost
<1>3. PICK b : r.truth = Says(r, b) /\ (r.line = 6 => b = r.cr2)
  <2>1. CASE PageFault(r) /\ r.line <= 5
    BY <2>1 DEF Innermost
  <2>2. CASE ~(PageFault(r) /\ r.line <= 5)
    BY <2>2 DEF Faithful
  <2> QED BY <2>1, <2>2
<1>4. {"vector", "error_code"} \subseteq Range(InterruptFrame)
  BY FieldNames
<1>5. \A N \in SUBSET Range(InterruptFrame) : Fields(N) \subseteq r.truth
  BY <1>3 DEF Fields, Says
<1>6. CASE r.line = 1
  BY <1>2, <1>6 DEF Shows
<1>7. CASE r.line = 2
  <2>1. Shows = Fields({"vector"})
    BY <1>7 DEF Shows
  <2>2. <<"vector", r.frame["vector"]>> \in Fields({"vector"})
    BY DEF Fields
  <2> QED BY <2>1, <2>2, <1>2, <1>4, <1>5, <1>7
<1>8. CASE r.line = 3
  <2>1. Shows = {<<"name", r.frame["vector"]>>}
    BY <1>8 DEF Shows
  <2> QED BY <2>1, <1>2, <1>3, <1>8 DEF Says
<1>9. CASE r.line = 4
  <2>1. Shows = Fields({"error_code"})
    BY <1>9 DEF Shows
  <2>2. <<"error_code", r.frame["error_code"]>> \in Fields({"error_code"})
    BY DEF Fields
  <2> QED BY <2>1, <2>2, <1>2, <1>4, <1>5, <1>9
<1>10. CASE r.line = 5
  <2>1. Shows = Bits(r)
    BY <1>10 DEF Shows, Bits, PageFault, IsPageFault
  <2> QED BY <2>1, <1>2, <1>3, <1>10 DEF Says
<1>11. CASE r.line = 6
  <2>1. Shows = {<<"cr2", <<"address", r.cr2>>>>}
    BY <1>11 DEF Shows
  <2> QED BY <2>1, <1>2, <1>3, <1>11 DEF Says
<1>12. CASE r.line = 7
  <2>1. Shows = Fields(Range(InterruptFrame) \ {"vector", "error_code"})
    BY <1>12 DEF Shows
  <2>2. \A f \in Range(InterruptFrame) \ {"vector", "error_code"} : <<f, r.frame[f]>> \in Shows
    BY <2>1 DEF Fields
  <2>3. Shows \subseteq r.truth
    BY <2>1, <1>5
  <2> QED BY <2>2, <2>3, <1>2, <1>12
<1> QED BY <1>1, <1>6, <1>7, <1>8, <1>9, <1>10, <1>11, <1>12

\* A step of isr_handler keeps the report it writes faithful, and is the only one that
\* touches it.
LEMMA HandlerKeeps == ReportInv /\ isr_handler => ReportInv'
<1> SUFFICES ASSUME ReportInv, isr_handler PROVE ReportInv'
  OBVIOUS
<1>1. /\ reports \in Seq(Range(reports)) /\ DOMAIN reports = 1 .. Len(reports)
      /\ Len(reports) \in Nat /\ Depth = Len(reports)
  BY OwnElements DEF ReportInv, Depth
<1>2. state = "alive" /\ reports # <<>> /\ Depth \in 1 .. Len(reports)
  BY <1>1 DEF isr_handler
<1>3. PICK r : r = Current
  OBVIOUS
<1>4. Faithful(r) /\ Innermost(r) /\ r = reports[Depth]
  BY <1>1, <1>2, <1>3 DEF ReportInv, Current
<1>5. PICK a : a = IF r.line = 5 /\ PageFault(r) THEN cr2 ELSE r.cr2
  OBVIOUS
<1>6. PICK x : x = [r EXCEPT !.line = @ + 1, !.cr2 = a,
                             !.shown = IF Printed THEN @ \cup Shows ELSE @]
  OBVIOUS
<1>7. reports' = [reports EXCEPT ![Depth] = x]
  BY <1>1, <1>2, <1>3, <1>4, <1>5, <1>6 DEF isr_handler, IsPageFault, PageFault, Current
<1>8. /\ DOMAIN x = DOMAIN r /\ x.frame = r.frame /\ x.line = r.line + 1 /\ x.cr2 = a
      /\ x.shown = (IF Printed THEN r.shown \cup Shows ELSE r.shown)
      /\ x.up = r.up /\ x.truth = r.truth
  BY <1>4, <1>6 DEF Faithful
<1>9. r.line < Halted
  BY <1>3 DEF isr_handler
<1>10. /\ ~(PageFault(r) /\ r.line < 5) => r.truth = Says(r, a)
       /\ Shows \subseteq r.truth
       /\ r.line = 2 => <<"vector", r.frame["vector"]>> \in Shows
       /\ r.line = 3 => <<"name", r.frame["vector"]>> \in Shows
       /\ r.line = 4 => <<"error_code", r.frame["error_code"]>> \in Shows
       /\ r.line = 5 => Bits(r) \subseteq Shows
       /\ r.line = 6 => <<"cr2", <<"address", r.cr2>>>> \in Shows
       /\ r.line = 7 => \A f \in Range(InterruptFrame) \ {"vector", "error_code"} :
                            <<f, r.frame[f]>> \in Shows
  BY <1>2, <1>3, <1>4, <1>5, <1>9, LineIsTrue
<1>11. \A b : Says(x, b) = Says(r, b)
  BY <1>8 DEF Says, Bits, PageFault
<1>12. PageFault(x) = PageFault(r) /\ Bits(x) = Bits(r)
  BY <1>8 DEF PageFault, Bits
<1>13. r.line \in 1 .. 7 /\ x.line \in 1 .. Halted /\ (r.line # 5 => a = r.cr2)
  BY <1>4, <1>5, <1>8, <1>9 DEF Faithful, Halted
<1>14. ~(PageFault(x) /\ x.line <= 5) => x.truth = Says(x, x.cr2)
  BY <1>8, <1>10, <1>11, <1>12, <1>13
<1>15. x.shown \subseteq x.truth
  BY <1>4, <1>8, <1>10 DEF Faithful
<1>16. x.up = Up
  BY <1>4, <1>8 DEF Faithful
<1>17. x.up => Shown(x)
  <2> SUFFICES ASSUME x.up PROVE Shown(x)
    OBVIOUS
  <2>1. Printed /\ Shown(r)
    BY <1>4, <1>8, <1>16 DEF Faithful, Printed, Up
  <2>2. r.shown \subseteq x.shown /\ Shows \subseteq x.shown
    BY <2>1, <1>8
  <2>3. x.line > 2 => <<"vector", x.frame["vector"]>> \in x.shown
    BY <2>1, <2>2, <1>8, <1>10, <1>13 DEF Shown
  <2>4. x.line > 3 => <<"name", x.frame["vector"]>> \in x.shown
    BY <2>1, <2>2, <1>8, <1>10, <1>13 DEF Shown
  <2>5. x.line > 4 => <<"error_code", x.frame["error_code"]>> \in x.shown
    BY <2>1, <2>2, <1>8, <1>10, <1>13 DEF Shown
  <2>6. x.line > 5 => Bits(x) \subseteq x.shown
    BY <2>1, <2>2, <1>8, <1>10, <1>12, <1>13 DEF Shown
  <2>7. x.line > 6 => <<"cr2", <<"address", x.cr2>>>> \in x.shown
    BY <2>1, <2>2, <1>8, <1>10, <1>13 DEF Shown
  <2>8. x.line > 7 => \A f \in Range(InterruptFrame) \ {"vector", "error_code"} :
                          <<f, x.frame[f]>> \in x.shown
    BY <2>1, <2>2, <1>8, <1>10, <1>13 DEF Shown
  <2> QED BY <2>3, <2>4, <2>5, <2>6, <2>7, <2>8 DEF Shown
<1>18. Faithful(x)
  BY <1>4, <1>8, <1>13, <1>14, <1>15, <1>16, <1>17 DEF Faithful
<1>19. Up' = Up /\ cr2' = cr2 /\ pc' = pc /\ gdtr' = gdtr /\ idtr' = idtr /\ state' = state
  BY DEF isr_handler, kernel, Up
<1>20. /\ reports' \in Seq(Range(reports'))
       /\ DOMAIN reports' = 1 .. Len(reports) /\ Len(reports') = Len(reports)
       /\ reports'[Depth] = x
       /\ \A k \in 1 .. Len(reports) : k # Depth => reports'[k] = reports[k]
  <2>1. Changed(reports', reports, Depth, x)
    BY <1>1, <1>2, <1>7, Replaced, Zenon
  <2> QED BY <2>1 DEF Changed
<1>21. ASSUME NEW k \in DOMAIN reports' PROVE Faithful(reports[k])'
  <2>1. PICK y : y = reports'[k]
    OBVIOUS
  <2>2. Faithful(y)
    BY <2>1, <1>1, <1>18, <1>20 DEF ReportInv
  <2>3. Faithful(y)'
    BY <2>2, <1>19, StaysFaithful
  <2> QED BY <2>1, <2>3 DEF Faithful, Says, Bits, PageFault, Shown, Decoded, Halted
<1>22. Innermost(Current)'
  <2>1. Current' = x
    BY <1>1, <1>20 DEF Current, Depth
  <2>2. PageFault(x) /\ x.line <= 5 => x.truth = Says(x, cr2)
    BY <1>4, <1>8, <1>11, <1>12, <1>13 DEF Innermost
  <2> QED BY <2>1, <2>2, <1>19 DEF Innermost, Says, Bits, PageFault, Decoded
<1>23. reports # <<>> => idtr = "kernel"
  BY DEF ReportInv
<1> QED BY <1>2, <1>19, <1>20, <1>21, <1>22, <1>23 DEF ReportInv

-----------------------------------------------------------------------------
\* The invariant holds throughout.
LEMMA AlwaysReportInv == Spec => []ReportInv
<1>1. ReportInv /\ UNCHANGED vars => ReportInv'
  <2> SUFFICES ASSUME ReportInv, UNCHANGED vars PROVE ReportInv'
    OBVIOUS
  <2>1. /\ reports' = reports /\ cr2' = cr2 /\ pc' = pc /\ gdtr' = gdtr /\ idtr' = idtr
        /\ state' = state /\ initialized' = initialized /\ sink' = sink
    BY DEF vars, kernel
  <2>2. Up' = Up /\ Current' = Current
    BY <2>1 DEF Up, Current, Depth
  <2>3. ASSUME NEW k \in DOMAIN reports' PROVE Faithful(reports[k])'
    <3>1. PICK y : y = reports[k]
      OBVIOUS
    <3>2. Faithful(y) /\ reports'[k] = y
      BY <2>1, <3>1 DEF ReportInv
    <3>3. Faithful(y)'
      BY <3>2, <2>2, StaysFaithful
    <3> QED BY <3>2, <3>3 DEF Faithful, Says, Bits, PageFault, Shown, Decoded, Halted
  <2>4. reports # <<>> /\ state = "alive" => Innermost(Current)'
    BY <2>1, <2>2 DEF ReportInv, Innermost, Says, Bits, PageFault, Decoded
  <2> QED BY <2>1, <2>3, <2>4 DEF ReportInv
<1>2. ReportInv /\ [Next]_vars => ReportInv'
  BY <1>1, BootKeeps, RaiseKeeps, HandlerKeeps DEF Next
<1> QED BY <1>2, InitReports, PTL DEF Spec

\* Once the kernel's tables are in place no exception ends in a triple fault: each of
\* the 32 gates leads to its stub through a segment the CPU accepts, as long as the
\* stack has room for another frame.
THEOREM VectorsAlwaysHandled == Spec => []AllVectorsHandled
<1>1. ReportInv => AllVectorsHandled
  BY DEF ReportInv, AllVectorsHandled
<1> QED BY <1>1, AlwaysReportInv, PTL

\* Whatever isr_handler prints is what the CPU held when that exception came, at any
\* depth of exceptions within exceptions.
THEOREM ReportsAlwaysTrue == Spec => []ReportIsTrue
<1>1. ReportInv => ReportIsTrue
  BY DEF ReportInv, Faithful, ReportIsTrue
<1> QED BY <1>1, AlwaysReportInv, PTL

\* A report that starts with the port and the sink set up has printed everything when
\* isr_handler halts.
THEOREM ReportsAlwaysComplete == Spec => []ReportIsComplete
<1>1. ReportInv => ReportIsComplete
  <2> SUFFICES ASSUME ReportInv, NEW k \in DOMAIN reports, reports[k].up, reports[k].line = Halted
               PROVE  reports[k].shown = reports[k].truth
    BY DEF ReportIsComplete
  <2>1. PICK r : r = reports[k]
    OBVIOUS
  <2>2. r.shown \subseteq r.truth /\ r.truth = Says(r, r.cr2) /\ Shown(r) /\ r.line = 8
    <3>1. Faithful(r) /\ r.up /\ r.line = 8
      BY <2>1 DEF ReportInv, Halted
    <3> QED BY <3>1 DEF Faithful
  <2>3. /\ <<"vector", r.frame["vector"]>> \in r.shown /\ <<"name", r.frame["vector"]>> \in r.shown
        /\ <<"error_code", r.frame["error_code"]>> \in r.shown /\ Bits(r) \subseteq r.shown
        /\ <<"cr2", <<"address", r.cr2>>>> \in r.shown
        /\ \A f \in Range(InterruptFrame) \ {"vector", "error_code"} : <<f, r.frame[f]>> \in r.shown
    BY <2>2 DEF Shown
  <2>4. \A f \in Range(InterruptFrame) : <<f, r.frame[f]>> \in r.shown
    BY <2>3
  <2>5. Says(r, r.cr2) \subseteq r.shown
    BY <2>3, <2>4 DEF Says
  <2> QED BY <2>1, <2>2, <2>5
<1> QED BY <1>1, AlwaysReportInv, PTL
=============================================================================
