------------------------------- MODULE MemProofs -------------------------------
(***************************************************************************)
(* The memory functions do what their names say, for memories and bytes of *)
(* every size.  Each loop has its invariant: which part of the destination *)
(* is done, and that the part of the source still to be read is untouched. *)
(***************************************************************************)
EXTENDS Mem, TLAPS

MemTypeOK ==
    /\ mem \in [Addr -> Bytes]
    /\ old \in [Addr -> Bytes]
    /\ call \in CallType
    /\ i \in 0 .. Size
    /\ ret \in {-1, 0, 1}

\* Both areas of the call lie in memory, and the loop has not passed its end.
InBounds ==
    /\ call.dest + call.n <= Size
    /\ call.src + call.n <= Size
    /\ i <= call.n
    /\ call.op = "memcpy" => call.dest + call.n <= call.src
                             \/ call.src + call.n <= call.dest

\* What the loop has done so far.
Progress ==
    /\ Upwards =>
         \A a \in Addr : mem[a] = IF a \in Area(call.dest, i)
                                  THEN old[call.src + (a - call.dest)] ELSE old[a]
    /\ Downwards =>
         \A a \in Addr : mem[a] = IF a \in (call.dest + i) .. (call.dest + call.n - 1)
                                  THEN old[call.src + (a - call.dest)] ELSE old[a]
    /\ call.op = "memset" =>
         \A a \in Addr : mem[a] = IF a \in Area(call.dest, i)
                                  THEN call.c % Byte ELSE old[a]
    /\ call.op = "memmove" /\ call.dest = call.src => mem = old
    /\ call.op = "memcmp" => mem = old /\ \A k \in 0 .. i - 1 : ~Differs(k)

IInv == MemTypeOK /\ InBounds /\ Progress

-----------------------------------------------------------------------------
\* Within the memory a size_t does not wrap.
LEMMA NoWrap ==
    /\ \A k \in 0 .. Size : k < Size => Inc(k) = k + 1
    /\ \A k \in 0 .. Size : k > 0 => Dec(k) = k - 1
  <1>1. \A k \in Nat : k < SizeT => k % SizeT = k
    BY MemAssumption
  <1> QED
    BY <1>1, MemAssumption DEF Inc, Dec

\* No call has begun.
LEMMA InitOK == Init => IInv
  <1> SUFFICES ASSUME Init PROVE IInv
    OBVIOUS
  <1> USE MemAssumption DEF Init, NoCall
  <1>1. MemTypeOK
    BY DEF MemTypeOK, CallType
  <1>2. InBounds /\ Progress
    BY DEF InBounds, Progress, Upwards, Downwards
  <1> QED
    BY <1>1, <1>2 DEF IInv

\* Returning leaves nothing to show about the loop.
LEMMA ReturnOK ==
    ASSUME IInv, NEW r \in {-1, 0, 1}, Return(r), mem' = mem, old' = old
    PROVE  IInv'
  <1>1. MemTypeOK'
    BY MemAssumption DEF IInv, MemTypeOK, Return, NoCall, CallType
  <1>2. InBounds' /\ Progress'
    BY MemAssumption DEF InBounds, Progress, Return, NoCall, Upwards, Downwards
  <1> QED
    BY <1>1, <1>2 DEF IInv

\* A call that begins has done nothing yet.
LEMMA CallOK ==
    ASSUME IInv,
           NEW op \in {"memcpy", "memmove", "memset", "memcmp"},
           NEW dest \in 0 .. Size, NEW src \in 0 .. Size, NEW n \in 0 .. Size,
           NEW c \in Char \cup {0}, Call(op, dest, src, n, c)
    PROVE  IInv'
  <1> USE MemAssumption
  <1>1. MemTypeOK'
    BY DEF IInv, MemTypeOK, Call, CallType
  <1>2. InBounds'
    BY DEF InBounds, Call
  <1>3. Progress'
    BY DEF IInv, MemTypeOK, Progress, Call, Upwards, Downwards, Area, Addr
  <1> QED
    BY <1>1, <1>2, <1>3 DEF IInv

\* One byte of memcpy, or of memmove upwards.
LEMMA CopyUpOK == ASSUME IInv, copy_up PROVE IInv'
  <1> USE MemAssumption
  <1>1. CASE i < call.n
    <2>1. /\ call.dest + i \in Addr /\ call.src + i \in Addr
          /\ call.n \in Nat /\ i \in Nat /\ call.dest \in Nat /\ call.src \in Nat
      BY <1>1 DEF IInv, MemTypeOK, InBounds, Addr, CallType
    <2>unwrapped. Inc(i) = i + 1
      BY <1>1, NoWrap DEF IInv, MemTypeOK, InBounds, CallType
    <2>2. /\ mem' = [mem EXCEPT ![call.dest + i] = mem[call.src + i]]
          /\ i' = i + 1 /\ call' = call /\ ret' = ret /\ old' = old
      BY <1>1, <2>unwrapped DEF copy_up
    <2>3. MemTypeOK'
      BY <1>1, <2>1, <2>2 DEF IInv, MemTypeOK, InBounds, CallType
    <2>4. InBounds'
      BY <1>1, <2>1, <2>2 DEF IInv, InBounds
    \* The byte read next has not been written: the source is higher, or apart.
    <2>5. mem[call.src + i] = old[call.src + i]
      BY <1>1, <2>1 DEF IInv, Progress, InBounds, copy_up, Upwards, Area
    <2>6. \A a \in Addr : mem'[a] = IF a \in Area(call.dest, i + 1)
                                    THEN old[call.src + (a - call.dest)] ELSE old[a]
      <3> SUFFICES ASSUME NEW a \in Addr
                   PROVE  mem'[a] = IF a \in Area(call.dest, i + 1)
                                    THEN old[call.src + (a - call.dest)] ELSE old[a]
        OBVIOUS
      <3>1. mem[a] = IF a \in Area(call.dest, i)
                     THEN old[call.src + (a - call.dest)] ELSE old[a]
        BY DEF IInv, Progress, copy_up
      <3>2. CASE a = call.dest + i
        <4>1. a \in Area(call.dest, i + 1) /\ call.src + (a - call.dest) = call.src + i
          BY <2>1, <3>2 DEF Area
        <4> QED
          BY <2>1, <2>2, <2>5, <3>2, <4>1 DEF IInv, MemTypeOK
      <3>3. CASE a # call.dest + i
        <4>1. a \in Area(call.dest, i + 1) <=> a \in Area(call.dest, i)
          <5>1. a \in Int
            BY DEF Addr
          <5> QED
            BY <2>1, <3>3, <5>1 DEF Area
        <4> QED
          BY <2>1, <2>2, <3>1, <3>3, <4>1 DEF IInv, MemTypeOK
      <3> QED
        BY <3>2, <3>3
    <2>7. Progress'
      BY <2>1, <2>2, <2>6 DEF Progress, copy_up, Upwards, Downwards
    <2> QED
      BY <2>3, <2>4, <2>7 DEF IInv
  <1>2. CASE ~(i < call.n)
    BY <1>2, ReturnOK DEF copy_up, IInv, MemTypeOK
  <1> QED
    BY <1>1, <1>2

\* One byte of memmove downwards.
LEMMA CopyDownOK == ASSUME IInv, copy_down PROVE IInv'
  <1> USE MemAssumption
  <1>1. CASE i > 0
    <2>1. /\ call.dest + i - 1 \in Addr /\ call.src + i - 1 \in Addr
          /\ call.n \in Nat /\ i \in Nat /\ call.dest \in Nat /\ call.src \in Nat
      BY <1>1 DEF IInv, MemTypeOK, InBounds, Addr, CallType
    <2>unwrapped. Dec(i) = i - 1
      BY <1>1, NoWrap DEF IInv, MemTypeOK, InBounds, CallType
    <2>2. /\ mem' = [mem EXCEPT ![call.dest + i - 1] = mem[call.src + i - 1]]
          /\ i' = i - 1 /\ call' = call /\ ret' = ret /\ old' = old
      BY <1>1, <2>unwrapped DEF copy_down
    <2>3. MemTypeOK'
      BY <1>1, <2>1, <2>2 DEF IInv, MemTypeOK, InBounds, CallType
    <2>4. InBounds'
      BY <1>1, <2>1, <2>2 DEF IInv, InBounds
    \* The byte read next has not been written: the source is lower.
    <2>5. mem[call.src + i - 1] = old[call.src + i - 1]
      BY <1>1, <2>1 DEF IInv, Progress, InBounds, copy_down, Downwards
    <2>6. \A a \in Addr :
             mem'[a] = IF a \in (call.dest + (i - 1)) .. (call.dest + call.n - 1)
                       THEN old[call.src + (a - call.dest)] ELSE old[a]
      <3> SUFFICES ASSUME NEW a \in Addr
                   PROVE  mem'[a] =
                          IF a \in (call.dest + (i - 1)) .. (call.dest + call.n - 1)
                          THEN old[call.src + (a - call.dest)] ELSE old[a]
        OBVIOUS
      <3>1. mem[a] = IF a \in (call.dest + i) .. (call.dest + call.n - 1)
                     THEN old[call.src + (a - call.dest)] ELSE old[a]
        BY DEF IInv, Progress, copy_down
      <3>2. CASE a = call.dest + i - 1
        <4>1. /\ a \in (call.dest + (i - 1)) .. (call.dest + call.n - 1)
              /\ call.src + (a - call.dest) = call.src + i - 1
          BY <1>1, <2>1, <3>2 DEF IInv, InBounds
        <4> QED
          BY <2>1, <2>2, <2>5, <3>2, <4>1 DEF IInv, MemTypeOK
      <3>3. CASE a # call.dest + i - 1
        <4>1. a \in (call.dest + (i - 1)) .. (call.dest + call.n - 1)
              <=> a \in (call.dest + i) .. (call.dest + call.n - 1)
          BY <2>1, <3>3 DEF Addr
        <4> QED
          BY <2>1, <2>2, <3>1, <3>3, <4>1 DEF IInv, MemTypeOK
      <3> QED
        BY <3>2, <3>3
    <2>7. Progress'
      BY <2>1, <2>2, <2>6 DEF Progress, copy_down, Upwards, Downwards
    <2> QED
      BY <2>3, <2>4, <2>7 DEF IInv
  <1>2. CASE ~(i > 0)
    BY <1>2, ReturnOK DEF copy_down, IInv, MemTypeOK
  <1> QED
    BY <1>1, <1>2

\* One byte of memset.
LEMMA SetOK == ASSUME IInv, memset PROVE IInv'
  <1> USE MemAssumption
  <1>1. CASE i < call.n
    <2>1. /\ call.dest + i \in Addr /\ call.c % Byte \in Bytes
          /\ call.n \in Nat /\ i \in Nat /\ call.dest \in Nat
      <3>1. call.c \in Char \cup {0}
        BY DEF IInv, MemTypeOK, CallType
      <3>2. \A c \in Char : c \in Int
        BY MemAssumption
      <3>3. call.c \in Int
        <4>1. CASE call.c \in Char
          BY <3>2, <4>1
        <4>2. CASE call.c = 0
          BY <4>2
        <4> QED
          BY <3>1, <4>1, <4>2
      <3>4. call.c % Byte \in Bytes
        BY <3>3 DEF Bytes
      <3>5. /\ call.dest + i \in Addr
            /\ call.n \in Nat /\ i \in Nat /\ call.dest \in Nat
        BY <1>1 DEF IInv, MemTypeOK, InBounds, Addr, CallType
      <3> QED
        BY <3>4, <3>5
    <2>unwrapped. Inc(i) = i + 1
      BY <1>1, NoWrap DEF IInv, MemTypeOK, InBounds, CallType
    <2>2. /\ mem' = [mem EXCEPT ![call.dest + i] = call.c % Byte]
          /\ i' = i + 1 /\ call' = call /\ ret' = ret /\ old' = old
      BY <1>1, <2>unwrapped DEF memset
    <2>3. MemTypeOK'
      BY <1>1, <2>1, <2>2 DEF IInv, MemTypeOK, InBounds, CallType
    <2>4. InBounds'
      BY <1>1, <2>1, <2>2 DEF IInv, InBounds
    <2>6. \A a \in Addr : mem'[a] = IF a \in Area(call.dest, i + 1)
                                    THEN call.c % Byte ELSE old[a]
      BY <2>1, <2>2 DEF IInv, MemTypeOK, Progress, memset, Area, Addr
    <2>7. Progress'
      BY <2>2, <2>6 DEF Progress, memset, Upwards, Downwards, Area
    <2> QED
      BY <2>3, <2>4, <2>7 DEF IInv
  <1>2. CASE ~(i < call.n)
    BY <1>2, ReturnOK DEF memset, IInv, MemTypeOK
  <1> QED
    BY <1>1, <1>2

\* One byte of memcmp.
LEMMA CompareOK == ASSUME IInv, memcmp PROVE IInv'
  <1> USE MemAssumption
  <1>1. CASE i < call.n /\ mem[call.dest + i] = mem[call.src + i]
    <2>unwrapped. Inc(i) = i + 1
      BY <1>1, NoWrap DEF IInv, MemTypeOK, InBounds, CallType
    <2>1. /\ call' = call /\ ret' = ret /\ old' = old /\ mem' = mem /\ i' = i + 1
          /\ call.n \in 0 .. Size /\ i \in 0 .. Size
      BY <1>1, <2>unwrapped DEF memcmp, IInv, MemTypeOK, CallType
    <2>2. MemTypeOK' /\ InBounds'
      BY <1>1, <2>1 DEF IInv, MemTypeOK, InBounds
    <2>3. Progress'
      BY <1>1, <2>1 DEF IInv, Progress, memcmp, Upwards, Downwards, Differs
    <2> QED
      BY <2>2, <2>3 DEF IInv
  <1>2. CASE ~(i < call.n /\ mem[call.dest + i] = mem[call.src + i])
    BY <1>2, ReturnOK DEF memcmp
  <1> QED
    BY <1>1, <1>2

\* Every step keeps the invariant.
LEMMA StepOK == ASSUME IInv, [Next]_vars PROVE IInv'
  <1>1. CASE move_nothing
    BY <1>1, ReturnOK DEF move_nothing, IInv, MemTypeOK
  <1>2. CASE UNCHANGED vars
    BY <1>2 DEF vars, IInv, MemTypeOK, InBounds, Progress, Upwards, Downwards, Differs
  <1>3. CASE \E dest \in 0 .. Size, src \in 0 .. Size, n \in 0 .. Size,
                op \in {"memcpy", "memmove", "memcmp"} : Call(op, dest, src, n, 0)
    BY <1>3, CallOK
  <1>4. CASE \E dest \in 0 .. Size, n \in 0 .. Size, c \in Char :
                Call("memset", dest, 0, n, c)
    BY <1>4, CallOK, MemAssumption
  <1> QED
    BY <1>1, <1>2, <1>3, <1>4, CopyUpOK, CopyDownOK, SetOK, CompareOK DEF Next, Step

\* The invariant holds throughout.
LEMMA Invariance == Spec => []IInv
  BY InitOK, StepOK, PTL DEF Spec

-----------------------------------------------------------------------------
\* When memcpy or memmove returns, the destination holds what the source held at
\* the call, however the two overlap, and nothing else has changed.
THEOREM CopiesExact == Spec => CopyIsExact
  <1> DEFINE Goal == call.op \in {"memcpy", "memmove"} /\ Idle' => mem' = Copied
  <1>1. ASSUME IInv, [Next]_vars PROVE [Goal]_vars
    <2> SUFFICES ASSUME Next, call.op \in {"memcpy", "memmove"}, Idle' PROVE mem' = Copied
      BY <1>1
    <2> USE MemAssumption
    <2>1. /\ call.n \in Nat /\ i \in Nat /\ call.dest \in Nat /\ call.src \in Nat
          /\ mem \in [Addr -> Bytes]
      BY <1>1 DEF IInv, MemTypeOK, CallType
    <2>2. ~Idle /\ ~memset /\ ~memcmp
      BY DEF Idle, memset, memcmp
    <2>3. copy_up \/ copy_down \/ move_nothing
      BY <2>2 DEF Next, Step, Call
    <2>4. CASE copy_up
      <3>1. mem' = mem /\ i >= call.n
        BY <2>1, <2>4, <2>2 DEF copy_up, Idle
      <3>2. i = call.n
        BY <1>1, <2>1, <3>1 DEF IInv, InBounds
      <3> QED
        BY <1>1, <2>1, <2>4, <3>1, <3>2 DEF IInv, Progress, copy_up, Copied
    <2>5. CASE copy_down
      <3>1. mem' = mem /\ i = 0
        BY <2>1, <2>5, <2>2 DEF copy_down, Idle
      <3> QED
        BY <1>1, <2>1, <2>5, <3>1 DEF IInv, Progress, copy_down, Copied, Area
    <2>6. CASE move_nothing
      <3>1. /\ mem' = mem /\ mem = old /\ call.dest = call.src
            /\ \A a \in Addr : call.src + (a - call.dest) = a
        BY <1>1, <2>1, <2>6 DEF IInv, Progress, move_nothing, Addr
      <3> QED
        BY <2>1, <3>1 DEF Copied
    <2> QED
      BY <2>3, <2>4, <2>5, <2>6
  <1> QED
    BY <1>1, Invariance, PTL DEF Spec, CopyIsExact

\* memset fills exactly its area with the low byte of its argument.
THEOREM SetsExact == Spec => SetIsExact
  <1> DEFINE Goal == call.op = "memset" /\ Idle' => mem' = Filled
  <1>1. ASSUME IInv, [Next]_vars PROVE [Goal]_vars
    <2> SUFFICES ASSUME Next, call.op = "memset", Idle' PROVE mem' = Filled
      BY <1>1
    <2>1. /\ call.n \in Nat /\ i \in Nat /\ mem \in [Addr -> Bytes]
      BY <1>1, MemAssumption DEF IInv, MemTypeOK, CallType
    <2>2. memset
      BY DEF Next, Step, Call, Idle, copy_up, copy_down, move_nothing, memcmp,
             Upwards, Downwards
    <2>3. mem' = mem /\ i = call.n
      BY <1>1, <2>1, <2>2 DEF memset, Idle, IInv, InBounds
    <2> QED
      BY <1>1, <2>1, <2>3 DEF IInv, Progress, Filled
  <1> QED
    BY <1>1, Invariance, PTL DEF Spec, SetIsExact

\* memcmp returns the unsigned order of the first bytes that differ.
THEOREM ComparesExact == Spec => CompareIsExact
  <1> DEFINE Goal == call.op = "memcmp" /\ Idle' => ret' = Comparison /\ mem' = old
  <1>1. ASSUME IInv, [Next]_vars PROVE [Goal]_vars
    <2> SUFFICES ASSUME Next, call.op = "memcmp", Idle'
                 PROVE  ret' = Comparison /\ mem' = old
      BY <1>1
    <2>1. /\ call.n \in Nat /\ i \in Nat /\ i <= call.n
          /\ call.dest \in Nat /\ call.src \in Nat /\ call.dest + call.n <= Size
          /\ call.src + call.n <= Size
          /\ mem \in [Addr -> Bytes] /\ mem = old
          /\ \A k \in 0 .. i - 1 : ~Differs(k)
      BY <1>1, MemAssumption DEF IInv, MemTypeOK, InBounds, Progress, CallType
    <2>2. memcmp
      BY DEF Next, Step, Call, Idle, copy_up, copy_down, move_nothing, memset,
             Upwards, Downwards
    <2>3. mem' = old
      BY <2>1, <2>2 DEF memcmp
    <2>4. CASE i < call.n /\ mem[call.dest + i] # mem[call.src + i]
      <3>1. /\ i \in 0 .. call.n - 1 /\ Differs(i)
            /\ ret' = IF old[call.dest + i] < old[call.src + i] THEN -1 ELSE 1
        BY <2>1, <2>2, <2>4 DEF memcmp, Return, Differs
      <3>2. ASSUME NEW k \in 0 .. call.n - 1, Differs(k),
                   \A j \in 0 .. k - 1 : ~Differs(j)
            PROVE  k = i
        BY <2>1, <3>1, <3>2
      <3>3. ~ \A k \in 0 .. call.n - 1 : ~Differs(k)
        BY <3>1
      <3>4. (\E k \in 0 .. call.n - 1 :
                /\ Differs(k) /\ \A j \in 0 .. k - 1 : ~Differs(j)
                /\ old[call.dest + k] < old[call.src + k])
            <=> old[call.dest + i] < old[call.src + i]
        BY <2>1, <3>1, <3>2
      <3> QED
        BY <2>3, <3>1, <3>3, <3>4 DEF Comparison
    <2>5. CASE ~(i < call.n)
      <3>1. ret' = 0 /\ i = call.n
        BY <2>1, <2>2, <2>5 DEF memcmp, Return
      <3> QED
        BY <2>1, <2>3, <3>1 DEF Comparison
    <2>6. CASE i < call.n /\ mem[call.dest + i] = mem[call.src + i]
      BY <2>2, <2>6 DEF memcmp, Idle
    <2> QED
      BY <2>4, <2>5, <2>6
  <1> QED
    BY <1>1, Invariance, PTL DEF Spec, CompareIsExact
=============================================================================
