---------------------------------- MODULE Mem ----------------------------------
(***************************************************************************)
(* The memory functions of src/src/lib/string.cpp, byte by byte: each      *)
(* iteration of a loop is a step on one shared memory, so that the source  *)
(* and the destination of a copy may overlap.                              *)
(***************************************************************************)
EXTENDS Integers

CONSTANTS
    Size,       \* bytes of memory
    SizeT,      \* number of values of size_t, 2^64
    Byte,       \* number of values of a byte, 256
    Char        \* values of the int argument of memset

ASSUME MemAssumption ==
    /\ Size \in Nat /\ SizeT \in Nat /\ Size < SizeT
    /\ Byte \in Nat \ {0} /\ Char \subseteq Int

VARIABLES
    mem,        \* the memory
    call,       \* the call being executed
    i,          \* its loop variable, a size_t
    ret,        \* what the last memcmp returned
    old         \* history: the memory when the call began

vars == <<mem, call, i, ret, old>>

Addr == 0 .. Size - 1
Bytes == 0 .. Byte - 1
NoCall == [op |-> "none", dest |-> 0, src |-> 0, n |-> 0, c |-> 0]
CallType == [op : {"none", "memcpy", "memmove", "memset", "memcmp"},
             dest : 0 .. Size, src : 0 .. Size, n : 0 .. Size, c : Char \cup {0}]

\* The steps of a size_t, which wraps at both ends.
Inc(k) == (k + 1) % SizeT
Dec(k) == (k - 1) % SizeT

Idle == call.op = "none"
Return(r) == call' = NoCall /\ i' = 0 /\ ret' = r

Init ==
    /\ mem \in [Addr -> Bytes]
    /\ call = NoCall /\ i = 0 /\ ret = 0
    /\ old = mem

\* Both areas lie in memory.  Those of memcpy are __restrict: they are disjoint.
Call(op, dest, src, n, c) ==
    /\ Idle
    /\ dest + n <= Size /\ src + n <= Size
    /\ op = "memcpy" => dest + n <= src \/ src + n <= dest
    /\ call' = [op |-> op, dest |-> dest, src |-> src, n |-> n, c |-> c]
    \* The only loop that counts down is memmove's second.
    /\ i' = IF op = "memmove" /\ dest > src THEN n ELSE 0
    /\ old' = mem
    /\ UNCHANGED <<mem, ret>>

\* memmove goes up when its destination is the lower one, and down when it is the
\* higher one; with both equal it does nothing.
Upwards == call.op = "memcpy" \/ (call.op = "memmove" /\ call.dest < call.src)
Downwards == call.op = "memmove" /\ call.dest > call.src

\* Mutant of copy_down: the loop stops before the first byte.
copy_down_Short ==
    /\ Downwards
    /\ IF i > 1
       THEN /\ mem' = [mem EXCEPT ![call.dest + i - 1] = mem[call.src + i - 1]]
            /\ i' = Dec(i)
            /\ UNCHANGED <<call, ret>>
       ELSE Return(ret) /\ UNCHANGED mem
    /\ UNCHANGED old

\* Mutant of copy_down: the loop runs "while (i-- >= 0)", which an unsigned index
\* never fails; below 0 it wraps, and the accesses leave the memory modelled here.
copy_down_Unsigned ==
    /\ Downwards
    /\ i >= 0
    /\ mem' = IF {call.dest + Dec(i), call.src + Dec(i)} \subseteq Addr
              THEN [mem EXCEPT ![call.dest + Dec(i)] = mem[call.src + Dec(i)]] ELSE mem
    /\ i' = Dec(i)
    /\ UNCHANGED <<call, ret, old>>

copy_up ==
    /\ Upwards
    /\ IF i < call.n
       THEN /\ mem' = [mem EXCEPT ![call.dest + i] = mem[call.src + i]]
            /\ i' = Inc(i)
            /\ UNCHANGED <<call, ret>>
       ELSE Return(ret) /\ UNCHANGED mem
    /\ UNCHANGED old

copy_down ==
    /\ Downwards
    /\ IF i > 0
       THEN /\ mem' = [mem EXCEPT ![call.dest + i - 1] = mem[call.src + i - 1]]
            /\ i' = Dec(i)
            /\ UNCHANGED <<call, ret>>
       ELSE Return(ret) /\ UNCHANGED mem
    /\ UNCHANGED old

move_nothing ==
    /\ call.op = "memmove" /\ call.dest = call.src
    /\ Return(ret)
    /\ UNCHANGED <<mem, old>>

\* Mutant: one byte too many.
memset_Inclusive ==
    /\ call.op = "memset"
    /\ IF i <= call.n /\ call.dest + i < Size
       THEN /\ mem' = [mem EXCEPT ![call.dest + i] = call.c % Byte]
            /\ i' = Inc(i)
            /\ UNCHANGED <<call, ret>>
       ELSE Return(ret) /\ UNCHANGED mem
    /\ UNCHANGED old

\* The int argument is converted to a byte.
memset ==
    /\ call.op = "memset"
    /\ IF i < call.n
       THEN /\ mem' = [mem EXCEPT ![call.dest + i] = call.c % Byte]
            /\ i' = Inc(i)
            /\ UNCHANGED <<call, ret>>
       ELSE Return(ret) /\ UNCHANGED mem
    /\ UNCHANGED old

\* Mutant: the bytes are compared as signed numbers.
memcmp_Signed ==
    LET Signed(b) == IF 2 * b >= Byte THEN b - Byte ELSE b IN
    /\ call.op = "memcmp"
    /\ IF i < call.n
       THEN IF mem[call.dest + i] # mem[call.src + i]
            THEN Return(IF Signed(mem[call.dest + i]) < Signed(mem[call.src + i])
                        THEN -1 ELSE 1)
            ELSE i' = Inc(i) /\ UNCHANGED <<call, ret>>
       ELSE Return(0)
    /\ UNCHANGED <<mem, old>>

memcmp ==
    /\ call.op = "memcmp"
    /\ IF i < call.n
       THEN IF mem[call.dest + i] # mem[call.src + i]
            THEN Return(IF mem[call.dest + i] < mem[call.src + i] THEN -1 ELSE 1)
            ELSE i' = Inc(i) /\ UNCHANGED <<call, ret>>
       ELSE Return(0)
    /\ UNCHANGED <<mem, old>>

Step == copy_up \/ copy_down \/ move_nothing \/ memset \/ memcmp
Next ==
    \/ Step
    \/ \E dest \in 0 .. Size, src \in 0 .. Size, n \in 0 .. Size,
          op \in {"memcpy", "memmove", "memcmp"} : Call(op, dest, src, n, 0)
    \/ \E dest \in 0 .. Size, n \in 0 .. Size, c \in Char :
          Call("memset", dest, 0, n, c)

Spec == Init /\ [][Next]_vars /\ WF_vars(Step)

-----------------------------------------------------------------------------
(***************************************************************************)
(* Properties.                                                             *)
(***************************************************************************)

Area(start, n) == start .. start + n - 1

\* The memory after a copy made as if through a buffer apart.
Copied == [a \in Addr |-> IF a \in Area(call.dest, call.n)
                          THEN old[call.src + (a - call.dest)] ELSE old[a]]
Filled == [a \in Addr |-> IF a \in Area(call.dest, call.n)
                          THEN call.c % Byte ELSE old[a]]

Differs(k) == old[call.dest + k] # old[call.src + k]

\* The sign of the first difference of the two areas, 0 if there is none.
Comparison ==
    CASE \A k \in 0 .. call.n - 1 : ~Differs(k) -> 0
      [] \E k \in 0 .. call.n - 1 :
            /\ Differs(k) /\ \A j \in 0 .. k - 1 : ~Differs(j)
            /\ old[call.dest + k] < old[call.src + k] -> -1
      [] OTHER -> 1

\* When memcpy or memmove returns, the destination holds what the source held when
\* it was called, however the two overlap, and no other byte has changed.
CopyIsExact ==
    [][call.op \in {"memcpy", "memmove"} /\ Idle' => mem' = Copied]_vars

\* memset fills exactly its area, with the low byte of its argument.
SetIsExact == [][call.op = "memset" /\ Idle' => mem' = Filled]_vars

\* memcmp returns the order of the first bytes that differ, as unsigned numbers,
\* and looks no further.
CompareIsExact == [][call.op = "memcmp" /\ Idle' => ret' = Comparison /\ mem' = old]_vars

\* Every call returns: the index is unsigned, and the downward loop of memmove
\* stops at 0 without wrapping below it.
CallsReturn == ~Idle ~> Idle
=============================================================================
