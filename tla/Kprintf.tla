-------------------------------- MODULE Kprintf --------------------------------
(***************************************************************************)
(* kprintf of src/src/lib/print.cpp: the scan of the format string and the *)
(* conversion of numbers, digit by digit, at given widths of int and long. *)
(* Characters are one-letter strings.  An argument occupies a whole slot   *)
(* of LongBits bits; reading an int takes the slot's low bits, whatever    *)
(* the high ones hold.                                                     *)
(***************************************************************************)
EXTENDS Integers, SequencesExt

CONSTANTS
    IntBits, LongBits,      \* 32 and 64
    DecBuffer, HexBuffer,   \* characters of the digit buffers, 24 and 16
    CharOf,     \* the character of a code
    StringAt,   \* the string at an address
    Inputs      \* calls: [fmt, args, means], with the text each is to print; fmt is
                \* missing where the format is a null pointer

\* The decimal buffer holds the longest number; both widths are whole hex digits.
ASSUME KprintfAssumption ==
    /\ IntBits % 4 = 0 /\ LongBits % 4 = 0 /\ IntBits <= LongBits
    /\ 10^DecBuffer >= 2^LongBits

VARIABLES
    input,      \* one of Inputs
    sink,       \* whether set_sink was called
    pc,         \* "scan", "convert", "digits", "done", or "outside" the format
    pos, long,  \* the character of the format looked at; the length modifier
    args,       \* arguments not yet read
    value, base, buffer,    \* the number being converted and its digits so far
    out         \* what the sink was given

vars == <<input, sink, pc, pos, long, args, value, base, buffer, out>>

NUL == "\\0"
nullptr == 0
digits == <<"0", "1", "2", "3", "4", "5", "6", "7",
            "8", "9", "a", "b", "c", "d", "e", "f">>
Digit(n) == digits[n + 1]

Init ==
    /\ input \in Inputs
    /\ sink \in BOOLEAN
    /\ pc = "scan" /\ pos = 1 /\ long = FALSE
    /\ args = input.args
    /\ value = 0 /\ base = 10 /\ buffer = <<>>
    /\ out = <<>>

emit_string(s) == out' = IF sink THEN out \o s ELSE out
emit(c) == emit_string(<<c>>)

HasFormat == "fmt" \in DOMAIN input

\* A null format is returned from at once.
null_format ==
    /\ pc = "scan" /\ ~HasFormat
    /\ pc' = "done"
    /\ UNCHANGED <<input, sink, pos, long, args, value, base, buffer, out>>

\* The characters of the format and its terminator; there is nothing behind it.
At(p) == IF p <= Len(input.fmt) THEN input.fmt[p] ELSE NUL
Inside(p) == p <= Len(input.fmt) + 1

\* Mutant: a lone % at the end is looked at again and again.
scan_LoneForever ==
    /\ pc = "scan" /\ HasFormat
    /\ CASE ~Inside(pos) -> pc' = "outside" /\ UNCHANGED <<pos, long, out>>
         [] Inside(pos) /\ At(pos) = NUL -> pc' = "done" /\ UNCHANGED <<pos, long, out>>
         [] At(pos) \notin {NUL, "%"} ->
                emit(At(pos)) /\ pos' = pos + 1 /\ UNCHANGED <<pc, long>>
         [] At(pos) = "%" /\ At(pos + 1) = NUL ->
                UNCHANGED <<pc, pos, long, out>>
         [] At(pos) = "%" /\ At(pos + 1) # NUL ->
                /\ long' = (At(pos + 1) = "l")
                /\ pos' = IF At(pos + 1) = "l" THEN pos + 2 ELSE pos + 1
                /\ pc' = "convert" /\ UNCHANGED out
    /\ UNCHANGED <<input, sink, args, value, base, buffer>>

\* Up to the conversion character, with its modifier; a lone % at the end is dropped.
\* Once behind the terminator, the scan is outside the format.
scan ==
    /\ pc = "scan" /\ HasFormat
    /\ CASE ~Inside(pos) -> pc' = "outside" /\ UNCHANGED <<pos, long, out>>
         [] Inside(pos) /\ At(pos) = NUL -> pc' = "done" /\ UNCHANGED <<pos, long, out>>
         [] At(pos) \notin {NUL, "%"} ->
                emit(At(pos)) /\ pos' = pos + 1 /\ UNCHANGED <<pc, long>>
         [] At(pos) = "%" /\ At(pos + 1) = NUL ->
                pc' = "done" /\ pos' = pos + 1 /\ UNCHANGED <<long, out>>
         [] At(pos) = "%" /\ At(pos + 1) # NUL ->
                /\ long' = (At(pos + 1) = "l")
                /\ pos' = IF At(pos + 1) = "l" THEN pos + 2 ELSE pos + 1
                /\ pc' = "convert" /\ UNCHANGED out
    /\ UNCHANGED <<input, sink, args, value, base, buffer>>

Bits == IF long THEN LongBits ELSE IntBits
ReadUnsigned == Head(args) % 2^Bits
ReadSigned == IF ReadUnsigned < 2^(Bits - 1) THEN ReadUnsigned ELSE ReadUnsigned - 2^Bits

\* Mutant: the one taken off is not added again.
Magnitude_OneLess(v) == (-(v + 1)) % 2^Bits

\* The magnitude of a negative number, computed without leaving its type.
Magnitude(v) == (((-(v + 1)) % 2^Bits) + 1) % 2^Bits

\* Every hexadecimal digit of a pointer, the highest first.
PointerDigits(v) ==
    [k \in 1 .. LongBits \div 4 |-> Digit((v \div 16^(LongBits \div 4 - k)) % 16)]

Consume == args' = Tail(args) /\ pos' = pos + 1
StartDigits(v, b) == value' = v /\ base' = b /\ buffer' = <<>> /\ pc' = "digits"
NoDigits == pc' = "scan" /\ UNCHANGED <<value, base, buffer>>

convert_text ==
    \/ /\ At(pos) = "%" /\ emit("%")
       /\ pos' = pos + 1 /\ UNCHANGED args
    \/ /\ At(pos) = "c" /\ emit(CharOf[Head(args)]) /\ Consume
    \/ /\ At(pos) = "s" /\ Consume
       /\ emit_string(IF Head(args) = nullptr THEN <<"(", "n", "u", "l", "l", ")">>
                                              ELSE StringAt[Head(args)])
    \/ /\ At(pos) = "p" /\ Consume
       /\ emit_string(<<"0", "x">> \o PointerDigits(Head(args)))

convert_number ==
    /\ At(pos) \in {"d", "u", "x"} /\ Consume
    /\ \/ /\ At(pos) = "d" /\ ReadSigned < 0
          /\ emit("-") /\ StartDigits(Magnitude(ReadSigned), 10)
       \/ /\ At(pos) = "d" /\ ReadSigned >= 0
          /\ StartDigits(ReadSigned, 10) /\ UNCHANGED out
       \/ /\ At(pos) = "u" /\ StartDigits(ReadUnsigned, 10) /\ UNCHANGED out
       \/ /\ At(pos) = "x" /\ StartDigits(ReadUnsigned, 16) /\ UNCHANGED out

convert_unknown ==
    /\ At(pos) \notin {"%", "c", "s", "d", "u", "x", "p"}
    /\ emit_string(<<"%">> \o (IF long THEN <<"l">> ELSE <<>>) \o <<At(pos)>>)
    /\ pos' = pos + 1 /\ UNCHANGED args

convert ==
    /\ pc = "convert"
    /\ \/ convert_number
       \/ (convert_text \/ convert_unknown) /\ NoDigits
    /\ UNCHANGED <<input, sink, long>>

\* Mutant: emit_hex shifts by three.
emit_digits_ShiftByThree ==
    /\ pc = "digits"
    /\ IF value # 0
       THEN /\ buffer' = Append(buffer, Digit(value % base))
            /\ value' = value \div (IF base = 16 THEN 8 ELSE base)
            /\ UNCHANGED <<pc, out>>
       ELSE /\ emit_string(IF buffer = <<>> THEN <<"0">> ELSE Reverse(buffer))
            /\ buffer' = <<>> /\ pc' = "scan" /\ UNCHANGED value
    /\ UNCHANGED <<input, sink, pos, long, args, base>>

\* One round of the loops of emit_unsigned and emit_hex, then the digits backwards.
emit_digits ==
    /\ pc = "digits"
    /\ IF value # 0
       THEN /\ buffer' = Append(buffer, Digit(value % base))
            /\ value' = value \div base
            /\ UNCHANGED <<pc, out>>
       ELSE /\ emit_string(IF buffer = <<>> THEN <<"0">> ELSE Reverse(buffer))
            /\ buffer' = <<>> /\ pc' = "scan" /\ UNCHANGED value
    /\ UNCHANGED <<input, sink, pos, long, args, base>>

Finished == pc \in {"done", "outside"} /\ UNCHANGED vars
Step == null_format \/ scan \/ convert \/ emit_digits
Next == Step \/ Finished
Spec == Init /\ [][Next]_vars /\ WF_vars(Step)

-----------------------------------------------------------------------------
(***************************************************************************)
(* Properties.                                                             *)
(***************************************************************************)

\* kprintf prints what the format means: text as it is, each conversion with its
\* own argument, the extreme values of both signed types included; without a sink
\* it prints nothing and still ends in the same place.
PrintsMeaning ==
    pc = "done" => /\ out = IF sink THEN input.means ELSE <<>>
                   /\ args = <<>>

\* The digit loops stay inside their buffers.
BufferFits == Len(buffer) <= IF base = 10 THEN DecBuffer ELSE HexBuffer

\* Every call returns: each loop uses up its number or the format.
PrintEnds == <>(pc = "done")

\* "Unknown format: print it literally": what is no conversion appears as written.
UnknownIsLiteral == pc \in {"done", "outside"} /\ sink => out = input.means
=============================================================================
