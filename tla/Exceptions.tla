------------------------------ MODULE Exceptions ------------------------------
(***************************************************************************)
(* CPU exceptions, from the descriptor tables the first lines of kmain     *)
(* install (src/src/arch/x86_64/gdt.cpp and idt.cpp) over the stubs of     *)
(* isr.S to the dump isr_handler prints.  An exception can come at any     *)
(* time: while kmain is still setting up, and while another is reported.   *)
(*                                                                         *)
(* A word on the stack is a pair of what it is and its number; descriptors *)
(* are sequences of bytes and addresses sequences of 16-bit words, lowest  *)
(* first.                                                                  *)
(***************************************************************************)
EXTENDS Naturals, Sequences, Functions

CONSTANTS
    Raised,         \* the vectors raised at each depth of exceptions within exceptions,
                    \* the last set also at every depth beyond
    StackDepth,     \* how many activations of isr_handler the stack has room for
    ErrorCodes,     \* error codes the CPU pushes
    Addresses       \* addresses page faults are about

VARIABLES
    pc,             \* the next call of kmain
    gdtr, idtr,     \* whose tables the CPU uses, "boot" or "kernel"
    cs, ss,         \* segment selectors
    initialized,    \* serial::initialized
    sink,           \* whether print has a sink
    cr2,
    state,          \* "alive", "triple fault", "lost" in the bootloader's IDT, or
                    \* "overrun" when the stack has been used up
    reports         \* the activations of isr_handler, the innermost last

kernel == <<pc, gdtr, idtr, cs, ss, initialized, sink>>
vars == <<kernel, cr2, state, reports>>

Bit(v, n) == (v \div 2^n) % 2

-----------------------------------------------------------------------------
(***************************************************************************)
(* Segment descriptors.                                                    *)
(***************************************************************************)

\* base and limit are below 2^31; the CPU ignores them in long mode.
make_descriptor(base, limit, access, flags) ==
    << limit % 256, (limit \div 2^8) % 256,
       base % 256, (base \div 2^8) % 256, (base \div 2^16) % 256,
       access,
       ((limit \div 2^16) % 16) + 16 * (flags % 16),
       (base \div 2^24) % 256 >>

null_descriptor == make_descriptor(0, 0, 0, 0)
kernel_code == make_descriptor(0, 1048575, 154, 10)
kernel_data == make_descriptor(0, 1048575, 146, 12)
user_data == make_descriptor(0, 1048575, 242, 12)
user_code == make_descriptor(0, 1048575, 250, 10)

gdt == <<null_descriptor, kernel_code, kernel_data, user_data, user_code>>

kKernelCodeSelector == 8
kKernelDataSelector == 16

\* What the CPU finds for a selector, and when it accepts it for CS and for SS.
Descriptor(sel) == gdt[sel \div 8 + 1]
Within(sel) == sel \div 8 + 1 \in DOMAIN gdt
Ring0(d) == Bit(d[6], 7) = 1 /\ Bit(d[6], 6) = 0 /\ Bit(d[6], 5) = 0 /\ Bit(d[6], 4) = 1
IsCode64(d) == Ring0(d) /\ Bit(d[6], 3) = 1 /\ Bit(d[7], 5) = 1 /\ Bit(d[7], 6) = 0
IsData(d) == Ring0(d) /\ Bit(d[6], 3) = 0 /\ Bit(d[6], 1) = 1
CodeOK(sel) == Within(sel) /\ IsCode64(Descriptor(sel))
DataOK(sel) == Within(sel) /\ IsData(Descriptor(sel))

-----------------------------------------------------------------------------
(***************************************************************************)
(* Gates and stubs.                                                        *)
(***************************************************************************)

make_entry(handler, selector, ist, type_attr) ==
    [offset_low |-> handler[1], selector |-> selector, ist |-> ist % 8,
     type_attr |-> type_attr, offset_mid |-> handler[2],
     offset_high |-> <<handler[3], handler[4]>>]

empty_entry == make_entry(<<0, 0, 0, 0>>, 0, 0, 0)

\* How the CPU reads a gate; an interrupt gate that is present has the type 0x8E.
GateOffset(g) == <<g.offset_low, g.offset_mid>> \o g.offset_high

\* Where the linker puts the stubs, in the top 2 GiB.
isr_stub_table == [v \in 0 .. 31 |-> <<4096 + 16 * v, 32768, 65535, 65535>>]

\* Mutant: the last vector is left out.
idt_OneShort ==
    [v \in 0 .. 255 |->
        IF v < 31 THEN make_entry(isr_stub_table[v], kKernelCodeSelector, 0, 142)
                  ELSE empty_entry]

idt ==
    [v \in 0 .. 255 |->
        IF v < 32 THEN make_entry(isr_stub_table[v], kKernelCodeSelector, 0, 142)
                  ELSE empty_entry]

\* Vectors for which the CPU pushes an error code, and those of ISR_ERROR.
CpuPushesCode == {8, 10, 11, 12, 13, 14, 17, 21, 29, 30}
ISR_ERROR == {8, 10, 11, 12, 13, 14, 17, 21, 29, 30}

GPR == <<"rax", "rbx", "rcx", "rdx", "rsi", "rdi", "rbp", "r8", "r9", "r10",
         "r11", "r12", "r13", "r14", "r15">>

\* The registers' contents, told apart by how many exceptions deep they were set.
Register(r, depth) == <<r, depth>>

\* Each pushes its words below what is there: the first of a sequence is the top.
cpu_push(v, code, depth) ==
    (IF v \in CpuPushesCode THEN << <<"code", code>> >> ELSE <<>>)
    \o << Register("rip", depth), <<"selector", cs>>, Register("rflags", depth),
          Register("rsp", depth), <<"selector", ss>> >>
isr_stub(v) ==
    IF v \in ISR_ERROR THEN << <<"vector", v>> >>
                       ELSE << <<"vector", v>>, <<"code", 0>> >>
isr_common(depth) == [k \in 1 .. 15 |-> Register(GPR[16 - k], depth)]
Below == << <<"caller", 0>>, <<"caller", 0>> >>

InterruptFrame ==
    <<"r15", "r14", "r13", "r12", "r11", "r10", "r9", "r8",
      "rbp", "rdi", "rsi", "rdx", "rcx", "rbx", "rax",
      "vector", "error_code", "rip", "cs", "rflags", "rsp", "ss">>

\* The fields of the structure isr_handler finds at the stack pointer.
Frame(words) ==
    [f \in Range(InterruptFrame) |->
        words[CHOOSE k \in DOMAIN InterruptFrame : InterruptFrame[k] = f]]

-----------------------------------------------------------------------------
(***************************************************************************)
(* The first lines of kmain.                                               *)
(***************************************************************************)

Init ==
    /\ pc = "gdt::init"
    /\ gdtr = "boot" /\ idtr = "boot" /\ cs = 40 /\ ss = 48
    /\ initialized = FALSE /\ sink = FALSE
    /\ cr2 = 0 /\ state = "alive" /\ reports = <<>>

InKmain(call) == state = "alive" /\ reports = <<>> /\ pc = call

\* lgdt, the far return that loads CS, and the loads of the data segments.  Before
\* idt::init a selector the CPU refuses has no handler to go to.
gdt_init ==
    /\ InKmain("gdt::init")
    /\ gdtr' = "kernel"
    /\ cs' = kKernelCodeSelector /\ ss' = kKernelDataSelector
    /\ state' = IF CodeOK(kKernelCodeSelector) /\ DataOK(kKernelDataSelector)
                THEN "alive" ELSE "triple fault"
    /\ pc' = "idt::init"
    /\ UNCHANGED <<idtr, initialized, sink, cr2, reports>>

idt_init ==
    /\ InKmain("idt::init")
    /\ idtr' = "kernel"
    /\ pc' = "serial::init"
    /\ UNCHANGED <<gdtr, cs, ss, initialized, sink, cr2, state, reports>>

\* kmain does not look at what serial::init returns.
serial_init ==
    /\ InKmain("serial::init")
    /\ initialized' \in BOOLEAN
    /\ pc' = "set_sink"
    /\ UNCHANGED <<gdtr, idtr, cs, ss, sink, cr2, state, reports>>

set_sink ==
    /\ InKmain("set_sink")
    /\ sink' = TRUE
    /\ pc' = "running"
    /\ UNCHANGED <<gdtr, idtr, cs, ss, initialized, cr2, state, reports>>

-----------------------------------------------------------------------------
(***************************************************************************)
(* An exception and its report.                                            *)
(***************************************************************************)

Depth == Len(reports)
RaisedHere == Raised[IF Depth < Len(Raised) THEN Depth + 1 ELSE Len(Raised)]
Up == initialized /\ sink

ErrorBits == <<"present", "write", "user", "reserved", "fetch">>
Decoded(code) == {<<ErrorBits[k], <<"bit", Bit(code, k - 1)>>>> : k \in DOMAIN ErrorBits}

\* What a complete and true report of this exception says: CR2 is 0 unless the
\* exception is a page fault.
Truth(v, code, address) ==
    {<<"vector", <<"vector", v>>>>, <<"name", <<"vector", v>>>>,
     <<"error_code", <<"code", IF v \in CpuPushesCode THEN code ELSE 0>>>>,
     <<"cr2", <<"address", IF v = 14 THEN address ELSE 0>>>>,
     <<"cs", <<"selector", cs>>>>, <<"ss", <<"selector", ss>>>>}
    \cup {<<r, Register(r, Depth)>> : r \in Range(GPR) \cup {"rip", "rflags", "rsp"}}
    \cup (IF v = 14 THEN Decoded(code) ELSE {})

\* The gate is a present interrupt gate to a stub, in a segment the CPU accepts.
GateOK(g) ==
    /\ g.type_attr = 142
    /\ gdtr = "kernel" /\ CodeOK(g.selector)
    /\ GateOffset(g) \in Range(isr_stub_table)

StubAt(address) == CHOOSE v \in 0 .. 31 : isr_stub_table[v] = address

\* Until idt::init an exception goes where the bootloader left it to.  ist is 0, so no
\* gate brings a stack of its own: each exception takes more of the one there is, and
\* the kernel keeps no count of them.  What happens past its end is not modelled.
raise(v, code, address) ==
    /\ state = "alive" /\ v \in RaisedHere
    /\ cr2' = IF v = 14 THEN address ELSE cr2
    /\ IF idtr = "kernel" /\ GateOK(idt[v]) /\ Depth < StackDepth
       THEN /\ reports' = Append(reports,
                  [frame |-> Frame(isr_common(Depth) \o isr_stub(StubAt(GateOffset(idt[v])))
                                   \o cpu_push(v, code, Depth) \o Below),
                   line |-> 1, cr2 |-> 0, shown |-> {}, up |-> Up,
                   truth |-> Truth(v, code, address)])
            /\ cs' = idt[v].selector
            /\ UNCHANGED state
       ELSE /\ state' = CASE idtr # "kernel" -> "lost"
                          [] idtr = "kernel" /\ ~GateOK(idt[v]) -> "triple fault"
                          [] OTHER -> "overrun"
            /\ UNCHANGED <<reports, cs>>
    /\ UNCHANGED <<pc, gdtr, idtr, ss, initialized, sink>>

Current == reports[Depth]
IsPageFault == Current.frame.vector = <<"vector", 14>>
Fields(names) == {<<f, Current.frame[f]>> : f \in names}

Halted == 8

\* Mutant: the error code is not decoded.
Shows_NoBits ==
    CASE Current.line = 2 -> Fields({"vector"})
      [] Current.line = 3 -> {<<"name", Current.frame.vector>>}
      [] Current.line = 4 -> Fields({"error_code"})
      [] Current.line = 6 -> {<<"cr2", <<"address", Current.cr2>>>>}
      [] Current.line = 7 -> Fields(Range(InterruptFrame) \ {"vector", "error_code"})
      [] OTHER -> {}

\* What the lines of the dump show: the vector, its name, the error code, its bits,
\* CR2, and the registers.  The first and the last show nothing.
Shows ==
    CASE Current.line = 2 -> Fields({"vector"})
      [] Current.line = 3 -> {<<"name", Current.frame.vector>>}
      [] Current.line = 4 -> Fields({"error_code"})
      [] Current.line = 5 -> IF IsPageFault THEN Decoded(Current.frame.error_code[2]) ELSE {}
      [] Current.line = 6 -> {<<"cr2", <<"address", Current.cr2>>>>}
      [] Current.line = 7 -> Fields(Range(InterruptFrame) \ {"vector", "error_code"})
      [] OTHER -> {}

\* serial::write needs the port, print::kprintf the sink as well.
Printed == IF Current.line = 3 THEN initialized ELSE Up

\* Mutant: the handler waits for a port that can print.
isr_handler_Waits ==
    /\ state = "alive" /\ reports # <<>> /\ Current.line < Halted
    /\ Printed
    /\ reports' = [reports EXCEPT
           ![Depth].line = @ + 1,
           ![Depth].cr2 = IF Current.line = 5 /\ IsPageFault THEN cr2 ELSE @,
           ![Depth].shown = @ \cup Shows]
    /\ UNCHANGED <<kernel, cr2, state>>

\* Mutant: the handler returns after its dump, to the exception it interrupted.
isr_handler_Returns ==
    /\ state = "alive" /\ reports # <<>>
    /\ reports' =
        IF Current.line = Halted THEN SubSeq(reports, 1, Depth - 1)
        ELSE [reports EXCEPT
           ![Depth].line = @ + 1,
           ![Depth].cr2 = IF Current.line = 5 /\ IsPageFault THEN cr2 ELSE @,
           ![Depth].shown = IF Printed THEN @ \cup Shows ELSE @]
    /\ UNCHANGED <<kernel, cr2, state>>

\* One part of the dump.  In the end the handler halts for good: it never returns.
isr_handler ==
    /\ state = "alive" /\ reports # <<>> /\ Current.line < Halted
    /\ reports' = [reports EXCEPT
           ![Depth].line = @ + 1,
           ![Depth].cr2 = IF Current.line = 5 /\ IsPageFault THEN cr2 ELSE @,
           ![Depth].shown = IF Printed THEN @ \cup Shows ELSE @]
    /\ UNCHANGED <<kernel, cr2, state>>

Boot == gdt_init \/ idt_init \/ serial_init \/ set_sink
Next ==
    \/ Boot \/ isr_handler
    \/ \E v \in 0 .. 31, code \in ErrorCodes, address \in Addresses : raise(v, code, address)

\* The CPU runs on; nothing says that an exception ever comes.
Spec == Init /\ [][Next]_vars /\ WF_vars(Boot) /\ WF_vars(isr_handler)

-----------------------------------------------------------------------------
(***************************************************************************)
(* Properties.                                                             *)
(***************************************************************************)

\* Whatever a report shows is what the CPU held when its own exception came, each
\* register under its own name, with error code or without, and also when another
\* exception came in between.
ReportIsTrue == \A k \in DOMAIN reports : reports[k].shown \subseteq reports[k].truth

\* An exception that comes once kmain has the port and the sink is reported
\* completely before the handler halts.
ReportIsComplete ==
    \A k \in DOMAIN reports :
        reports[k].up /\ reports[k].line = Halted => reports[k].shown = reports[k].truth

\* An exception that is reported ends in the halt of a report.  Exceptions within
\* reports can put that off, but not for ever: when every dump raises another, the
\* stack is used up, and nothing else keeps the machine from halting.
ReportEnds ==
    reports # <<>> ~> (reports # <<>> /\ Current.line = Halted) \/ state = "overrun"

\* "All 32 CPU exception vectors are handled": with the kernel's tables in place
\* none ends in a triple fault for want of a gate, while the stack lasts.
AllVectorsHandled == state # "triple fault"
=============================================================================
