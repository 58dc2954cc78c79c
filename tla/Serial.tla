-------------------------------- MODULE Serial --------------------------------
(***************************************************************************)
(* The driver of COM1 (src/src/arch/x86_64/serial.cpp) and the 16550 it    *)
(* drives.  The driver runs one call at a time and touches the device by   *)
(* port accesses only, one step each; between any two of them the device   *)
(* may shift a byte out, and the other end of the line may send one.       *)
(***************************************************************************)
EXTENDS Naturals, Sequences

CONSTANTS
    Timeout,    \* polls of the line status before a wait gives up, 100000
    Bauds,      \* rates init is called with
    Texts,      \* strings write is called with, sequences of character codes
    PeerBytes,  \* bytes the other end may send
    FifoSize,   \* bytes a FIFO of the device holds, 16
    MaxCalls,   \* bound: calls of the driver
    MaxArrivals \* bound: bytes the other end sends

VARIABLES
    uart,           \* the device: its registers and FIFOs
    initialized,    \* the driver's only state
    pc,             \* what the driver is doing, "idle" between calls
    todo,           \* init: port writes still to make; write: characters left
    out,            \* characters the current putc still has to send
    polls,          \* polls the current wait has left
    echo,           \* init: whether the self-test saw its byte
    baud, calls, arrivals,
    \* Histories since the FIFOs were last cleared:
    wire,           \* bytes that left on the line
    sent,           \* bytes putc gave the device
    arrived, got,   \* bytes received by the device, and returned by getc
    said, late      \* characters passed to putc, and waits of putc in vain

history == <<sent, got, said, late>>
vars == <<uart, initialized, pc, todo, out, polls, echo, baud, calls, arrivals,
          wire, sent, arrived, got, said, late>>

CR == 13
NL == 10
LOOPBACK_TEST_BYTE == 174

\* Port offsets; DivisorLow and DivisorHigh share theirs with Data and InterruptEnable.
Data == 0
InterruptEnable == 1
FifoControl == 2
LineControl == 3
ModemControl == 4

Bit(v, n) == (v \div 2^n) % 2 = 1

ASSUME SerialAssumption ==
    /\ Timeout \in Nat \ {0} /\ FifoSize \in Nat \ {0}
    /\ MaxCalls \in Nat /\ MaxArrivals \in Nat
    /\ Bauds \subseteq Nat
    /\ Texts \subseteq Seq(0 .. 255)
    /\ PeerBytes \subseteq 0 .. 255

-----------------------------------------------------------------------------
(***************************************************************************)
(* The device.                                                             *)
(***************************************************************************)

\* A byte that finds its FIFO full is lost.
Push(fifo, b) == IF Len(fifo) < FifoSize THEN Append(fifo, b) ELSE fifo

UartWrite(port, v) ==
    IF ~uart.present THEN uart
    ELSE CASE port = Data -> IF uart.dlab THEN [uart EXCEPT !.dll = v]
                                          ELSE [uart EXCEPT !.tx = Push(@, v)]
           [] port = InterruptEnable -> IF uart.dlab THEN [uart EXCEPT !.dlm = v]
                                                     ELSE [uart EXCEPT !.ier = v]
           [] port = FifoControl -> [uart EXCEPT !.rx = IF Bit(v, 1) THEN <<>> ELSE @,
                                                 !.tx = IF Bit(v, 2) THEN <<>> ELSE @]
           [] port = LineControl -> [uart EXCEPT !.dlab = Bit(v, 7)]
           [] port = ModemControl -> [uart EXCEPT !.loop = Bit(v, 4)]

\* The line status bits the driver looks at.  Without a device a port reads 255.
DR == ~uart.present \/ uart.rx # <<>>
THRE == ~uart.present \/ uart.tx = <<>>
DataRead == IF uart.present THEN Head(uart.rx) ELSE 255
AfterDataRead == IF uart.present THEN [uart EXCEPT !.rx = Tail(@)] ELSE uart

Transmit ==
    /\ uart.tx # <<>>
    /\ uart' = [uart EXCEPT !.tx = Tail(@),
                            !.rx = IF uart.loop THEN Push(@, Head(uart.tx)) ELSE @]
    /\ wire' = IF uart.loop THEN wire ELSE Append(wire, Head(uart.tx))
    /\ UNCHANGED <<initialized, pc, todo, out, polls, echo, baud, calls,
                   arrivals, arrived, history>>

\* In loopback the receiver is cut off from the line.
Arrive(b) ==
    /\ uart.present /\ ~uart.loop
    /\ arrivals < MaxArrivals
    /\ arrivals' = arrivals + 1
    /\ uart' = [uart EXCEPT !.rx = Push(@, b)]
    /\ arrived' = IF Len(uart.rx) < FifoSize THEN Append(arrived, b) ELSE arrived
    /\ UNCHANGED <<initialized, pc, todo, out, polls, echo, baud, calls, wire, history>>

-----------------------------------------------------------------------------
(***************************************************************************)
(* The driver.                                                             *)
(***************************************************************************)

Init ==
    /\ uart \in [present : BOOLEAN, dlab : {FALSE}, loop : {FALSE}, ier : {1},
                 dll : {1}, dlm : {0}, tx : {<<>>}, rx : {<<>>}]
    /\ initialized = FALSE
    /\ pc = "idle" /\ todo = <<>> /\ out = <<>> /\ polls = 0 /\ echo = FALSE
    /\ baud = 0 /\ calls = 0 /\ arrivals = 0
    /\ wire = <<>> /\ sent = <<>> /\ arrived = <<>> /\ got = <<>>
    /\ said = <<>> /\ late = 0

Call == pc = "idle" /\ calls < MaxCalls /\ calls' = calls + 1

divisor(b) == 115200 \div b
BaudOK(b) == b # 0 /\ divisor(b) # 0 /\ divisor(b) <= 65535

\* Mutant: the divisor's bytes are swapped.
InitWrites_Swapped(d) ==
    << <<InterruptEnable, 0>>, <<LineControl, 128>>,
       <<Data, (d \div 256) % 256>>, <<InterruptEnable, d % 256>>,
       <<LineControl, 3>>, <<FifoControl, 199>>, <<ModemControl, 3>>,
       <<ModemControl, 30>>, <<Data, LOOPBACK_TEST_BYTE>> >>

\* Mutant: the FIFOs are enabled and not cleared.
InitWrites_NotCleared(d) ==
    << <<InterruptEnable, 0>>, <<LineControl, 128>>,
       <<Data, d % 256>>, <<InterruptEnable, (d \div 256) % 256>>,
       <<LineControl, 3>>, <<FifoControl, 193>>, <<ModemControl, 3>>,
       <<ModemControl, 30>>, <<Data, LOOPBACK_TEST_BYTE>> >>

\* The port writes of init up to the wait for the echo.
InitWrites(d) ==
    << <<InterruptEnable, 0>>, <<LineControl, 128>>,
       <<Data, d % 256>>, <<InterruptEnable, (d \div 256) % 256>>,
       <<LineControl, 3>>, <<FifoControl, 199>>, <<ModemControl, 3>>,
       <<ModemControl, 30>>, <<Data, LOOPBACK_TEST_BYTE>> >>

init(b) ==
    /\ Call
    /\ IF BaudOK(b)
       THEN /\ initialized' = FALSE
            /\ todo' = InitWrites(divisor(b))
            /\ baud' = b
            /\ pc' = "program"
       ELSE UNCHANGED <<initialized, todo, baud, pc>>
    /\ UNCHANGED <<uart, out, polls, echo, arrivals, wire, arrived, history>>

\* Clearing the FIFOs starts the histories afresh.
init_program ==
    /\ pc = "program"
    /\ uart' = UartWrite(Head(todo)[1], Head(todo)[2])
    /\ todo' = Tail(todo)
    /\ IF Len(todo) = 1 THEN pc' = "wait_echo" /\ polls' = Timeout
                        ELSE UNCHANGED <<pc, polls>>
    /\ IF Head(todo)[1] = FifoControl
       THEN /\ wire' = <<>> /\ sent' = <<>> /\ arrived' = <<>> /\ got' = <<>>
            /\ said' = <<>> /\ late' = 0
       ELSE UNCHANGED <<wire, arrived, history>>
    /\ UNCHANGED <<initialized, out, echo, baud, calls, arrivals>>

\* Mutant: the wait has no limit.
wait_for_Forever ==
    /\ pc \in {"wait_echo", "wait_tx", "wait_rx"}
    /\ IF (IF pc = "wait_tx" THEN THRE ELSE DR)
       THEN pc' = CASE pc = "wait_echo" -> "read_echo"
                    [] pc = "wait_tx" -> "send"
                    [] pc = "wait_rx" -> "read"
       ELSE UNCHANGED pc
    /\ UNCHANGED <<uart, initialized, todo, out, polls, echo, baud, calls, arrivals,
                   wire, arrived, history>>

\* One poll of the line status.
wait_for ==
    /\ pc \in {"wait_echo", "wait_tx", "wait_rx"}
    /\ polls > 0
    /\ IF (IF pc = "wait_tx" THEN THRE ELSE DR)
       THEN /\ pc' = CASE pc = "wait_echo" -> "read_echo"
                       [] pc = "wait_tx" -> "send"
                       [] pc = "wait_rx" -> "read"
            /\ UNCHANGED polls
       ELSE polls' = polls - 1 /\ UNCHANGED pc
    /\ UNCHANGED <<uart, initialized, todo, out, echo, baud, calls, arrivals,
                   wire, arrived, history>>

TimedOut == polls = 0

\* Mutant: the echo is looked at and left in the FIFO.
init_echo_Peeks ==
    /\ \/ pc = "wait_echo" /\ TimedOut /\ echo' = FALSE
       \/ pc = "read_echo" /\ echo' = (DataRead = LOOPBACK_TEST_BYTE)
    /\ pc' = "finish"
    /\ UNCHANGED <<uart, initialized, todo, out, polls, baud, calls, arrivals,
                   wire, arrived, history>>

init_echo ==
    /\ \/ /\ pc = "wait_echo" /\ TimedOut
          /\ echo' = FALSE
          /\ UNCHANGED uart
       \/ /\ pc = "read_echo"
          /\ echo' = (DataRead = LOOPBACK_TEST_BYTE)
          /\ uart' = AfterDataRead
    /\ pc' = "finish"
    /\ UNCHANGED <<initialized, todo, out, polls, baud, calls, arrivals,
                   wire, arrived, history>>

\* Mutant: a failed self-test leaves the device in loopback.
init_finish_NoRestore ==
    /\ pc = "finish"
    /\ uart' = IF echo THEN UartWrite(ModemControl, 15) ELSE uart
    /\ initialized' = echo
    /\ pc' = "idle"
    /\ UNCHANGED <<todo, out, polls, echo, baud, calls, arrivals,
                   wire, arrived, history>>

init_finish ==
    /\ pc = "finish"
    /\ uart' = UartWrite(ModemControl, IF echo THEN 15 ELSE 0)
    /\ initialized' = echo
    /\ pc' = "idle"
    /\ UNCHANGED <<todo, out, polls, echo, baud, calls, arrivals,
                   wire, arrived, history>>

\* Without init every putc of write returns at once.
write(s) ==
    /\ Call
    /\ IF initialized THEN todo' = s /\ pc' = "putc" ELSE UNCHANGED <<todo, pc>>
    /\ UNCHANGED <<uart, initialized, out, polls, echo, baud, arrivals,
                   wire, arrived, history>>

\* Mutant: the carriage return follows the newline.
putc_NewlineFirst ==
    /\ pc = "putc"
    /\ IF todo = <<>>
       THEN pc' = "idle" /\ UNCHANGED <<todo, out, polls, said>>
       ELSE /\ out' = IF Head(todo) = NL THEN <<NL, CR>> ELSE <<Head(todo)>>
            /\ todo' = Tail(todo)
            /\ pc' = "wait_tx" /\ polls' = Timeout
            /\ said' = Append(said, Head(todo))
    /\ UNCHANGED <<uart, initialized, echo, baud, calls, arrivals,
                   wire, arrived, sent, got, late>>

\* A newline first makes putc call itself with a carriage return.
putc ==
    /\ pc = "putc"
    /\ IF todo = <<>>
       THEN pc' = "idle" /\ UNCHANGED <<todo, out, polls, said>>
       ELSE /\ out' = IF Head(todo) = NL THEN <<CR, NL>> ELSE <<Head(todo)>>
            /\ todo' = Tail(todo)
            /\ pc' = "wait_tx" /\ polls' = Timeout
            /\ said' = Append(said, Head(todo))
    /\ UNCHANGED <<uart, initialized, echo, baud, calls, arrivals,
                   wire, arrived, sent, got, late>>

\* Mutant: a wait in vain is taken for success.
putc_send_Anyway ==
    /\ pc = "send" \/ (pc = "wait_tx" /\ TimedOut)
    /\ uart' = UartWrite(Data, Head(out))
    /\ sent' = Append(sent, Head(out))
    /\ out' = Tail(out)
    /\ IF Len(out) = 1 THEN pc' = "putc" /\ UNCHANGED polls
                       ELSE pc' = "wait_tx" /\ polls' = Timeout
    /\ UNCHANGED <<initialized, todo, echo, baud, calls, arrivals,
                   wire, arrived, got, said, late>>

putc_send ==
    /\ \/ /\ pc = "send"
          /\ uart' = UartWrite(Data, Head(out))
          /\ sent' = Append(sent, Head(out))
          /\ UNCHANGED late
       \/ /\ pc = "wait_tx" /\ TimedOut
          /\ late' = late + 1
          /\ UNCHANGED <<uart, sent>>
    /\ out' = Tail(out)
    /\ IF Len(out) = 1 THEN pc' = "putc" /\ UNCHANGED polls
                       ELSE pc' = "wait_tx" /\ polls' = Timeout
    /\ UNCHANGED <<initialized, todo, echo, baud, calls, arrivals,
                   wire, arrived, got, said>>

getc ==
    /\ Call
    /\ IF initialized THEN pc' = "wait_rx" /\ polls' = Timeout
                      ELSE UNCHANGED <<pc, polls>>
    /\ UNCHANGED <<uart, initialized, todo, out, echo, baud, arrivals,
                   wire, arrived, history>>

\* A wait in vain makes getc return -1.
getc_read ==
    /\ \/ /\ pc = "read"
          /\ got' = Append(got, DataRead)
          /\ uart' = AfterDataRead
       \/ /\ pc = "wait_rx" /\ TimedOut
          /\ UNCHANGED <<got, uart>>
    /\ pc' = "idle"
    /\ UNCHANGED <<initialized, todo, out, polls, echo, baud, calls, arrivals,
                   wire, arrived, sent, said, late>>

Driver == init_program \/ wait_for \/ init_echo \/ init_finish
          \/ putc \/ putc_send \/ getc_read
Calls == getc \/ (\E b \in Bauds : init(b)) \/ (\E s \in Texts : write(s))
Device == Transmit \/ \E b \in PeerBytes : Arrive(b)

Next == Driver \/ Calls \/ Device

\* The driver runs on; the device owes it nothing.
Spec == Init /\ [][Next]_vars /\ WF_vars(Driver)

-----------------------------------------------------------------------------
(***************************************************************************)
(* Properties.                                                             *)
(***************************************************************************)

\* In service, the line carries exactly what putc gave the device, in order:
\* putc never writes to a full FIFO, and no byte of the self-test of init
\* escapes to the line.
OutputFaithful == initialized => wire \o uart.tx = sent

\* In service, getc returns exactly the bytes the device received, in order,
\* none twice, and never the byte init sent itself in the self-test.
InputFaithful == initialized => got \o uart.rx = arrived

\* init reports success only for a device that is there, with interrupts off
\* and the divisor of the rate last asked for behind the divisor latch.
ReadyMeansConfigured ==
    initialized => /\ uart.present /\ uart.ier = 0
                   /\ uart.dll + 256 * uart.dlm = divisor(baud)

\* Between calls the device is never in loopback nor its divisor latch open,
\* whichever way init ended ("Restore normal state before reporting failure.").
NormalStateRestored == pc = "idle" => ~uart.loop /\ ~uart.dlab

\* Every call returns, whatever the device does: all waits are bounded.
CallsEnd == pc # "idle" ~> pc = "idle"

\* A device that is there and answers in time fails init's self-test only when a
\* byte came from the line between the clearing of the FIFOs and the loopback:
\* nothing older, of an earlier init or of traffic before it, is taken for the echo.
FailsOnlyOnNoise ==
    pc = "finish" /\ uart.present /\ polls > 0 /\ ~echo => arrived # <<>>
=============================================================================
