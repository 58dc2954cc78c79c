---------------------------- MODULE SerialProofs -----------------------------
(***************************************************************************)
(* Proofs about the serial port, for every number of polls, FIFO size,     *)
(* rate, text, and interleaving of the driver with the device and with the *)
(* other end of the line.                                                  *)
(***************************************************************************)
EXTENDS Serial, TLAPS

Byte == 0 .. 255

UartType ==
    [present : BOOLEAN, dlab : BOOLEAN, loop : BOOLEAN, ier : Byte, dll : Byte, dlm : Byte,
     tx : Seq(Byte), rx : Seq(Byte)]

SelfTest == {"wait_echo", "read_echo", "finish"}
Initializing == {"program"} \cup SelfTest
InService == {"putc", "wait_tx", "send", "wait_rx", "read"}

\* The last writes of init are left, in order.
PortWrites == Nat \X Nat
Programming ==
    /\ todo \in Seq(PortWrites) /\ Len(todo) > 0 /\ Len(todo) <= 9
    /\ \A k \in 1 .. Len(todo) : todo[k] = InitWrites(divisor(baud))[9 - Len(todo) + k]

Types ==
    /\ uart \in UartType /\ Len(uart.rx) <= FifoSize
    /\ initialized \in BOOLEAN /\ echo \in BOOLEAN
    /\ pc \in {"idle"} \cup Initializing \cup InService
    /\ polls \in Nat /\ baud \in Nat
    /\ wire \in Seq(Byte) /\ sent \in Seq(Byte) /\ arrived \in Seq(Byte) /\ got \in Seq(Byte)
    /\ pc = "program" => Programming
    /\ pc \in {"putc", "wait_tx", "send"} => todo \in Seq(Byte)
    /\ pc \in {"wait_tx", "send"} => out \in Seq(Byte) /\ out # <<>>

\* init has at most n writes left to make, or has made all of them.
Past(n) == initialized \/ pc \in SelfTest \/ (pc = "program" /\ Len(todo) <= n)

\* Which calls run when, and in which mode the device then is.
Modes ==
    /\ pc \in Initializing => ~initialized /\ BaudOK(baud)
    /\ pc \in InService => initialized
    /\ initialized => uart.present /\ BaudOK(baud)
    /\ ~uart.present => uart.tx = <<>> /\ uart.rx = <<>>
    /\ uart.dlab <=> uart.present /\ pc = "program" /\ Len(todo) \in 5 .. 7
    /\ uart.loop <=> uart.present /\ (pc \in SelfTest \/ (pc = "program" /\ Len(todo) = 1))

\* The registers init has set so far.
LowByte(d) == d % 256
HighByte(d) == (d \div 256) % 256
Registers ==
    uart.present =>
        /\ Past(8) => uart.ier = 0
        /\ Past(6) => uart.dll = LowByte(divisor(baud))
        /\ Past(5) => uart.dlm = HighByte(divisor(baud))

\* From the clearing of the FIFOs to the end of init the receiver holds what
\* came from the line before the loopback, and behind it, if there was room, the
\* test byte once it has gone round.
Window ==
    uart.present =>
        /\ pc \in SelfTest \/ (pc = "program" /\ Len(todo) <= 3) =>
              wire = <<>> /\ sent = <<>> /\ got = <<>> /\ Len(arrived) <= FifoSize
        /\ pc = "program" /\ Len(todo) <= 3 => uart.tx = <<>> /\ uart.rx = arrived
        /\ pc \in {"wait_echo", "read_echo"} =>
              \/ uart.tx = <<LOOPBACK_TEST_BYTE>> /\ uart.rx = arrived
              \/ uart.tx = <<>> /\ uart.rx = Push(arrived, LOOPBACK_TEST_BYTE)
        /\ pc = "finish" /\ arrived = <<>> =>
              /\ polls > 0 => echo
              /\ echo => uart.tx = <<>> /\ uart.rx = <<>>
        /\ pc = "finish" /\ arrived # <<>> /\ echo => arrived[1] = LOOPBACK_TEST_BYTE

\* What a poll has seen is still there: only the driver fills the transmitter
\* and empties the receiver.
Polled ==
    /\ pc = "send" => uart.tx = <<>>
    /\ pc \in {"read_echo", "read"} /\ uart.present => uart.rx # <<>>
    /\ pc = "finish" /\ echo => uart.present

Inv == Types /\ Modes /\ Registers /\ Window /\ Polled

Service == OutputFaithful /\ InputFaithful

\* Nothing that came from the line between the clearing of the FIFOs and the
\* loopback looks like the test byte.
NoFalseEcho ==
    pc = "finish" => \A k \in DOMAIN arrived : arrived[k] # LOOPBACK_TEST_BYTE

-----------------------------------------------------------------------------
(***************************************************************************)
(* The device's record, field by field.                                    *)
(***************************************************************************)

SameModes(u, w) == w.present = u.present /\ w.dlab = u.dlab /\ w.loop = u.loop
SameRegisters(u, w) == w.ier = u.ier /\ w.dll = u.dll /\ w.dlm = u.dlm
SameFifos(u, w) == w.tx = u.tx /\ w.rx = u.rx

\* The types of the fields.
LEMMA Fields ==
    ASSUME NEW u \in UartType
    PROVE  /\ u.present \in BOOLEAN /\ u.dlab \in BOOLEAN /\ u.loop \in BOOLEAN
           /\ u.ier \in Byte /\ u.dll \in Byte /\ u.dlm \in Byte
           /\ u.tx \in Seq(Byte) /\ u.rx \in Seq(Byte)
BY Zenon DEF UartType

\* A change of one register, or of the FIFOs, leaves the others alone.
WithDlab(u, b) == [u EXCEPT !.dlab = b]
WithLoop(u, b) == [u EXCEPT !.loop = b]
WithIer(u, v) == [u EXCEPT !.ier = v]
WithDll(u, v) == [u EXCEPT !.dll = v]
WithDlm(u, v) == [u EXCEPT !.dlm = v]
WithFifos(u, t, r) == [u EXCEPT !.tx = t, !.rx = r]

\* DLAB alone: a write of LCR selects the divisor registers or the data ones.
LEMMA SetDlab ==
    ASSUME NEW u \in UartType, NEW b \in BOOLEAN
    PROVE  LET w == WithDlab(u, b)
           IN  /\ w \in UartType /\ SameRegisters(u, w) /\ SameFifos(u, w)
               /\ w.present = u.present /\ w.dlab = b /\ w.loop = u.loop
BY Zenon DEF UartType, SameModes, SameRegisters, SameFifos, WithDlab

\* Loopback alone: a write of MCR closes or opens the loop.
LEMMA SetLoop ==
    ASSUME NEW u \in UartType, NEW b \in BOOLEAN
    PROVE  LET w == WithLoop(u, b)
           IN  /\ w \in UartType /\ SameRegisters(u, w) /\ SameFifos(u, w)
               /\ w.present = u.present /\ w.dlab = u.dlab /\ w.loop = b
BY Zenon DEF UartType, SameModes, SameRegisters, SameFifos, WithLoop

\* The interrupt-enable register alone.
LEMMA SetIer ==
    ASSUME NEW u \in UartType, NEW v \in Byte
    PROVE  LET w == WithIer(u, v)
           IN  /\ w \in UartType /\ SameModes(u, w) /\ SameFifos(u, w)
               /\ w.ier = v /\ w.dll = u.dll /\ w.dlm = u.dlm
BY Zenon DEF UartType, SameModes, SameRegisters, SameFifos, WithIer

\* The low byte of the divisor alone.
LEMMA SetDll ==
    ASSUME NEW u \in UartType, NEW v \in Byte
    PROVE  LET w == WithDll(u, v)
           IN  /\ w \in UartType /\ SameModes(u, w) /\ SameFifos(u, w)
               /\ w.ier = u.ier /\ w.dll = v /\ w.dlm = u.dlm
BY Zenon DEF UartType, SameModes, SameRegisters, SameFifos, WithDll

\* The high byte of the divisor alone.
LEMMA SetDlm ==
    ASSUME NEW u \in UartType, NEW v \in Byte
    PROVE  LET w == WithDlm(u, v)
           IN  /\ w \in UartType /\ SameModes(u, w) /\ SameFifos(u, w)
               /\ w.ier = u.ier /\ w.dll = u.dll /\ w.dlm = v
BY Zenon DEF UartType, SameModes, SameRegisters, SameFifos, WithDlm

FifosSet(u, w, t, r) ==
    /\ w \in UartType /\ SameModes(u, w) /\ SameRegisters(u, w)
    /\ w.tx = t /\ w.rx = r

\* The two FIFOs alone.
LEMMA SetFifos ==
    ASSUME NEW u \in UartType, NEW t \in Seq(Byte), NEW r \in Seq(Byte)
    PROVE  FifosSet(u, WithFifos(u, t, r), t, r)
BY Zenon DEF UartType, SameModes, SameRegisters, WithFifos, FifosSet

\* One FIFO changed is both changed, one of them to itself.
LEMMA SetOneFifo ==
    ASSUME NEW u \in UartType, NEW t \in Seq(Byte), NEW r \in Seq(Byte)
    PROVE  /\ [u EXCEPT !.tx = t] = WithFifos(u, t, u.rx)
           /\ [u EXCEPT !.rx = r] = WithFifos(u, u.tx, r)
<1>1. [u EXCEPT !.tx = t] = WithFifos(u, t, u.rx)
  BY Zenon DEF UartType, WithFifos
<1>2. [u EXCEPT !.rx = r] = WithFifos(u, u.tx, r)
  BY Zenon DEF UartType, WithFifos
<1> QED BY <1>1, <1>2

\* The first of a sequence and the rest.
LEMMA Queue ==
    ASSUME NEW S, NEW q \in Seq(S)
    PROVE  /\ Len(q) \in Nat /\ (q # <<>> <=> Len(q) > 0)
           /\ Len(q) > 0 => /\ Head(q) = q[1] /\ Head(q) \in S
                            /\ Tail(q) \in Seq(S) /\ Len(Tail(q)) = Len(q) - 1
OBVIOUS

\* A byte added to a FIFO.
LEMMA PushType ==
    ASSUME NEW q \in Seq(Byte), NEW b \in Byte, Len(q) <= FifoSize
    PROVE  Push(q, b) \in Seq(Byte) /\ Len(Push(q, b)) <= FifoSize
BY SerialAssumption DEF Push

-----------------------------------------------------------------------------
(***************************************************************************)
(* Every action preserves Inv.                                             *)
(***************************************************************************)

\* Before serial::init the port holds nothing the driver has put there.
LEMMA InitInv == Init => Inv
<1> SUFFICES ASSUME Init PROVE Inv
  OBVIOUS
<1>1. <<>> \in Seq(Byte) /\ 1 \in Byte /\ 0 \in Byte
  BY DEF Byte
<1>2. /\ uart \in UartType
      /\ uart.dlab = FALSE /\ uart.loop = FALSE /\ uart.tx = <<>> /\ uart.rx = <<>>
  BY <1>1, Zenon DEF Init, UartType
<1>3. /\ initialized = FALSE
      /\ pc = "idle" /\ todo = <<>> /\ out = <<>> /\ polls = 0 /\ echo = FALSE
      /\ baud = 0 /\ wire = <<>> /\ sent = <<>> /\ arrived = <<>> /\ got = <<>>
  BY DEF Init
<1> HIDE DEF Init
<1>4. Types
  <2>1. Len(uart.rx) <= FifoSize
    BY <1>2, SerialAssumption
  <2> QED BY <1>1, <1>2, <1>3, <2>1, Zenon DEF Types
<1>5. Modes
  BY <1>2, <1>3, Fields DEF Modes, Initializing, SelfTest, InService
<1>6. Registers
  <2>1. ~Past(8) /\ ~Past(6) /\ ~Past(5)
    BY <1>3 DEF Past, SelfTest
  <2> QED BY <2>1, Zenon DEF Registers
<1>7. Window
  BY <1>3, Zenon DEF Window, SelfTest
<1>8. Polled
  BY <1>3 DEF Polled
<1> QED BY <1>4, <1>5, <1>6, <1>7, <1>8 DEF Inv

\* The bytes a divisor is written as.
LEMMA DivisorBytes ==
    ASSUME NEW b \in Nat, BaudOK(b)
    PROVE  /\ LowByte(divisor(b)) \in Nat /\ LowByte(divisor(b)) \in Byte
           /\ HighByte(divisor(b)) \in Nat /\ HighByte(divisor(b)) \in Byte
           /\ LowByte(divisor(b)) + 256 * HighByte(divisor(b)) = divisor(b)
<1>1. divisor(b) \in Nat /\ divisor(b) <= 65535
  BY SMT DEF BaudOK, divisor
<1> QED BY <1>1, SMT DEF Byte, LowByte, HighByte

\* The types of the state, field by field: the provers need them to read the
\* invariant.
LEMMA InvFields ==
    ASSUME Inv
    PROVE  /\ uart.present \in BOOLEAN /\ uart.dlab \in BOOLEAN /\ uart.loop \in BOOLEAN
           /\ uart.ier \in Byte /\ uart.dll \in Byte /\ uart.dlm \in Byte
           /\ uart.tx \in Seq(Byte) /\ uart.rx \in Seq(Byte)
           /\ uart \in UartType
BY Fields, Zenon DEF Inv, Types

\* A step that changes none of the state Inv speaks of preserves it.
LEMMA SameInv ==
    ASSUME Inv, UNCHANGED <<uart, initialized, pc, baud, todo, out, polls, echo,
                            wire, arrived, sent, got>>
    PROVE  Inv'
<1> USE DEF Inv
<1>1. Programming' <=> Programming
  BY Zenon DEF Programming
<1>2. Types'
  BY <1>1, Zenon DEF Types
<1>3. Modes'
  BY Zenon DEF Modes
<1>4. Registers'
  BY Zenon DEF Registers, Past
<1>5. Window'
  BY Zenon DEF Window
<1>6. Polled'
  BY Zenon DEF Polled
<1> QED BY <1>2, <1>3, <1>4, <1>5, <1>6

\* Calls change neither the device nor the histories.
LEMMA CallKeepsInv ==
    ASSUME Inv, Calls
    PROVE  Inv'
<1> USE InvFields DEF Inv
<1>1. ASSUME NEW b \in Bauds, init(b), BaudOK(b) PROVE Inv'
  <2>1. /\ b \in Nat /\ pc = "idle" /\ initialized' = FALSE /\ baud' = b /\ pc' = "program"
        /\ UNCHANGED <<uart, out, polls, echo, arrivals, wire, arrived, sent, got>>
    BY <1>1, SerialAssumption DEF init, Call, history
  <2>2. Programming' /\ Len(todo') = 9
    <3>1. todo' = InitWrites(divisor(b))
      BY <1>1 DEF init
    <3>2. InitWrites(divisor(b)) \in Seq(PortWrites) /\ Len(InitWrites(divisor(b))) = 9
      <4>1. LowByte(divisor(b)) \in Nat /\ HighByte(divisor(b)) \in Nat
        BY DivisorBytes, <2>1, <1>1, SMT
      <4> QED BY <4>1 DEF PortWrites, LowByte, HighByte, InitWrites, Data, LineControl, InterruptEnable, FifoControl, ModemControl, LOOPBACK_TEST_BYTE
    <3> HIDE DEF InitWrites
    <3> QED BY <2>1, <3>1, <3>2 DEF Programming
  <2>3. Types'
    BY <2>1, <2>2, Zenon DEF Types, Initializing
  <2>4. Modes'
    BY <2>1, <2>2, <1>1 DEF Modes, Initializing, InService, SelfTest
  <2>5. Registers'
    BY <2>1, <2>2 DEF Registers, Past, SelfTest
  <2>6. Window'
    BY <2>1, <2>2 DEF Window, SelfTest
  <2>7. Polled'
    BY <2>1 DEF Polled
  <2> QED BY <2>3, <2>4, <2>5, <2>6, <2>7
<1>2. ASSUME NEW s \in Texts, write(s), initialized PROVE Inv'
  <2>1. /\ s \in Seq(Byte) /\ pc = "idle" /\ todo' = s /\ pc' = "putc"
        /\ UNCHANGED <<uart, initialized, baud, out, polls, echo, wire, arrived, sent, got>>
    BY <1>2, SerialAssumption DEF write, Call, history, Byte
  <2>2. Types'
    BY <2>1, Zenon DEF Types, InService
  <2>3. Modes'
    BY <1>2, <2>1 DEF Modes, Initializing, InService, SelfTest
  <2>4. Registers'
    BY <1>2, <2>1, Zenon DEF Registers, Past, SelfTest
  <2>5. Window'
    BY <2>1 DEF Window, SelfTest
  <2>6. Polled'
    BY <2>1 DEF Polled
  <2> QED BY <2>2, <2>3, <2>4, <2>5, <2>6
<1>3. ASSUME getc, initialized PROVE Inv'
  <2>1. /\ pc = "idle" /\ pc' = "wait_rx" /\ polls' \in Nat
        /\ UNCHANGED <<uart, initialized, baud, todo, out, echo, wire, arrived, sent, got>>
    BY <1>3, SerialAssumption DEF getc, Call, history
  <2>2. Types'
    BY <2>1, Zenon DEF Types, InService
  <2>3. Modes'
    BY <1>3, <2>1 DEF Modes, Initializing, InService, SelfTest
  <2>4. Registers'
    BY <1>3, <2>1, Zenon DEF Registers, Past, SelfTest
  <2>5. Window'
    BY <2>1 DEF Window, SelfTest
  <2>6. Polled'
    BY <2>1 DEF Polled
  <2> QED BY <2>2, <2>3, <2>4, <2>5, <2>6
<1>4. ASSUME UNCHANGED <<uart, initialized, pc, baud, todo, out, polls, echo, wire, arrived, sent, got>>
      PROVE  Inv'
  BY <1>4, SameInv
<1> QED
  <2>1. ASSUME NEW b \in Bauds, init(b), ~BaudOK(b) PROVE Inv'
    BY <2>1, <1>4 DEF init, history
  <2>2. ASSUME NEW s \in Texts, write(s), ~initialized PROVE Inv'
    BY <2>2, <1>4 DEF write, Call, history
  <2>3. ASSUME getc, ~initialized PROVE Inv'
    BY <2>3, <1>4 DEF getc, Call, history
  <2> HIDE DEF Inv
  <2> QED BY <1>1, <1>2, <1>3, <2>1, <2>2, <2>3, Zenon DEF Calls

-----------------------------------------------------------------------------
(***************************************************************************)
(* The writes of init.                                                     *)
(***************************************************************************)

\* The next write is the one its place in the sequence gives, and the writes
\* after it stay in order.
LEMMA NextWrite ==
    ASSUME Inv, pc = "program"
    PROVE  /\ Head(todo) = InitWrites(divisor(baud))[10 - Len(todo)]
           /\ Len(Tail(todo)) = Len(todo) - 1
           /\ todo' = Tail(todo) /\ baud' = baud /\ Len(todo) > 1 => Programming'
<1>1. Programming
  BY DEF Inv, Types
<1>2. todo \in Seq(PortWrites) /\ Len(todo) > 0 /\ Len(todo) <= 9
  BY <1>1 DEF Programming
<1>3. \A k \in 1 .. Len(todo) : todo[k] = InitWrites(divisor(baud))[9 - Len(todo) + k]
  BY <1>1 DEF Programming
<1>4. Head(todo) = InitWrites(divisor(baud))[10 - Len(todo)]
  BY <1>2, <1>3
<1>5. Tail(todo) \in Seq(PortWrites) /\ Len(Tail(todo)) = Len(todo) - 1
  BY <1>2, Queue
<1>6. ASSUME todo' = Tail(todo), baud' = baud, Len(todo) > 1 PROVE Programming'
  <2>0. Len(todo) > 1
    BY <1>6
  <2>1. Len(Tail(todo)) > 0 /\ Len(Tail(todo)) <= 9
    BY ONLY <1>2, <1>5, <2>0, Queue
  <2>2. ASSUME NEW k \in 1 .. Len(Tail(todo))
        PROVE  Tail(todo)[k] = InitWrites(divisor(baud))[9 - Len(Tail(todo)) + k]
    <3>1. Tail(todo)[k] = todo[k + 1] /\ k + 1 \in 1 .. Len(todo)
      BY <1>2, <1>5
    <3>2. 9 - Len(todo) + (k + 1) = 9 - Len(Tail(todo)) + k
      BY <1>2, <1>5
    <3> QED BY <1>3, <3>1, <3>2, Zenon
  <2> QED BY <1>5, <1>6, <2>1, <2>2, Zenon DEF Programming
<1> QED BY <1>4, <1>5, <1>6

\* What a write to each port does to a device that is there, and the bits of the
\* values init writes.
LEMMA Ports ==
    ASSUME uart.present, NEW v
    PROVE  /\ UartWrite(0, v) = IF uart.dlab THEN [uart EXCEPT !.dll = v]
                                ELSE [uart EXCEPT !.tx = Push(uart.tx, v)]
           /\ UartWrite(1, v) = IF uart.dlab THEN [uart EXCEPT !.dlm = v]
                                ELSE [uart EXCEPT !.ier = v]
           /\ UartWrite(3, v) = [uart EXCEPT !.dlab = Bit(v, 7)]
           /\ UartWrite(4, v) = [uart EXCEPT !.loop = Bit(v, 4)]
<1> USE DEF UartWrite, Data, InterruptEnable, FifoControl, LineControl, ModemControl
<1>1. UartWrite(0, v) = IF uart.dlab THEN [uart EXCEPT !.dll = v]
                        ELSE [uart EXCEPT !.tx = Push(@, v)]
  OBVIOUS
<1>2. UartWrite(1, v) = IF uart.dlab THEN [uart EXCEPT !.dlm = v]
                                ELSE [uart EXCEPT !.ier = v]
  OBVIOUS
<1>3. UartWrite(3, v) = [uart EXCEPT !.dlab = Bit(v, 7)]
  OBVIOUS
<1>4. UartWrite(4, v) = [uart EXCEPT !.loop = Bit(v, 4)]
  OBVIOUS
<1> QED BY <1>1, <1>2, <1>3, <1>4

\* DLAB is bit 7 of the values init writes to LCR, the loopback bit 4 of those to MCR.
LEMMA Bits ==
    /\ Bit(128, 7) = TRUE /\ Bit(3, 7) = FALSE
    /\ Bit(3, 4) = FALSE /\ Bit(30, 4) = TRUE /\ Bit(15, 4) = FALSE /\ Bit(0, 4) = FALSE
BY SMT DEF Bit

\* The writes of init to LCR and MCR switch DLAB and the loopback, no more.
LEMMA ModeWrites ==
    ASSUME uart.present
    PROVE  /\ UartWrite(3, 128) = WithDlab(uart, TRUE)
           /\ UartWrite(3, 3) = WithDlab(uart, FALSE)
           /\ UartWrite(4, 3) = WithLoop(uart, FALSE)
           /\ UartWrite(4, 30) = WithLoop(uart, TRUE)
           /\ UartWrite(4, 15) = WithLoop(uart, FALSE)
           /\ UartWrite(4, 0) = WithLoop(uart, FALSE)
<1>1. ASSUME NEW v, NEW b, Bit(v, 7) = b PROVE UartWrite(3, v) = WithDlab(uart, b)
  BY <1>1, Ports, Zenon DEF WithDlab
<1>2. ASSUME NEW v, NEW b, Bit(v, 4) = b PROVE UartWrite(4, v) = WithLoop(uart, b)
  BY <1>2, Ports, Zenon DEF WithLoop
<1> QED BY ONLY <1>1, <1>2, Bits, Zenon

\* A write to FCR empties the FIFOs, and one to the data port fills the transmitter.
LEMMA FifoWrites ==
    ASSUME uart \in UartType, uart.present
    PROVE  /\ UartWrite(2, 199) = WithFifos(uart, <<>>, <<>>)
           /\ ~uart.dlab => \A v \in Byte :
                 UartWrite(0, v) = WithFifos(uart, Push(uart.tx, v), uart.rx)
<1>0. uart.tx \in Seq(Byte) /\ uart.rx \in Seq(Byte) /\ <<>> \in Seq(Byte)
  BY Fields
<1>1. Bit(199, 1) /\ Bit(199, 2)
  BY SMT DEF Bit
<1>2. UartWrite(2, 199) = [uart EXCEPT !.rx = <<>>, !.tx = <<>>]
  BY <1>1 DEF UartWrite, Data, InterruptEnable, FifoControl, LineControl, ModemControl
<1>3. ASSUME ~uart.dlab, NEW v \in Byte
      PROVE  UartWrite(0, v) = WithFifos(uart, Push(uart.tx, v), uart.rx)
  <2>1. Push(uart.tx, v) \in Seq(Byte)
    BY <1>0 DEF Push
  <2>2. UartWrite(0, v) = [uart EXCEPT !.tx = Push(uart.tx, v)]
    BY <1>3, Ports
  <2> QED BY <2>1, <2>2, <1>0, SetOneFifo, Zenon
<1>4. [uart EXCEPT !.rx = <<>>, !.tx = <<>>] = WithFifos(uart, <<>>, <<>>)
  BY Zenon DEF UartType, WithFifos
<1> QED BY <1>2, <1>3, <1>4, Zenon

\* What each of the nine writes does to a device that is there.
WriteDone ==
    LET n == Len(todo)
    IN  /\ uart' \in UartType /\ uart'.present
        /\ uart'.dlab <=> n \in 6 .. 8
        /\ uart'.loop <=> n \in 1 .. 2
        /\ uart'.ier = 0
        /\ n <= 7 => uart'.dll = LowByte(divisor(baud))
        /\ n <= 6 => uart'.dlm = HighByte(divisor(baud))
        /\ n = 4 => uart'.tx = <<>> /\ uart'.rx = <<>>
        /\ n = 1 => uart'.tx = Push(uart.tx, LOOPBACK_TEST_BYTE) /\ uart'.rx = uart.rx
        /\ n \notin {1, 4} => uart'.tx = uart.tx /\ uart'.rx = uart.rx

\* What each of the nine writes of init does to the device.
LEMMA WriteEffect ==
    ASSUME Inv, init_program, uart.present
    PROVE  WriteDone /\ (Head(todo)[1] = FifoControl <=> Len(todo) = 4)
<1> DEFINE n == Len(todo)
<1> DEFINE d == divisor(baud)
<1>14. /\ ~initialized /\ BaudOK(baud) /\ pc = "program" /\ baud \in Nat /\ Programming
      /\ Len(uart.rx) <= FifoSize
  BY Zenon DEF init_program, Inv, Types, Modes, Initializing
<1>1. n \in 1 .. 9 /\ Head(todo) = InitWrites(d)[10 - n]
  <2>1. Head(todo) = InitWrites(d)[10 - n]
    BY <1>14, NextWrite, Zenon
  <2>2. todo \in Seq(PortWrites) /\ n > 0 /\ n <= 9
    BY <1>14 DEF Programming
  <2>3. n \in Nat /\ n > 0
    BY ONLY <2>2, Queue
  <2> HIDE DEF n
  <2>4. n \in 1 .. 9
    BY ONLY <2>2, <2>3
  <2> QED BY <2>1, <2>4
<1>0. uart' = UartWrite(Head(todo)[1], Head(todo)[2])
  BY DEF init_program
<1>2. /\ uart.dlab <=> n \in 5 .. 7
      /\ uart.loop <=> n = 1
      /\ n <= 8 => uart.ier = 0
      /\ n <= 6 => uart.dll = LowByte(d)
      /\ n <= 5 => uart.dlm = HighByte(d)
  BY <1>1, <1>14, InvFields, SMT DEF Inv, Modes, Registers, Past, SelfTest
<1>3. LowByte(d) \in Byte /\ HighByte(d) \in Byte /\ 0 \in Byte
  BY <1>14, DivisorBytes, SMT DEF Byte
<1>13. uart \in UartType /\ uart.rx \in Seq(Byte) /\ <<>> \in Seq(Byte) /\ TRUE \in BOOLEAN /\ FALSE \in BOOLEAN
  BY InvFields
<1> HIDE DEF n, d
<1>4. CASE n = 9
  <2>1. Head(todo)[1] = 1 /\ Head(todo)[2] = 0
    BY <1>1, <1>4 DEF InitWrites, InterruptEnable
  <2>2. uart' = WithIer(uart, 0)
    BY <1>0, <1>2, <1>4, <2>1, Ports DEF WithIer
  <2>3. /\ uart' \in UartType /\ SameModes(uart, uart') /\ SameFifos(uart, uart')
        /\ uart'.ier = 0
    BY ONLY <1>3, <1>13, <2>2, SetIer, SMT
  <2> QED BY <1>2, <1>4, <2>1, <2>3, InvFields, SMT
         DEF n, d, WriteDone, SameModes, SameFifos, SameRegisters, FifoControl
<1>5. CASE n = 8
  <2>1. Head(todo)[1] = 3 /\ Head(todo)[2] = 128
    BY <1>1, <1>5 DEF InitWrites, LineControl
  <2>2. uart' = WithDlab(uart, TRUE)
    BY <1>0, <2>1, ModeWrites, Zenon
  <2>3. /\ uart' \in UartType /\ SameRegisters(uart, uart') /\ SameFifos(uart, uart')
        /\ uart'.present = uart.present /\ uart'.dlab = TRUE /\ uart'.loop = uart.loop
    BY ONLY <1>3, <1>13, <2>2, SetDlab, Zenon
  <2> QED BY <1>2, <1>5, <2>1, <2>3, InvFields, SMT
         DEF n, d, WriteDone, SameModes, SameFifos, SameRegisters, FifoControl
<1>6. CASE n = 7
  <2>1. Head(todo)[1] = 0 /\ Head(todo)[2] = LowByte(d)
    BY <1>1, <1>6 DEF InitWrites, Data, LowByte
  <2>2. uart' = WithDll(uart, LowByte(d))
    BY <1>0, <1>2, <1>6, <2>1, Ports DEF WithDll
  <2>3. /\ uart' \in UartType /\ SameModes(uart, uart') /\ SameFifos(uart, uart')
        /\ uart'.ier = uart.ier /\ uart'.dll = LowByte(d)
    BY ONLY <1>3, <1>13, <2>2, SetDll, SMT
  <2> QED BY <1>2, <1>6, <2>1, <2>3, InvFields, SMT
         DEF n, d, WriteDone, SameModes, SameFifos, SameRegisters, FifoControl
<1>7. CASE n = 6
  <2>1. Head(todo)[1] = 1 /\ Head(todo)[2] = HighByte(d)
    BY <1>1, <1>7 DEF InitWrites, InterruptEnable, HighByte
  <2>2. uart' = WithDlm(uart, HighByte(d))
    BY <1>0, <1>2, <1>7, <2>1, Ports DEF WithDlm
  <2>3. /\ uart' \in UartType /\ SameModes(uart, uart') /\ SameFifos(uart, uart')
        /\ uart'.ier = uart.ier /\ uart'.dll = uart.dll /\ uart'.dlm = HighByte(d)
    BY ONLY <1>3, <1>13, <2>2, SetDlm, SMT
  <2> QED BY <1>2, <1>7, <2>1, <2>3, InvFields, SMT
         DEF n, d, WriteDone, SameModes, SameFifos, SameRegisters, FifoControl
<1>8. CASE n = 5
  <2>1. Head(todo)[1] = 3 /\ Head(todo)[2] = 3
    BY <1>1, <1>8 DEF InitWrites, LineControl
  <2>2. uart' = WithDlab(uart, FALSE)
    BY <1>0, <2>1, ModeWrites, Zenon
  <2>3. /\ uart' \in UartType /\ SameRegisters(uart, uart') /\ SameFifos(uart, uart')
        /\ uart'.present = uart.present /\ uart'.dlab = FALSE /\ uart'.loop = uart.loop
    BY ONLY <1>3, <1>13, <2>2, SetDlab, Zenon
  <2> QED BY <1>2, <1>8, <2>1, <2>3, InvFields, SMT
         DEF n, d, WriteDone, SameModes, SameFifos, SameRegisters, FifoControl
<1>9. CASE n = 4
  <2>1. Head(todo)[1] = 2 /\ Head(todo)[2] = 199
    BY <1>1, <1>9 DEF InitWrites, FifoControl
  <2>2. uart' = WithFifos(uart, <<>>, <<>>)
    BY <1>0, <1>13, <2>1, FifoWrites, Zenon
  <2>3. FifosSet(uart, uart', <<>>, <<>>)
    BY ONLY <1>13, <2>2, SetFifos, Zenon
  <2> QED BY <1>2, <1>9, <2>1, <2>3, InvFields, SMT
         DEF FifosSet, n, d, WriteDone, SameModes, SameFifos, SameRegisters, FifoControl
<1>10. CASE n = 3
  <2>1. Head(todo)[1] = 4 /\ Head(todo)[2] = 3
    BY <1>1, <1>10 DEF InitWrites, ModemControl
  <2>2. uart' = WithLoop(uart, FALSE)
    BY <1>0, <2>1, ModeWrites, Zenon
  <2>3. /\ uart' \in UartType /\ SameRegisters(uart, uart') /\ SameFifos(uart, uart')
        /\ uart'.present = uart.present /\ uart'.dlab = uart.dlab /\ uart'.loop = FALSE
    BY ONLY <1>3, <1>13, <2>2, SetLoop, Zenon
  <2> QED BY <1>2, <1>10, <2>1, <2>3, InvFields, SMT
         DEF n, d, WriteDone, SameModes, SameFifos, SameRegisters, FifoControl
<1>11. CASE n = 2
  <2>1. Head(todo)[1] = 4 /\ Head(todo)[2] = 30
    BY <1>1, <1>11 DEF InitWrites, ModemControl
  <2>2. uart' = WithLoop(uart, TRUE)
    BY <1>0, <2>1, ModeWrites, Zenon
  <2>3. /\ uart' \in UartType /\ SameRegisters(uart, uart') /\ SameFifos(uart, uart')
        /\ uart'.present = uart.present /\ uart'.dlab = uart.dlab /\ uart'.loop = TRUE
    BY ONLY <1>3, <1>13, <2>2, SetLoop, Zenon
  <2> QED BY <1>2, <1>11, <2>1, <2>3, InvFields, SMT
         DEF n, d, WriteDone, SameModes, SameFifos, SameRegisters, FifoControl
<1>12. CASE n = 1
  <2>1. Head(todo)[1] = 0 /\ Head(todo)[2] = LOOPBACK_TEST_BYTE
    BY <1>1, <1>12 DEF InitWrites, Data
  <2>2. uart' = WithFifos(uart, Push(uart.tx, LOOPBACK_TEST_BYTE), uart.rx)
    <3>1. ~uart.dlab /\ LOOPBACK_TEST_BYTE \in Byte
      BY <1>2, <1>12 DEF LOOPBACK_TEST_BYTE, Byte
    <3> QED BY <1>0, <1>13, <2>1, <3>1, FifoWrites, Zenon
  <2>3. Push(uart.tx, LOOPBACK_TEST_BYTE) \in Seq(Byte)
    BY InvFields DEF Push, Byte, LOOPBACK_TEST_BYTE
  <2>4. FifosSet(uart, uart', Push(uart.tx, LOOPBACK_TEST_BYTE), uart.rx)
    BY ONLY <1>13, <2>2, <2>3, SetFifos, Zenon
  <2> QED BY <1>2, <1>12, <2>1, <2>4, InvFields, SMT
         DEF FifosSet, n, d, WriteDone, SameModes, SameFifos, SameRegisters, FifoControl
<1> QED BY <1>1, <1>4, <1>5, <1>6, <1>7, <1>8, <1>9, <1>10, <1>11, <1>12

\* A write of init keeps the invariant, one case for each of the nine.
LEMMA ProgramKeepsInv ==
    ASSUME Inv, init_program
    PROVE  Inv'
<1> DEFINE n == Len(todo)
<1>1. /\ pc = "program" /\ ~initialized /\ BaudOK(baud) /\ Programming
      /\ UNCHANGED <<initialized, out, echo, baud>> /\ todo' = Tail(todo)
      /\ polls \in Nat /\ Timeout \in Nat
  BY SerialAssumption, Zenon DEF init_program, Inv, Types, Modes, Initializing
<1>2. n \in Nat /\ n > 0 /\ n <= 9
  <2>1. todo \in Seq(PortWrites) /\ n > 0 /\ n <= 9
    BY <1>1 DEF Programming
  <2> QED BY ONLY <2>1, Queue
<1>3. Len(todo') = n - 1 /\ (n > 1 => Programming')
  BY <1>1, NextWrite, Zenon
<1>4. /\ n = 1 => pc' = "wait_echo" /\ polls' = Timeout
      /\ n > 1 => pc' = "program" /\ polls' = polls
  BY <1>1, <1>2 DEF init_program
<1>5. uart.present => /\ WriteDone
                      /\ n = 4 => wire' = <<>> /\ sent' = <<>> /\ arrived' = <<>> /\ got' = <<>>
                      /\ n # 4 => UNCHANGED <<wire, sent, arrived, got>>
  BY WriteEffect DEF init_program, history
<1>6. ~uart.present => uart' = uart
  BY DEF init_program, UartWrite
<1>7. /\ <<>> \in Seq(Byte)
      /\ wire' \in Seq(Byte) /\ sent' \in Seq(Byte) /\ arrived' \in Seq(Byte) /\ got' \in Seq(Byte)
  <2>1. /\ <<>> \in Seq(Byte)
        /\ wire \in Seq(Byte) /\ sent \in Seq(Byte) /\ arrived \in Seq(Byte) /\ got \in Seq(Byte)
    BY DEF Inv, Types
  <2>2. \/ wire' = <<>> /\ sent' = <<>> /\ arrived' = <<>> /\ got' = <<>>
        \/ UNCHANGED <<wire, sent, arrived, got>>
    BY DEF init_program, history
  <2> QED BY ONLY <2>1, <2>2, Zenon
<1> HIDE DEF n
<1>8. CASE uart.present
  <2>1. WriteDone
    BY <1>5, <1>8
  <2>2. /\ uart' \in UartType /\ uart'.present \in BOOLEAN /\ uart'.dlab \in BOOLEAN
        /\ uart'.loop \in BOOLEAN /\ uart'.tx \in Seq(Byte) /\ uart'.rx \in Seq(Byte)
    BY ONLY <2>1, Fields, Zenon DEF WriteDone
  <2>3. Len(uart'.rx) <= FifoSize
    <3>1. uart'.rx = <<>> \/ uart'.rx = uart.rx
      BY <2>1 DEF WriteDone
    <3> QED BY <3>1, SerialAssumption DEF Inv, Types
  <2>4. Types'
    BY <1>1, <1>2, <1>3, <1>4, <1>7, <2>2, <2>3 DEF Inv, Types, Initializing, SelfTest
  <2>5. Modes'
    <3>1. /\ uart'.present
          /\ uart'.dlab <=> pc' = "program" /\ Len(todo') \in 5 .. 7
          /\ uart'.loop <=> pc' = "wait_echo" \/ Len(todo') = 1
      <4>1. uart'.present /\ (uart'.dlab <=> n \in 6 .. 8) /\ (uart'.loop <=> n \in 1 .. 2)
        BY <2>1, Zenon DEF n, WriteDone
      <4>2. CASE n = 1
        BY <1>4, <2>2, <4>1, <4>2
      <4>3. CASE n > 1
        BY <1>2, <1>3, <1>4, <2>2, <4>1, <4>3
      <4> QED BY <1>2, <4>2, <4>3
    <3> QED BY <1>1, <1>2, <1>3, <1>4, <2>2, <3>1 DEF Modes, Initializing, SelfTest, InService
  <2>6. Registers'
    BY <1>1, <1>2, <1>3, <1>4, <2>1, <2>2 DEF n, WriteDone, Registers, Past, SelfTest
  <2>7. Window'
    <3>1. ASSUME n <= 3
          PROVE  /\ wire = <<>> /\ sent = <<>> /\ got = <<>> /\ Len(arrived) <= FifoSize
                 /\ uart.tx = <<>> /\ uart.rx = arrived
      BY <1>1, <1>8, <3>1 DEF n, Inv, Window
    <3>2. Push(<<>>, LOOPBACK_TEST_BYTE) = <<LOOPBACK_TEST_BYTE>>
      BY SerialAssumption DEF Push
    <3>3. CASE n = 1
      BY <1>4, <1>5, <1>8, <2>1, <3>1, <3>2, <3>3 DEF n, Window, WriteDone, SelfTest
    <3>4. CASE n \in 2 .. 3
      BY <1>3, <1>4, <1>5, <1>8, <2>1, <3>1, <3>4 DEF n, Window, WriteDone, SelfTest
    <3>5. CASE n = 4
      BY <1>3, <1>4, <1>5, <1>8, <2>1, <3>5, SerialAssumption DEF n, Window, WriteDone, SelfTest
    <3>6. CASE n > 4
      BY <1>2, <1>3, <1>4, <3>6 DEF Window, SelfTest
    <3> QED BY <1>2, <3>3, <3>4, <3>5, <3>6
  <2>8. Polled'
    BY <1>2, <1>4 DEF Polled
  <2> QED BY <2>4, <2>5, <2>6, <2>7, <2>8 DEF Inv
<1>9. CASE ~uart.present
  <2>1. /\ uart' = uart /\ uart \in UartType /\ uart.present = FALSE /\ uart.tx = <<>> /\ uart.rx = <<>>
        /\ uart.dlab = FALSE /\ uart.loop = FALSE
    BY <1>6, <1>9, InvFields, Zenon DEF Inv, Modes
  <2>2. Types'
    BY <1>1, <1>2, <1>3, <1>4, <1>7, <2>1 DEF Inv, Types, Initializing, SelfTest
  <2>3. Modes'
    BY <1>1, <1>2, <1>4, <2>1 DEF Modes, Initializing, SelfTest, InService
  <2>4. Registers' /\ Window'
    BY <2>1, Zenon DEF Registers, Window
  <2>5. Polled'
    BY <1>2, <1>4, <2>1 DEF Polled
  <2> QED BY <2>2, <2>3, <2>4, <2>5 DEF Inv
<1> QED BY <1>8, <1>9

-----------------------------------------------------------------------------
(***************************************************************************)
(* The waits, the end of init, and the calls in service.                   *)
(***************************************************************************)

\* A poll of LSR keeps the invariant, whether it sees the bit, waits or gives up.
LEMMA WaitKeepsInv ==
    ASSUME Inv, wait_for
    PROVE  Inv'
<1>1. /\ UNCHANGED <<uart, initialized, todo, out, echo, baud, wire, arrived, sent, got>>
      /\ polls \in Nat /\ polls' \in Nat
  BY DEF wait_for, history, Inv, Types
<1>2. \/ pc = "wait_echo" /\ pc' = "read_echo" /\ (uart.present => uart.rx # <<>>)
      \/ pc = "wait_tx" /\ pc' = "send" /\ (uart.present => uart.tx = <<>>)
      \/ pc = "wait_rx" /\ pc' = "read" /\ (uart.present => uart.rx # <<>>)
      \/ pc \in {"wait_echo", "wait_tx", "wait_rx"} /\ pc' = pc
  BY InvFields DEF wait_for, DR, THRE
<1>3. Types'
  BY <1>1, <1>2, Zenon DEF Inv, Types, Initializing, SelfTest, InService
<1>4. Modes'
  BY <1>1, <1>2, InvFields DEF Inv, Modes, Initializing, SelfTest, InService
<1>5. Registers'
  <2>1. \A k \in {5, 6, 8} : Past(k)' => Past(k)
    BY <1>1, <1>2 DEF Past, SelfTest
  <2> QED BY <1>1, <2>1 DEF Inv, Registers
<1>6. Window'
  BY <1>1, <1>2, Zenon DEF Inv, Window, SelfTest
<1>7. Polled'
  BY <1>1, <1>2, InvFields DEF Inv, Polled, Modes, InService
<1> QED BY <1>3, <1>4, <1>5, <1>6, <1>7 DEF Inv

\* putc takes the next bytes of the text, a carriage return before a newline.
LEMMA PutcKeepsInv ==
    ASSUME Inv, putc
    PROVE  Inv'
<1>1. /\ UNCHANGED <<uart, initialized, echo, baud, wire, arrived, sent, got>>
      /\ pc = "putc" /\ initialized /\ todo \in Seq(Byte) /\ polls \in Nat
  BY DEF putc, Inv, Types, Modes, InService
<1>2. \/ pc' = "idle" /\ UNCHANGED <<todo, out, polls>>
      \/ /\ pc' = "wait_tx" /\ polls' \in Nat /\ todo' \in Seq(Byte)
         /\ out' \in Seq(Byte) /\ out' # <<>>
  <2>1. CASE todo = <<>>
    BY <2>1 DEF putc
  <2>2. CASE todo # <<>>
    <3>1. Head(todo) \in Byte /\ Tail(todo) \in Seq(Byte)
      BY <1>1, <2>2, Queue
    <3>2. CR \in Byte /\ NL \in Byte
      BY DEF CR, NL, Byte
    <3>3. /\ <<CR, NL>> \in Seq(Byte) /\ <<CR, NL>> # <<>>
          /\ <<Head(todo)>> \in Seq(Byte) /\ <<Head(todo)>> # <<>>
      BY <3>1, <3>2
    <3>4. Timeout \in Nat
      BY SerialAssumption
    <3> QED BY <2>2, <3>1, <3>3, <3>4, Zenon DEF putc
  <2> QED BY <2>1, <2>2
<1>3. Types'
  BY <1>1, <1>2, Zenon DEF Inv, Types, Initializing, SelfTest, InService
<1>4. Modes'
  BY <1>1, <1>2, InvFields DEF Inv, Modes, Initializing, SelfTest, InService
<1>5. Registers'
  BY <1>1, Zenon DEF Inv, Registers, Past
<1>6. Window'
  BY <1>1, <1>2 DEF Window, SelfTest
<1>7. Polled'
  BY <1>1, <1>2 DEF Polled
<1> QED BY <1>3, <1>4, <1>5, <1>6, <1>7 DEF Inv

\* The end of init, with or without the echo, keeps the invariant.
LEMMA FinishKeepsInv ==
    ASSUME Inv, init_finish
    PROVE  Inv'
<1>1. /\ UNCHANGED <<todo, out, polls, echo, baud, wire, arrived, sent, got>>
      /\ pc = "finish" /\ pc' = "idle" /\ initialized' = echo /\ echo \in BOOLEAN /\ BaudOK(baud)
      /\ echo => uart.present
  BY DEF init_finish, history, Inv, Types, Modes, Polled, Initializing, SelfTest
<1>2. /\ uart' \in UartType /\ uart'.present = uart.present
      /\ SameRegisters(uart, uart') /\ SameFifos(uart, uart')
      /\ uart'.dlab = FALSE /\ uart'.loop = FALSE
  <2>1. uart.dlab = FALSE /\ uart \in UartType
    BY <1>1, InvFields DEF Inv, Modes
  <2>2. CASE uart.present
    <3>1. uart' = WithLoop(uart, FALSE)
      BY <2>2, ModeWrites, Zenon DEF init_finish, ModemControl
    <3> QED BY ONLY <2>1, <3>1, SetLoop, Zenon
  <2>3. CASE ~uart.present
    <3>1. uart' = uart /\ uart.loop = FALSE
      BY <2>3, InvFields, Zenon DEF Inv, Modes, init_finish, UartWrite
    <3> QED BY ONLY <2>1, <3>1, Zenon DEF SameRegisters, SameFifos
  <2> QED BY <2>2, <2>3, Zenon
<1>3. Types'
  BY <1>1, <1>2, Zenon DEF Inv, Types, SameFifos
<1>4. Modes'
  BY <1>1, <1>2, InvFields DEF Inv, Modes, Initializing, SelfTest, InService, SameFifos
<1>5. Registers'
  <2>1. Past(8) /\ Past(6) /\ Past(5)
    BY <1>1 DEF Past, SelfTest
  <2> QED BY <1>1, <1>2, <2>1, Zenon DEF Inv, Registers, SameRegisters
<1>6. Window'
  BY <1>1 DEF Window, SelfTest
<1>7. Polled'
  BY <1>1 DEF Polled
<1> QED BY <1>3, <1>4, <1>5, <1>6, <1>7 DEF Inv

\* A read of the receiver, or nothing if there is no device.
LEMMA ReadEffect ==
    ASSUME Inv, uart.present => uart.rx # <<>>, uart' = AfterDataRead
    PROVE  /\ uart' \in UartType /\ SameModes(uart, uart') /\ SameRegisters(uart, uart')
           /\ uart'.tx = uart.tx /\ Len(uart'.rx) <= FifoSize
           /\ uart.present => uart'.rx = Tail(uart.rx) /\ Head(uart.rx) \in Byte
           /\ ~uart.present => uart'.rx = uart.rx
<1>1. uart \in UartType /\ uart.tx \in Seq(Byte) /\ uart.rx \in Seq(Byte) /\ Len(uart.rx) <= FifoSize
  BY InvFields DEF Inv, Types
<1>2. CASE uart.present
  <2>1. /\ Tail(uart.rx) \in Seq(Byte) /\ Len(Tail(uart.rx)) <= FifoSize
        /\ Head(uart.rx) \in Byte
    BY <1>1, <1>2, Queue, SerialAssumption
  <2>2. uart' = [uart EXCEPT !.rx = Tail(uart.rx)]
    BY <1>2, Zenon DEF AfterDataRead
  <2>3. uart' = WithFifos(uart, uart.tx, Tail(uart.rx))
    BY ONLY <1>1, <2>1, <2>2, SetOneFifo, Zenon
  <2>4. FifosSet(uart, uart', uart.tx, Tail(uart.rx))
    BY ONLY <1>1, <2>1, <2>3, SetFifos, Zenon
  <2> QED BY <1>2, <2>1, <2>4 DEF FifosSet
<1>3. CASE ~uart.present
  BY <1>1, <1>3, Zenon DEF AfterDataRead, SameModes, SameRegisters
<1> QED BY <1>2, <1>3

\* Reading the echo of the self-test keeps the invariant.
LEMMA EchoKeepsInv ==
    ASSUME Inv, init_echo
    PROVE  Inv'
<1>1. /\ UNCHANGED <<initialized, todo, out, polls, baud, wire, arrived, sent, got>>
      /\ pc \in {"wait_echo", "read_echo"} /\ pc' = "finish" /\ ~initialized /\ BaudOK(baud)
  BY DEF init_echo, history, Inv, Modes, Initializing, SelfTest
<1>2. /\ uart' \in UartType /\ SameModes(uart, uart') /\ SameRegisters(uart, uart')
      /\ Len(uart'.rx) <= FifoSize
      /\ ~uart.present => uart'.tx = uart.tx /\ uart'.rx = uart.rx
      /\ echo' \in BOOLEAN
  <2>1. CASE pc = "wait_echo"
    BY <2>1, InvFields, Zenon DEF init_echo, Inv, Types, SameModes, SameRegisters
  <2>2. CASE pc = "read_echo"
    BY <2>2, ReadEffect DEF init_echo, Inv, Polled
  <2> QED BY <1>1, <2>1, <2>2
<1>3. Types'
  BY <1>1, <1>2, Zenon DEF Inv, Types, Initializing, SelfTest
<1>4. Modes'
  BY <1>1, <1>2, InvFields DEF Inv, Modes, Initializing, SelfTest, InService, SameModes
<1>5. Registers'
  <2>1. Past(8) /\ Past(6) /\ Past(5)
    BY <1>1 DEF Past, SelfTest
  <2> QED BY <1>1, <1>2, <2>1, Zenon DEF Inv, Registers, SameRegisters, SameModes
<1>6. ASSUME uart.present, pc = "read_echo"
      PROVE  /\ arrived = <<>> => echo' /\ uart'.tx = <<>> /\ uart'.rx = <<>>
             /\ arrived # <<>> /\ echo' => arrived[1] = LOOPBACK_TEST_BYTE
  <2>1. /\ uart.rx # <<>> /\ arrived \in Seq(Byte) /\ uart.rx \in Seq(Byte)
        /\ \/ uart.tx = <<LOOPBACK_TEST_BYTE>> /\ uart.rx = arrived
           \/ uart.tx = <<>> /\ uart.rx = Push(arrived, LOOPBACK_TEST_BYTE)
    BY <1>6, InvFields DEF Inv, Types, Window, Polled
  <2>2. /\ echo' = (Head(uart.rx) = LOOPBACK_TEST_BYTE)
        /\ uart'.tx = uart.tx /\ uart'.rx = Tail(uart.rx)
    BY <1>6, <2>1, ReadEffect DEF init_echo, DataRead
  <2>3. CASE arrived = <<>>
    <3>1. Push(arrived, LOOPBACK_TEST_BYTE) = <<LOOPBACK_TEST_BYTE>>
      BY <2>3, SerialAssumption DEF Push
    <3>2. Head(<<LOOPBACK_TEST_BYTE>>) = LOOPBACK_TEST_BYTE /\ Tail(<<LOOPBACK_TEST_BYTE>>) = <<>>
      OBVIOUS
    <3> QED BY <2>1, <2>2, <2>3, <3>1, <3>2, Zenon
  <2>4. CASE arrived # <<>>
    <3>1. Head(arrived) = arrived[1]
      BY <2>1, <2>4
    <3>2. Head(Push(arrived, LOOPBACK_TEST_BYTE)) = arrived[1]
      BY <2>1, <2>4 DEF Push
    <3> QED BY <2>1, <2>2, <2>4, <3>1, <3>2, Zenon
  <2> QED BY <2>3, <2>4
<1>7. pc = "wait_echo" => polls = 0 /\ ~echo'
  BY DEF init_echo, TimedOut
<1>8. Window'
  <2>1. uart'.present = uart.present
    BY <1>2 DEF SameModes
  <2>2. uart.present => wire = <<>> /\ sent = <<>> /\ got = <<>> /\ Len(arrived) <= FifoSize
    BY <1>1 DEF Inv, Window, SelfTest
  <2> QED BY <1>1, <1>6, <1>7, <2>1, <2>2 DEF Window, SelfTest
<1>9. Polled'
  <2>1. ASSUME ~uart.present PROVE ~echo'
    <3>1. 255 # LOOPBACK_TEST_BYTE
      BY DEF LOOPBACK_TEST_BYTE
    <3> QED BY <1>7, <2>1, <3>1, Zenon DEF init_echo, DataRead
  <2> QED BY <1>1, <1>2, <2>1 DEF Polled, SameModes
<1> QED BY <1>3, <1>4, <1>5, <1>8, <1>9 DEF Inv

\* Reading a byte for getc keeps the invariant.
LEMMA GetcKeepsInv ==
    ASSUME Inv, getc_read
    PROVE  Inv'
<1>1. /\ UNCHANGED <<initialized, todo, out, polls, echo, baud, wire, arrived, sent>>
      /\ pc \in {"wait_rx", "read"} /\ pc' = "idle" /\ initialized /\ uart.present
  BY DEF getc_read, history, Inv, Modes, InService
<1>2. /\ uart' \in UartType /\ SameModes(uart, uart') /\ SameRegisters(uart, uart')
      /\ Len(uart'.rx) <= FifoSize /\ got' \in Seq(Byte)
  <2>1. CASE pc = "wait_rx"
    BY <2>1, InvFields DEF getc_read, Inv, Types, SameModes, SameRegisters
  <2>2. CASE pc = "read"
    <3>1. uart.rx # <<>> /\ uart' = AfterDataRead /\ got' = Append(got, Head(uart.rx))
      BY <1>1, <2>2 DEF getc_read, DataRead, Inv, Polled
    <3>2. got \in Seq(Byte)
      BY DEF Inv, Types
    <3> QED BY <1>1, <3>1, <3>2, ReadEffect
  <2> QED BY <1>1, <2>1, <2>2
<1>3. Types'
  BY <1>1, <1>2, Zenon DEF Inv, Types
<1>4. Modes'
  BY <1>1, <1>2, InvFields DEF Inv, Modes, Initializing, SelfTest, InService, SameModes
<1>5. Registers'
  BY <1>1, <1>2, Zenon DEF Inv, Registers, SameRegisters, Past, SameModes
<1>6. Window' /\ Polled'
  BY <1>1 DEF Window, Polled, SelfTest
<1> QED BY <1>3, <1>4, <1>5, <1>6 DEF Inv

\* putc_send hands the first character of out to an empty transmitter, or gives
\* it up.
LEMMA SendEffect ==
    ASSUME Inv, putc_send
    PROVE  /\ uart \in UartType /\ uart.present /\ initialized
           /\ uart' \in UartType /\ SameModes(uart, uart') /\ SameRegisters(uart, uart')
           /\ uart'.rx = uart.rx
           /\ \/ sent' = sent /\ uart'.tx = uart.tx
              \/ \E c \in Byte : /\ uart.tx = <<>> /\ uart'.tx = <<c>>
                                 /\ sent' = Append(sent, c)
<1>1. /\ pc \in {"send", "wait_tx"} /\ initialized /\ uart.present
      /\ out \in Seq(Byte) /\ out # <<>>
  BY DEF putc_send, Inv, Types, Modes, InService
<1>2. uart \in UartType /\ ~uart.dlab /\ uart.rx \in Seq(Byte)
  BY <1>1, InvFields DEF Inv, Modes
<1>3. CASE pc = "wait_tx"
  BY <1>1, <1>2, <1>3, Zenon DEF putc_send, SameModes, SameRegisters
<1>4. CASE pc = "send"
  <2>1. PICK c : c = Head(out)
    OBVIOUS
  <2>2. c \in Byte
    BY <1>1, <2>1, Queue
  <2>3. uart.tx = <<>>
    BY <1>4 DEF Inv, Polled
  <2>4. Push(uart.tx, c) = <<c>> /\ <<c>> \in Seq(Byte)
    BY <2>2, <2>3, SerialAssumption DEF Push
  <2>5. sent' = Append(sent, c) /\ uart' = UartWrite(0, c)
    BY <1>4, <2>1 DEF putc_send, Data
  <2>6. uart' = WithFifos(uart, <<c>>, uart.rx)
    BY ONLY <1>1, <1>2, <2>2, <2>4, <2>5, FifoWrites, Zenon
  <2>7. FifosSet(uart, uart', <<c>>, uart.rx)
    BY ONLY <1>2, <2>4, <2>6, SetFifos, Zenon
  <2> QED BY <1>1, <1>2, <2>2, <2>3, <2>5, <2>7 DEF FifosSet
<1> QED BY <1>1, <1>3, <1>4

\* Writing a byte to an empty transmitter keeps the invariant.
LEMMA SendKeepsInv ==
    ASSUME Inv, putc_send
    PROVE  Inv'
<1>1. /\ UNCHANGED <<initialized, todo, echo, baud, wire, arrived, got>>
      /\ pc \in {"send", "wait_tx"} /\ initialized /\ todo \in Seq(Byte)
      /\ out \in Seq(Byte) /\ out # <<>> /\ polls \in Nat
  BY DEF putc_send, Inv, Types, Modes, InService
<1>2. /\ uart' \in UartType /\ SameModes(uart, uart') /\ SameRegisters(uart, uart')
      /\ uart'.rx = uart.rx /\ uart.present
  BY SendEffect
<1>3. sent' \in Seq(Byte)
  <2>1. sent \in Seq(Byte)
    BY DEF Inv, Types
  <2>2. \A c \in Byte : Append(sent, c) \in Seq(Byte)
    BY <2>1
  <2> QED BY <2>1, <2>2, SendEffect, Zenon
<1>4. \/ pc' = "putc" /\ polls' = polls
      \/ pc' = "wait_tx" /\ polls' \in Nat /\ out' \in Seq(Byte) /\ out' # <<>>
  <2>1. Len(out) \in Nat /\ Len(out) > 0 /\ Tail(out) \in Seq(Byte) /\ Len(Tail(out)) = Len(out) - 1
    BY <1>1, Queue
  <2>2. Len(out) # 1 => Len(Tail(out)) > 0
    BY <2>1
  <2>3. Len(out) # 1 => Tail(out) # <<>>
    BY <2>1, <2>2, Queue, Zenon
  <2> QED BY <2>1, <2>3, SerialAssumption DEF putc_send
<1>5. Types'
  BY <1>1, <1>2, <1>3, <1>4, Zenon DEF Inv, Types, InService
<1>6. Modes'
  BY <1>1, <1>2, <1>4, InvFields DEF Inv, Modes, Initializing, SelfTest, InService, SameModes
<1>7. Registers'
  BY <1>1, <1>2, Zenon DEF Inv, Registers, SameRegisters, Past, SameModes
<1>8. Window' /\ Polled'
  BY <1>4 DEF Window, Polled, SelfTest
<1> QED BY <1>5, <1>6, <1>7, <1>8 DEF Inv

-----------------------------------------------------------------------------
(***************************************************************************)
(* The device's own steps.                                                 *)
(***************************************************************************)

\* The transmitter's first byte goes to the line or round to the receiver.
LEMMA TransmitEffect ==
    ASSUME Inv, Transmit
    PROVE  /\ uart.present /\ uart.tx # <<>> /\ uart.tx \in Seq(Byte) /\ Head(uart.tx) \in Byte
           /\ uart' \in UartType /\ SameModes(uart, uart') /\ SameRegisters(uart, uart')
           /\ uart'.tx = Tail(uart.tx) /\ Len(uart'.rx) <= FifoSize
           /\ uart'.rx = IF uart.loop THEN Push(uart.rx, Head(uart.tx)) ELSE uart.rx
           /\ wire' = IF uart.loop THEN wire ELSE Append(wire, Head(uart.tx))
<1>1. /\ uart \in UartType /\ uart.tx \in Seq(Byte) /\ uart.rx \in Seq(Byte)
      /\ Len(uart.rx) <= FifoSize
  BY InvFields DEF Inv, Types
<1>2. uart.present /\ uart.tx # <<>>
  BY InvFields DEF Transmit, Inv, Modes
<1>3. Head(uart.tx) \in Byte /\ Tail(uart.tx) \in Seq(Byte)
  BY <1>1, <1>2, Queue
<1>4. PICK r : r = IF uart.loop THEN Push(uart.rx, Head(uart.tx)) ELSE uart.rx
  OBVIOUS
<1>5. r \in Seq(Byte) /\ Len(r) <= FifoSize
  BY <1>1, <1>3, <1>4, PushType, Zenon
<1>6. uart' = WithFifos(uart, Tail(uart.tx), r)
  <2>1. uart' = WithFifos(uart, Tail(uart.tx),
                          IF uart.loop THEN Push(uart.rx, Head(uart.tx)) ELSE uart.rx)
    BY Zenon DEF Transmit, WithFifos
  <2> QED BY ONLY <1>4, <2>1, Zenon
<1>7. FifosSet(uart, uart', Tail(uart.tx), r)
  BY ONLY <1>1, <1>3, <1>5, <1>6, SetFifos, Zenon
<1>8. wire' = IF uart.loop THEN wire ELSE Append(wire, Head(uart.tx))
  BY DEF Transmit
<1> QED BY <1>1, <1>2, <1>3, <1>4, <1>5, <1>7, <1>8, Zenon DEF FifosSet

\* The device sending a byte, on the wire or round the loop, keeps the invariant.
LEMMA TransmitKeepsInv ==
    ASSUME Inv, Transmit
    PROVE  Inv'
<1>1. UNCHANGED <<initialized, pc, todo, out, polls, echo, baud, arrived, sent, got>>
  BY DEF Transmit, history
<1>2. /\ uart.present /\ uart.tx # <<>> /\ uart.tx \in Seq(Byte) /\ Head(uart.tx) \in Byte
      /\ uart' \in UartType /\ SameModes(uart, uart') /\ SameRegisters(uart, uart')
      /\ uart'.tx = Tail(uart.tx) /\ Len(uart'.rx) <= FifoSize
  BY TransmitEffect
<1>3. /\ uart'.rx = IF uart.loop THEN Push(uart.rx, Head(uart.tx)) ELSE uart.rx
      /\ wire' = IF uart.loop THEN wire ELSE Append(wire, Head(uart.tx))
  BY TransmitEffect
<1>4. Types'
  <2>1. wire' \in Seq(Byte)
    <3>1. wire \in Seq(Byte)
      BY DEF Inv, Types
    <3> QED BY <1>2, <1>3, <3>1
  <2>2. Programming' <=> Programming
    BY <1>1, Zenon DEF Programming
  <2> QED BY <1>1, <1>2, <2>1, <2>2, Zenon DEF Inv, Types
<1>5. Modes'
  BY <1>1, <1>2, Zenon DEF Inv, Modes, SameModes
<1>6. Registers'
  BY <1>1, <1>2, Zenon DEF Inv, Registers, SameRegisters, Past, SameModes
<1>7. Window'
  <2>1. ~(pc = "program" /\ Len(todo) <= 3)
    BY <1>2 DEF Inv, Window
  <2>2. CASE pc \in SelfTest
    <3>1. uart.loop
      BY <1>2, <2>2, InvFields DEF Inv, Modes
    <3>2. wire' = wire /\ uart'.rx = Push(uart.rx, Head(uart.tx))
      BY <1>3, <3>1
    <3>3. ASSUME pc \in {"wait_echo", "read_echo"}
          PROVE  uart'.tx = <<>> /\ uart'.rx = Push(arrived, LOOPBACK_TEST_BYTE)
      <4>1. uart.tx = <<LOOPBACK_TEST_BYTE>> /\ uart.rx = arrived
        BY <1>2, <3>3 DEF Inv, Window
      <4>2. Head(<<LOOPBACK_TEST_BYTE>>) = LOOPBACK_TEST_BYTE /\ Tail(<<LOOPBACK_TEST_BYTE>>) = <<>>
        OBVIOUS
      <4> QED BY <1>2, <3>2, <4>1, <4>2, Zenon
    <3>4. ASSUME pc = "finish" PROVE ~(arrived = <<>> /\ echo)
      BY <1>2, <3>4 DEF Inv, Window
    <3> QED BY <1>1, <1>2, <2>1, <2>2, <3>2, <3>3, <3>4, Zenon DEF Inv, Window, SelfTest
  <2>3. CASE pc \notin SelfTest
    BY <1>1, <2>1, <2>3, Zenon DEF Window, SelfTest
  <2> QED BY <2>2, <2>3
<1>8. Polled'
  <2>1. pc # "send"
    BY <1>2 DEF Inv, Polled
  <2>2. uart.rx # <<>> => uart'.rx # <<>>
    BY <1>2, <1>3, InvFields DEF Push
  <2> QED BY <1>1, <1>2, <2>1, <2>2, Zenon DEF Inv, Polled, SameModes
<1> QED BY <1>4, <1>5, <1>6, <1>7, <1>8 DEF Inv

\* A byte from the line is put into the receiver if there is room.
LEMMA ArriveEffect ==
    ASSUME Inv, NEW b \in PeerBytes, Arrive(b)
    PROVE  /\ uart.present /\ ~uart.loop
           /\ b \in Byte /\ arrived' \in Seq(Byte)
           /\ FifosSet(uart, uart', uart.tx, Push(uart.rx, b)) /\ Len(uart'.rx) <= FifoSize
           /\ arrived' = IF Len(uart.rx) < FifoSize THEN Append(arrived, b) ELSE arrived
<1>1. /\ uart \in UartType /\ uart.tx \in Seq(Byte) /\ uart.rx \in Seq(Byte)
      /\ Len(uart.rx) <= FifoSize /\ arrived \in Seq(Byte)
  BY InvFields DEF Inv, Types
<1>2. /\ uart.present /\ ~uart.loop
      /\ uart' = [uart EXCEPT !.rx = Push(uart.rx, b)]
      /\ arrived' = IF Len(uart.rx) < FifoSize THEN Append(arrived, b) ELSE arrived
  BY Zenon DEF Arrive
<1>3. b \in Byte
  BY SerialAssumption DEF Byte
<1>4. Push(uart.rx, b) \in Seq(Byte) /\ Len(Push(uart.rx, b)) <= FifoSize
  BY <1>1, <1>3, PushType
<1>5. uart' = WithFifos(uart, uart.tx, Push(uart.rx, b))
  BY ONLY <1>1, <1>2, <1>4, SetOneFifo, Zenon
<1>6. FifosSet(uart, uart', uart.tx, Push(uart.rx, b))
  BY ONLY <1>1, <1>4, <1>5, SetFifos, Zenon
<1>7. arrived' \in Seq(Byte)
  BY <1>1, <1>2, <1>3
<1>8. Len(uart'.rx) <= FifoSize
  BY <1>4, <1>6, Zenon DEF FifosSet
<1> QED BY <1>2, <1>3, <1>6, <1>7, <1>8

\* A byte from the other end keeps the invariant, also when the receiver is full.
LEMMA ArriveKeepsInv ==
    ASSUME Inv, NEW b \in PeerBytes, Arrive(b)
    PROVE  Inv'
<1>1. UNCHANGED <<initialized, pc, todo, out, polls, echo, baud, wire, sent, got>>
  BY DEF Arrive, history
<1>2. /\ uart.present /\ ~uart.loop /\ b \in Byte /\ arrived' \in Seq(Byte)
      /\ uart' \in UartType /\ SameModes(uart, uart') /\ SameRegisters(uart, uart')
      /\ uart'.tx = uart.tx /\ uart'.rx = Push(uart.rx, b) /\ Len(uart'.rx) <= FifoSize
      /\ arrived' = IF Len(uart.rx) < FifoSize THEN Append(arrived, b) ELSE arrived
  BY ArriveEffect, Zenon DEF FifosSet
<1>3. Types'
  <2>1. Programming' <=> Programming
    BY <1>1, Zenon DEF Programming
  <2> QED BY <1>1, <1>2, <2>1, Zenon DEF Inv, Types
<1>4. Modes'
  BY <1>1, <1>2, Zenon DEF Inv, Modes, SameModes
<1>5. Registers'
  BY <1>1, <1>2, Zenon DEF Inv, Registers, SameRegisters, Past, SameModes
<1>6. pc \notin SelfTest
  BY <1>2, InvFields DEF Inv, Modes
<1>7. Window'
  <2>1. ASSUME pc = "program", Len(todo) <= 3
        PROVE  uart'.rx = arrived'
    <3>1. uart.rx = arrived
      BY <1>2, <2>1 DEF Inv, Window
    <3> QED BY <1>2, <3>1, Zenon DEF Push
  <2> QED BY <1>1, <1>2, <1>6, <2>1, Zenon DEF Inv, Window, SelfTest
<1>8. Polled'
  <2>1. uart.rx # <<>> => uart'.rx # <<>>
    BY <1>2, InvFields DEF Push
  <2> QED BY <1>1, <1>2, <2>1, Zenon DEF Inv, Polled, SameModes
<1> QED BY <1>3, <1>4, <1>5, <1>7, <1>8 DEF Inv

-----------------------------------------------------------------------------
(***************************************************************************)
(* The theorems.                                                           *)
(***************************************************************************)

\* Every step of driver, device and line keeps the invariant.
LEMMA StepKeepsInv ==
    ASSUME Inv, [Next]_vars
    PROVE  Inv'
<1>1. CASE UNCHANGED vars
  <2>1. UNCHANGED <<uart, initialized, pc, baud, todo, out, polls, echo, wire, arrived, sent, got>>
    BY <1>1 DEF vars
  <2> QED BY <2>1, SameInv
<1>2. CASE Driver
  BY <1>2, ProgramKeepsInv, WaitKeepsInv, EchoKeepsInv, FinishKeepsInv, PutcKeepsInv,
     SendKeepsInv, GetcKeepsInv DEF Driver
<1>3. CASE Calls
  BY <1>3, CallKeepsInv
<1>4. CASE Device
  BY <1>4, TransmitKeepsInv, ArriveKeepsInv DEF Device
<1> QED BY <1>1, <1>2, <1>3, <1>4 DEF Next

\* So it always holds.
LEMMA AlwaysInv == Spec => []Inv
BY InitInv, StepKeepsInv, PTL DEF Spec

\* Whatever the line carries and however the calls follow one another, a
\* successful init leaves a device that is there, with interrupts off and the
\* divisor of the rate asked for.
THEOREM AlwaysConfigured == Spec => []ReadyMeansConfigured
<1>1. Inv => ReadyMeansConfigured
  <2> SUFFICES ASSUME Inv, initialized
               PROVE  /\ uart.present /\ uart.ier = 0
                      /\ uart.dll + 256 * uart.dlm = divisor(baud)
    BY DEF ReadyMeansConfigured
  <2>1. uart.present /\ BaudOK(baud) /\ baud \in Nat
    BY DEF Inv, Modes, Types
  <2>2. /\ uart.ier = 0 /\ uart.dll = LowByte(divisor(baud))
        /\ uart.dlm = HighByte(divisor(baud))
    BY <2>1, Zenon DEF Inv, Registers, Past
  <2> QED BY <2>1, <2>2, DivisorBytes, SMT
<1> QED BY <1>1, AlwaysInv, PTL

\* Between calls the device is out of loopback and its divisor latch closed.
THEOREM AlwaysRestored == Spec => []NormalStateRestored
<1>1. Inv => NormalStateRestored
  BY InvFields DEF Inv, Modes, NormalStateRestored, SelfTest
<1> QED BY <1>1, AlwaysInv, PTL

\* A device that answers in time fails the self-test only on a byte that came
\* from the line between the clearing of the FIFOs and the loopback.
THEOREM AlwaysFairTest == Spec => []FailsOnlyOnNoise
<1>1. Inv => FailsOnlyOnNoise
  BY DEF Inv, Window, FailsOnlyOnNoise
<1> QED BY <1>1, AlwaysInv, PTL

\* One byte moved from the front of a queue to the end of another leaves their
\* concatenation the same; one added at the end of the queue is added at the end.
LEMMA Moved ==
    ASSUME NEW p \in Seq(Byte), NEW q \in Seq(Byte)
    PROVE  /\ p \o <<>> = p
           /\ q # <<>> => Append(p, Head(q)) \o Tail(q) = p \o q
           /\ \A c \in Byte : p \o Append(q, c) = Append(p \o q, c)
           /\ \A c \in Byte : p \o <<c>> = Append(p, c)
<1>1. p \o <<>> = p
  OBVIOUS
<1>2. q # <<>> => Append(p, Head(q)) \o Tail(q) = p \o q
  OBVIOUS
<1>3. \A c \in Byte : p \o Append(q, c) = Append(p \o q, c)
  OBVIOUS
<1>4. \A c \in Byte : p \o <<c>> = Append(p, c)
  OBVIOUS
<1> QED BY <1>1, <1>2, <1>3, <1>4, Zenon

\* What a step adds to the wire or takes from the receiver keeps output and input faithful.
LEMMA StepKeepsService ==
    ASSUME Inv, NoFalseEcho, Service, [Next]_vars
    PROVE  Service'
<1> USE DEF Service, OutputFaithful, InputFaithful
<1>0. /\ wire \in Seq(Byte) /\ sent \in Seq(Byte) /\ arrived \in Seq(Byte) /\ got \in Seq(Byte)
      /\ uart.tx \in Seq(Byte) /\ uart.rx \in Seq(Byte)
  BY InvFields DEF Inv, Types
<1>1. ASSUME ~initialized' PROVE Service'
  BY <1>1
<1>2. ASSUME UNCHANGED <<uart, initialized, wire, sent, arrived, got>> PROVE Service'
  BY <1>2
<1>3. ASSUME init_finish, echo PROVE Service'
  <2>1. /\ UNCHANGED <<wire, sent, arrived, got>> /\ pc = "finish" /\ uart.present
        /\ uart'.tx = uart.tx /\ uart'.rx = uart.rx
    <3>1. UNCHANGED <<wire, sent, arrived, got>> /\ pc = "finish" /\ uart.present
      BY <1>3 DEF init_finish, history, Inv, Polled
    <3>2. uart' = WithLoop(uart, FALSE)
      BY <1>3, <3>1, ModeWrites, Zenon DEF init_finish, ModemControl
    <3>3. SameFifos(uart, uart')
      BY ONLY <3>2, InvFields, Inv, SetLoop, Zenon
    <3> QED BY <3>1, <3>3 DEF SameFifos
  <2>2. arrived = <<>>
    <3>1. arrived # <<>> => arrived[1] = LOOPBACK_TEST_BYTE
      BY <1>3, <2>1 DEF Inv, Window
    <3>2. arrived # <<>> => 1 \in DOMAIN arrived
      BY <1>0
    <3> QED BY <2>1, <3>1, <3>2, Zenon DEF NoFalseEcho
  <2>3. wire = <<>> /\ sent = <<>> /\ got = <<>> /\ uart.tx = <<>> /\ uart.rx = <<>>
    BY <1>3, <2>1, <2>2 DEF Inv, Window, SelfTest
  <2>4. <<>> \o <<>> = <<>>
    BY Moved, <1>0, <2>3
  <2> QED BY <2>1, <2>2, <2>3, <2>4, Zenon
<1>4. ASSUME putc_send PROVE Service'
  <2>1. /\ UNCHANGED <<initialized, wire, arrived, got>> /\ uart'.rx = uart.rx /\ initialized
        /\ \/ sent' = sent /\ uart'.tx = uart.tx
           \/ \E c \in Byte : /\ uart.tx = <<>> /\ uart'.tx = <<c>>
                              /\ sent' = Append(sent, c)
    BY <1>4, SendEffect, Zenon DEF putc_send
  <2>2. ASSUME NEW c \in Byte, uart.tx = <<>>, uart'.tx = <<c>>, sent' = Append(sent, c)
        PROVE  wire \o uart'.tx = sent'
    <3>1. wire = sent
      BY <1>0, <2>1, <2>2, Moved
    <3>2. sent \o <<c>> = Append(sent, c)
      BY <1>0, Moved
    <3> QED BY <2>2, <3>1, <3>2, Zenon
  <2> QED BY <2>1, <2>2, Zenon
<1>5. ASSUME getc_read PROVE Service'
  <2>1. /\ UNCHANGED <<initialized, wire, arrived, sent>> /\ initialized /\ uart.present
        /\ pc \in {"wait_rx", "read"}
    BY <1>5 DEF getc_read, Inv, Modes, InService
  <2>2. CASE pc = "wait_rx"
    BY <1>5, <2>1, <2>2, Zenon DEF getc_read
  <2>3. CASE pc = "read"
    <3>1. uart.rx # <<>>
      BY <2>1, <2>3 DEF Inv, Polled
    <3>2. got' = Append(got, Head(uart.rx)) /\ uart' = AfterDataRead
      BY <1>5, <2>1, <2>3, Zenon DEF getc_read, DataRead
    <3>3. uart'.tx = uart.tx /\ uart'.rx = Tail(uart.rx)
      BY <2>1, <3>1, <3>2, ReadEffect, Zenon
    <3>4. Append(got, Head(uart.rx)) \o Tail(uart.rx) = got \o uart.rx
      BY <1>0, <3>1, Moved, Zenon
    <3> QED BY <2>1, <3>2, <3>3, <3>4, Zenon
  <2> QED BY <2>1, <2>2, <2>3
<1>6. ASSUME Transmit, initialized PROVE Service'
  <2>1. UNCHANGED <<initialized, arrived, sent, got>>
    BY <1>6 DEF Transmit, history
  <2>2. uart.present /\ ~uart.loop
    BY <1>6, InvFields DEF Inv, Modes, Initializing, SelfTest
  <2>3. /\ uart.tx # <<>> /\ uart'.tx = Tail(uart.tx) /\ uart'.rx = uart.rx
        /\ wire' = Append(wire, Head(uart.tx))
    BY <1>6, <2>2, TransmitEffect, Zenon
  <2>4. Append(wire, Head(uart.tx)) \o Tail(uart.tx) = wire \o uart.tx
    BY <1>0, <2>3, Moved, Zenon
  <2> QED BY <2>1, <2>3, <2>4, Zenon
<1>7. ASSUME NEW b \in PeerBytes, Arrive(b), initialized PROVE Service'
  <2>1. UNCHANGED <<initialized, wire, sent, got>>
    BY <1>7 DEF Arrive, history
  <2>2. /\ uart'.tx = uart.tx /\ uart'.rx = Push(uart.rx, b) /\ b \in Byte
        /\ arrived' = IF Len(uart.rx) < FifoSize THEN Append(arrived, b) ELSE arrived
    BY <1>7, ArriveEffect, Zenon DEF FifosSet
  <2>3. got \o Append(uart.rx, b) = Append(got \o uart.rx, b)
    BY <1>0, <2>2, Moved, SMTT(30)
  <2> QED BY <1>7, <2>1, <2>2, <2>3, Zenon DEF Push
<1> QED
  <2>1. CASE UNCHANGED vars
    BY <2>1, <1>2, Zenon DEF vars
  <2>2. CASE Driver
    <3>1. CASE init_program \/ init_echo
      BY <3>1, <1>1 DEF init_program, init_echo, Inv, Modes, Initializing, SelfTest
    <3>2. CASE wait_for \/ putc
      BY <3>2, <1>2, Zenon DEF wait_for, putc, history
    <3>3. CASE init_finish
      BY <3>3, <1>1, <1>3 DEF init_finish
    <3> QED BY <2>2, <3>1, <3>2, <3>3, <1>4, <1>5, Zenon DEF Driver
  <2>3. CASE Calls
    <3>1. ASSUME NEW b \in Bauds, init(b) PROVE Service'
      BY <3>1, <1>1, <1>2, Zenon DEF init, history
    <3>2. ASSUME NEW s \in Texts, write(s) PROVE Service'
      BY <3>2, <1>2, Zenon DEF write, history
    <3>3. ASSUME getc PROVE Service'
      BY <3>3, <1>2, Zenon DEF getc, history
    <3> HIDE DEF Service
    <3> QED BY <2>3, <3>1, <3>2, <3>3, Zenon DEF Calls
  <2>4. CASE Device
    <3>1. ASSUME ~initialized, Device PROVE ~initialized'
      BY <3>1 DEF Device, Transmit, Arrive
    <3> HIDE DEF Service
    <3> QED BY <2>4, <3>1, <1>1, <1>6, <1>7, Zenon DEF Device
  <2> QED BY <2>1, <2>2, <2>3, <2>4, Zenon DEF Next

\* Unless the other end sends the test byte itself while init prepares the
\* loopback, the line carries, in order, exactly the bytes putc gave the device.
THEOREM AlwaysOutputFaithful == Spec /\ []NoFalseEcho => []OutputFaithful
<1>1. Init => Service
  <2>1. Init => ~initialized
    BY DEF Init
  <2> QED BY <2>1, Zenon DEF Service, OutputFaithful, InputFaithful
<1>2. Service => OutputFaithful
  BY DEF Service
<1> QED BY <1>1, <1>2, AlwaysInv, StepKeepsService, PTL DEF Spec

\* Under the same condition getc returns, in order, exactly the bytes received.
THEOREM AlwaysInputFaithful == Spec /\ []NoFalseEcho => []InputFaithful
<1>1. Init => Service
  <2>1. Init => ~initialized
    BY DEF Init
  <2> QED BY <2>1, Zenon DEF Service, OutputFaithful, InputFaithful
<1>2. Service => InputFaithful
  BY DEF Service
<1> QED BY <1>1, <1>2, AlwaysInv, StepKeepsService, PTL DEF Spec
=============================================================================
