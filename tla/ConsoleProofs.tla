--------------------------- MODULE ConsoleProofs ---------------------------
(***************************************************************************)
(* The serial console for every depth of the FIFO, every stack and every   *)
(* number of exceptions: once the self test has passed, what uart::putc    *)
(* wrote is on the line in order, whatever interrupts the driver between   *)
(* its read of the line status and its write.                              *)
(***************************************************************************)
EXTENDS Console, TLAPS

\* What the logger, the handlers and kernel_main print.
Texts == {"color and tag", "reset", "fatal error", "stopping system",
          "failed assertion", "assertion", "OK", "physical", "virtual", "heap",
          "statistics", "GDT", "IDT", "Hello, World!", "out of memory", "frame",
          "page fault", "registers", "unhandled exception", "nmi_handler",
          "interrupt"}
Bytes == Texts \cup {TestByte, "firmware"}

Instructions == {"cli", "lgdt", "lidt", "sti", "halt"}
Ops == [op : {"putc"}, piece : Texts] \cup [op : Instructions]

\* A sequence of things to do that goes on, and one that ends in a halt.
Goes(s) == s \in Seq(Ops) /\ \A k \in 1 .. Len(s) : s[k].op # "halt"
Ends(s) ==
  /\ s \in Seq(Ops) /\ 0 < Len(s)
  /\ \A k \in 1 .. Len(s) : s[k].op = "halt" <=> k = Len(s)

Device == [present : BOOLEAN, dlab : BOOLEAN, bits : {5, 8}, low : 0 .. 255,
           high : 0 .. 255, fifo : BOOLEAN, loop : BOOLEAN,
           rbr : Bytes \cup {NoByte}, txq : Seq(Bytes)]
DeviceType == uart \in Device

CpuType ==
  /\ cpu \in [todo : Seq(Ops), seen : BOOLEAN, gates : BOOLEAN, nmi : BOOLEAN,
              panic : BOOLEAN, idt : BOOLEAN, raised : 0 .. MaxRaised]
  /\ Ends(cpu.todo)

\* uart::initialize: what each of its register accesses leaves behind it.
Programmed ==
  /\ 3 <= boot /\ boot <= 5 => uart.dlab
  /\ 4 <= boot => uart.low = 3
  /\ 5 <= boot => uart.high = 0
  /\ 6 <= boot => ~ uart.dlab /\ uart.bits = 8
  /\ 7 <= boot => uart.fifo
  /\ 8 <= boot => uart.loop
  /\ boot <= 6 => Len(uart.txq) <= 1 /\ \A k \in 1 .. Len(uart.txq) : uart.txq[k] = "firmware"
  /\ boot \in {7, 8} => uart.txq = <<>> /\ uart.rbr = NoByte
  /\ boot = 9 => \/ uart.txq = <<TestByte>> /\ uart.rbr = NoByte
                 \/ uart.txq = <<>> /\ uart.rbr = TestByte

BootInv ==
  status = "none" =>
    /\ owed = <<>> /\ line = "nothing" /\ streams = FALSE /\ cpu.seen = FALSE
    /\ Len(uart.txq) <= 1
    /\ uart.present => Programmed

\* After it: the device is programmed, and a transmitter seen empty is empty.
RunInv ==
  status # "none" =>
    /\ boot = 9
    /\ uart.present => ~ uart.dlab /\ uart.fifo
    /\ uart.present /\ cpu.seen => uart.txq = <<>>
    /\ Len(uart.txq) <= FIFO_DEPTH

WorkingInv ==
  status = "SYSTEM_OK" =>
    /\ uart.present /\ ~ uart.loop /\ Readable(uart)
    /\ owed = uart.txq
    /\ \A k \in 1 .. Len(uart.txq) : uart.txq[k] \in Texts
    /\ line \notin {"garbage", TestByte}

IInv ==
  /\ DeviceType
  /\ CpuType
  /\ boot \in 1 .. 9 /\ status \in {"none", "SYSTEM_OK", "SYSTEM_ERR_IO_INVALID"}
  /\ streams \in BOOLEAN
  /\ BootInv
  /\ RunInv
  /\ WorkingInv

-----------------------------------------------------------------------------
(* Sequences of things to do *)

\* One thing after the other.
LEMMA GoesGoes ==
    ASSUME NEW s, NEW t, Goes(s), Goes(t)
    PROVE  Goes(s \o t)
<1>1. s \in Seq(Ops) /\ t \in Seq(Ops)
  BY DEF Goes
<1>2. s \o t \in Seq(Ops) /\ Len(s \o t) = Len(s) + Len(t)
      /\ Len(s) \in Nat /\ Len(t) \in Nat
  BY <1>1
<1>3. ASSUME NEW k \in 1 .. Len(s \o t)
      PROVE  (s \o t)[k].op # "halt"
  <2>1. CASE k <= Len(s)
    <3>1. (s \o t)[k] = s[k] /\ k \in 1 .. Len(s)
      BY <1>1, <1>2, <2>1
    <3> QED
      BY <3>1 DEF Goes
  <2>2. CASE ~(k <= Len(s))
    <3>1. (s \o t)[k] = t[k - Len(s)] /\ k - Len(s) \in 1 .. Len(t)
      BY <1>1, <1>2, <2>2
    <3> QED
      BY <3>1 DEF Goes
  <2> QED
    BY <2>1, <2>2
<1> QED
  BY <1>2, <1>3 DEF Goes

\* The halt stays at the end.
LEMMA GoesEnds ==
    ASSUME NEW s, NEW t, Goes(s), Ends(t)
    PROVE  Ends(s \o t)
<1>1. s \in Seq(Ops) /\ t \in Seq(Ops) /\ 0 < Len(t)
  BY DEF Goes, Ends
<1>2. s \o t \in Seq(Ops) /\ Len(s \o t) = Len(s) + Len(t)
      /\ Len(s) \in Nat /\ Len(t) \in Nat
  BY <1>1
<1>3. ASSUME NEW k \in 1 .. Len(s \o t)
      PROVE  (s \o t)[k].op = "halt" <=> k = Len(s \o t)
  <2>1. CASE k <= Len(s)
    <3>1. (s \o t)[k] = s[k] /\ k \in 1 .. Len(s) /\ k # Len(s \o t)
      BY <1>1, <1>2, <2>1
    <3> QED
      BY <3>1 DEF Goes
  <2>2. CASE ~(k <= Len(s))
    <3>1. /\ (s \o t)[k] = t[k - Len(s)] /\ k - Len(s) \in 1 .. Len(t)
          /\ k = Len(s \o t) <=> k - Len(s) = Len(t)
      BY <1>1, <1>2, <2>2
    <3> QED
      BY <3>1 DEF Ends
  <2> QED
    BY <2>1, <2>2
<1> QED
  BY <1>1, <1>2, <1>3 DEF Ends

\* Having done the first thing, unless it was the halt.
LEMMA TailEnds ==
    ASSUME NEW s, Ends(s), Head(s).op # "halt"
    PROVE  Ends(Tail(s))
<1>1. s \in Seq(Ops) /\ Len(s) \in Nat /\ 0 < Len(s) /\ s # <<>>
  BY DEF Ends
<1>2. Head(s) = s[1]
  BY <1>1
<1>3. 1 # Len(s)
  BY <1>1, <1>2 DEF Ends
<1>4. /\ Tail(s) \in Seq(Ops) /\ Len(Tail(s)) = Len(s) - 1
      /\ \A k \in 1 .. Len(Tail(s)) : Tail(s)[k] = s[k + 1]
  BY <1>1
<1>5. ASSUME NEW k \in 1 .. Len(Tail(s))
      PROVE  Tail(s)[k].op = "halt" <=> k = Len(Tail(s))
  <2>1. k + 1 \in 1 .. Len(s) /\ (k + 1 = Len(s) <=> k = Len(Tail(s)))
    BY <1>1, <1>4
  <2>2. s[k + 1].op = "halt" <=> k + 1 = Len(s)
    BY <2>1 DEF Ends
  <2> QED
    BY <1>4, <2>1, <2>2
<1>6. 0 < Len(Tail(s))
  BY <1>1, <1>3, <1>4
<1> QED
  BY <1>4, <1>5, <1>6 DEF Ends

\* The pieces of a message are things to print.
LEMMA PiecesGo ==
    ASSUME NEW s \in Seq(Texts)
    PROVE  Goes(Pieces(s))
<1>1. DOMAIN s = 1 .. Len(s) /\ Len(s) \in Nat
  OBVIOUS
<1>2. \A k \in 1 .. Len(s) : s[k] \in Texts
  OBVIOUS
<1>3. \A k \in 1 .. Len(s) : [op |-> "putc", piece |-> s[k]] \in Ops
  BY <1>2 DEF Ops
<1>4. Pieces(s) = [k \in 1 .. Len(s) |-> [op |-> "putc", piece |-> s[k]]]
  BY <1>1 DEF Pieces
<1>5. Pieces(s) \in Seq(Ops) /\ Len(Pieces(s)) = Len(s)
  BY <1>1, <1>3, <1>4
<1>6. \A k \in 1 .. Len(s) : Pieces(s)[k].op = "putc"
  BY <1>4
<1> QED
  BY <1>5, <1>6 DEF Goes

\* The logger's calls and the instructions.
LEMMA CallsGo ==
    /\ \A a \in Texts : Goes(Pieces(<<a>>))
    /\ \A a \in Texts : Goes(vlog_msg(a))
    /\ \A op \in Instructions \ {"halt"} : Goes(Instruction(op))
    /\ Ends(Instruction("halt"))
<1>1. ASSUME NEW a \in Texts
      PROVE  Goes(Pieces(<<a>>)) /\ Goes(vlog_msg(a))
  <2>1. <<a>> \in Seq(Texts)
    OBVIOUS
  <2>2. "color and tag" \in Texts /\ "reset" \in Texts
    BY DEF Texts
  <2>3. \A x, y, z \in Texts : <<x, y, z>> \in Seq(Texts)
    OBVIOUS
  <2> QED
    BY <2>1, <2>2, <2>3, PiecesGo, Zenon DEF vlog_msg
<1>2. ASSUME NEW op \in Instructions
      PROVE  /\ Instruction(op) \in Seq(Ops) /\ Len(Instruction(op)) = 1
             /\ Instruction(op)[1].op = op
  <2>1. [op |-> op] \in Ops
    BY DEF Ops
  <2> QED
    BY <2>1 DEF Instruction
<1>3. "halt" \in Instructions
  BY DEF Instructions
<1>4. \A op \in Instructions \ {"halt"} : Goes(Instruction(op))
  BY <1>2 DEF Goes
<1>5. Ends(Instruction("halt"))
  <2> DEFINE h == Instruction("halt")
  <2>1. h \in Seq(Ops) /\ Len(h) = 1 /\ h[1].op = "halt"
    BY <1>2, <1>3
  <2> HIDE DEF h
  <2>2. \A k \in 1 .. Len(h) : k = 1
    BY <2>1
  <2>3. Ends(h)
    BY <2>1, <2>2 DEF Ends
  <2> QED
    BY <2>3 DEF h
<1> QED
  BY <1>1, <1>4, <1>5

\* log_panik() and a failed assertion end in the halt.
LEMMA PanikEnds ==
    /\ \A a \in Texts : Ends(log_panik(a))
    /\ Ends(assert_fail)
<1>1. /\ "fatal error" \in Texts /\ "stopping system" \in Texts
      /\ "failed assertion" \in Texts /\ "assertion" \in Texts
      /\ "cli" \in Instructions \ {"halt"}
  BY DEF Texts, Instructions
<1>2. ASSUME NEW a \in Texts
      PROVE  Ends(log_panik(a))
  <2>1. Goes(Pieces(<<"fatal error">>) \o vlog_msg(a))
    BY <1>1, CallsGo, GoesGoes
  <2>2. Goes(Pieces(<<"fatal error">>) \o vlog_msg(a) \o Pieces(<<"stopping system">>))
    BY <1>1, <2>1, CallsGo, GoesGoes
  <2>3. Goes(Pieces(<<"fatal error">>) \o vlog_msg(a) \o Pieces(<<"stopping system">>)
             \o Instruction("cli"))
    BY <1>1, <2>2, CallsGo, GoesGoes
  <2> QED
    BY <2>3, CallsGo, GoesEnds DEF log_panik
<1>3. Ends(assert_fail)
  BY <1>1, <1>2, CallsGo, GoesEnds DEF assert_fail
<1> QED
  BY <1>2, <1>3

\* kernel_main() ends in the halt.
LEMMA MainEnds == Ends(kernel_main)
<1>1. /\ {"OK", "physical", "virtual", "heap", "statistics", "GDT", "IDT",
           "Hello, World!"} \subseteq Texts
      /\ {"cli", "lgdt", "lidt", "sti"} \subseteq Instructions \ {"halt"}
  BY DEF Texts, Instructions
<1>2. /\ \A c \in {"physical", "virtual", "heap", "GDT", "IDT"} :
            Goes(log_begin_intialization(c))
      /\ Goes(log_end_intialization)
      /\ Goes(vlog_msg("statistics")) /\ Goes(vlog_msg("Hello, World!"))
  BY <1>1, CallsGo DEF log_begin_intialization, log_end_intialization
<1>3. \A op \in {"cli", "lgdt", "lidt", "sti"} : Goes(Instruction(op))
  BY <1>1, CallsGo
<1>4. Goes(memory_initialize)
  BY <1>2, GoesGoes DEF memory_initialize
<1>5. Goes(gdt_initialize) /\ Goes(interrupts_initialize)
  BY <1>2, <1>3, GoesGoes DEF gdt_initialize, interrupts_initialize
<1>6. Goes(cpu_initialize)
  BY <1>3, <1>5, GoesGoes DEF cpu_initialize
<1>7. Goes(memory_initialize \o cpu_initialize \o vlog_msg("Hello, World!"))
  BY <1>2, <1>4, <1>6, GoesGoes
<1> QED
  BY <1>7, CallsGo, GoesEnds DEF kernel_main

\* Every handler ends in the halt.
LEMMA HandlersEnd == \A vector, err_code : Ends(interrupt_common(vector, err_code))
<1>1. {"frame", "page fault", "registers", "unhandled exception", "nmi_handler",
       "interrupt"} \subseteq Texts
  BY DEF Texts
<1>2. Goes(dump_stacktrace)
  <2> DEFINE frames == IF Frames < STACKTRACE_MAX THEN Frames ELSE STACKTRACE_MAX
             msg == vlog_msg("frame")
  <2>1. frames \in Nat
    BY ConsoleAssumption
  <2>2. Len(msg) = 3
    BY DEF vlog_msg, Pieces
  <2>3. Goes(msg)
    BY <1>1, CallsGo
  <2> HIDE DEF frames, msg
  <2>4. msg \in Seq(Ops) /\ \A k \in 1 .. Len(msg) : msg[k] \in Ops /\ msg[k].op # "halt"
    BY <2>3 DEF Goes
  <2>5. \A k \in 1 .. 3 * frames : ((k - 1) % 3) + 1 \in 1 .. Len(msg)
    BY <2>1, <2>2
  <2>6. dump_stacktrace = [k \in 1 .. 3 * frames |-> msg[((k - 1) % 3) + 1]]
    BY DEF dump_stacktrace, frames, msg
  <2>7. dump_stacktrace \in Seq(Ops) /\ Len(dump_stacktrace) = 3 * frames
    BY <2>1, <2>4, <2>5, <2>6
  <2>8. \A k \in 1 .. 3 * frames : dump_stacktrace[k].op # "halt"
    BY <2>4, <2>5, <2>6
  <2> QED
    BY <2>7, <2>8 DEF Goes
<1>3. Goes(<<>>)
  BY DEF Goes
<1>4. \A err_code : Ends(exception_handler(err_code))
  <2>1. TAKE err_code
  <2> DEFINE dump == IF err_code = EXCEPTION_PAGE_FAULT THEN vlog_msg("page fault") ELSE <<>>
  <2>2. Goes(dump)
    BY <1>1, <1>3, CallsGo
  <2> HIDE DEF dump
  <2>3. Goes(dump_stacktrace \o dump)
    BY <1>2, <2>2, GoesGoes
  <2>4. Goes(dump_stacktrace \o dump \o vlog_msg("registers"))
    BY <1>1, <2>3, CallsGo, GoesGoes
  <2> QED
    BY <1>1, <2>4, PanikEnds, GoesEnds DEF exception_handler, dump
<1>5. Ends(nmi_handler) /\ Ends(log_panik("interrupt"))
  BY <1>1, PanikEnds DEF nmi_handler
<1> QED
  BY <1>4, <1>5 DEF interrupt_common, handle_interrupt

-----------------------------------------------------------------------------
(* The device *)

\* The transmitter after it sent a character.
LEMMA QueueTail ==
    ASSUME NEW q \in Seq(Bytes), q # <<>>
    PROVE  /\ Len(q) \in Nat /\ 0 < Len(q) /\ Head(q) = q[1] /\ Head(q) \in Bytes
           /\ Tail(q) \in Seq(Bytes) /\ Len(Tail(q)) = Len(q) - 1
           /\ \A k \in 1 .. Len(Tail(q)) : Tail(q)[k] = q[k + 1] /\ k + 1 \in 1 .. Len(q)
           /\ Len(q) <= 1 => Tail(q) = <<>>
<1>1. Len(q) \in Nat /\ 0 < Len(q) /\ Head(q) = q[1] /\ Head(q) \in Bytes
  OBVIOUS
<1>2. Tail(q) \in Seq(Bytes) /\ Len(Tail(q)) = Len(q) - 1
  OBVIOUS
<1>3. \A k \in 1 .. Len(Tail(q)) : Tail(q)[k] = q[k + 1] /\ k + 1 \in 1 .. Len(q)
  BY <1>1, <1>2
<1>4. Len(q) <= 1 => Tail(q) = <<>>
  BY <1>1, <1>2
<1> QED
  BY <1>1, <1>2, <1>3, <1>4

\* A step of the processor that leaves the device alone.
LEMMA CpuStep ==
    ASSUME IInv, UNCHANGED <<uart, boot, status, streams, owed, line>>, CpuType',
           cpu'.seen => status # "none" /\ (uart.present => uart.txq = <<>>)
    PROVE  IInv'
<1> USE DEF IInv
<1>1. DeviceType'
  BY DEF DeviceType
<1>2. cpu'.seen \in BOOLEAN
  BY DEF CpuType
<1>3. BootInv'
  <2>1. Programmed' <=> Programmed
    BY DEF Programmed
  <2> QED
    BY <1>2, <2>1 DEF BootInv
<1>4. RunInv' /\ WorkingInv'
  BY DEF RunInv, WorkingInv, Readable
<1> QED
  BY <1>1, <1>3, <1>4

\* A character leaves the transmitter.
LEMMA TransmitIInv ==
    ASSUME IInv, Transmit
    PROVE  IInv'
<1> USE DEF IInv
<1> DEFINE q == uart.txq
<1>1. /\ uart.present /\ q \in Seq(Bytes) /\ q # <<>>
      /\ UNCHANGED <<boot, status, streams, cpu>>
  BY DEF Transmit, DeviceType, Device
<1>2. /\ Len(q) \in Nat /\ 0 < Len(q) /\ Head(q) = q[1] /\ Head(q) \in Bytes
      /\ Tail(q) \in Seq(Bytes) /\ Len(Tail(q)) = Len(q) - 1
      /\ \A k \in 1 .. Len(Tail(q)) : Tail(q)[k] = q[k + 1] /\ k + 1 \in 1 .. Len(q)
      /\ Len(q) <= 1 => Tail(q) = <<>>
  BY <1>1, QueueTail
<1>3. CpuType'
  BY <1>1 DEF CpuType
<1>4. status # "none" => cpu.seen = FALSE
  BY <1>1 DEF RunInv, CpuType
<1>5. CASE uart.loop
  <2>1. /\ uart' = [uart EXCEPT !.txq = Tail(q), !.rbr = Head(q)]
        /\ UNCHANGED <<owed, line>>
    BY <1>5 DEF Transmit
  <2>2. /\ uart'.txq = Tail(q) /\ uart'.rbr = Head(q)
        /\ \A f \in {"present", "dlab", "bits", "low", "high", "fifo", "loop"} :
              uart'[f] = uart[f]
        /\ DeviceType'
    BY <2>1, <1>2, ZenonT(30) DEF DeviceType, Device
  <2>3. ASSUME status = "none"
        PROVE  BootInv'
    <3>1. Programmed /\ Len(q) <= 1
      BY <1>1, <2>3 DEF BootInv
    <3>2. Tail(q) = <<>>
      BY <1>2, <3>1
    <3>3. boot \notin {7, 8}
      BY <1>1, <3>1 DEF Programmed
    <3>4. boot = 9 => q = <<TestByte>> /\ Head(q) = TestByte
      BY <1>1, <1>2, <3>1 DEF Programmed
    <3>5. Len(<<>>) = 0 /\ \A k \in 1 .. Len(<<>>) : FALSE
      OBVIOUS
    <3>6. Programmed'
      BY <1>1, <2>2, <3>1, <3>2, <3>3, <3>4, <3>5 DEF Programmed
    <3> QED
      BY <1>1, <2>1, <2>2, <2>3, <3>2, <3>5, <3>6 DEF BootInv
  <2>4. RunInv' /\ WorkingInv'
    BY <1>1, <1>2, <1>4, <1>5, <2>2, ConsoleAssumption DEF RunInv, WorkingInv
  <2> QED
    BY <1>1, <1>3, <2>2, <2>3, <2>4 DEF BootInv
<1>6. CASE ~ uart.loop
  <2>1. /\ uart' = [uart EXCEPT !.txq = Tail(q)]
        /\ owed' = IF owed # <<>> /\ Head(owed) = Head(q) THEN Tail(owed) ELSE owed
        /\ line' = CASE Head(q) = "firmware" -> line
                     [] Head(q) # "firmware" /\ Readable(uart) -> Head(q)
                     [] OTHER -> "garbage"
    BY <1>6 DEF Transmit
  <2>2. /\ uart'.txq = Tail(q)
        /\ \A f \in {"present", "dlab", "bits", "low", "high", "fifo", "loop", "rbr"} :
              uart'[f] = uart[f]
        /\ DeviceType'
    BY <2>1, <1>2, ZenonT(30) DEF DeviceType, Device
  <2>3. ASSUME status = "none"
        PROVE  BootInv'
    <3>1. Programmed /\ Len(q) <= 1 /\ owed = <<>> /\ line = "nothing"
      BY <1>1, <2>3 DEF BootInv
    <3>2. Tail(q) = <<>>
      BY <1>2, <3>1
    <3>3. boot <= 6
      BY <1>1, <1>6, <3>1 DEF Programmed
    <3>4. Head(q) = "firmware"
      BY <1>2, <3>1, <3>3 DEF Programmed
    <3>5. owed' = <<>> /\ line' = "nothing"
      BY <2>1, <3>1, <3>4
    <3>6. Len(<<>>) = 0 /\ \A k \in 1 .. Len(<<>>) : FALSE
      OBVIOUS
    <3>7. Programmed'
      BY <1>1, <2>2, <3>1, <3>2, <3>3, <3>6 DEF Programmed
    <3> QED
      BY <1>1, <2>2, <2>3, <3>2, <3>5, <3>6, <3>7 DEF BootInv
  <2>4. RunInv'
    BY <1>1, <1>2, <1>4, <2>2, ConsoleAssumption DEF RunInv
  <2>5. WorkingInv'
    <3> SUFFICES ASSUME status = "SYSTEM_OK"
                 PROVE  WorkingInv'
      BY <1>1 DEF WorkingInv
    <3>1. /\ uart.present /\ ~ uart.loop /\ Readable(uart) /\ owed = q
          /\ \A k \in 1 .. Len(q) : q[k] \in Texts
          /\ line \notin {"garbage", TestByte}
      BY DEF WorkingInv
    <3>2. Head(q) \in Texts
      BY <1>2, <3>1
    <3>3. Head(q) \notin {"garbage", TestByte, "firmware"}
      BY <3>2 DEF Texts, TestByte
    <3>4. owed' = Tail(q) /\ line' = Head(q)
      BY <1>1, <2>1, <3>1, <3>3
    <3>5. \A k \in 1 .. Len(Tail(q)) : Tail(q)[k] \in Texts
      BY <1>2, <3>1
    <3>6. Readable(uart)'
      BY <2>2, <3>1 DEF Readable
    <3> QED
      BY <2>2, <3>1, <3>3, <3>4, <3>5, <3>6 DEF WorkingInv
  <2> QED
    BY <1>1, <1>3, <2>2, <2>3, <2>4, <2>5 DEF BootInv
<1> QED
  BY <1>5, <1>6

-----------------------------------------------------------------------------
(* uart::initialize *)

\* The state at kernel entry satisfies the invariant.
LEMMA InitIInv == Init => IInv
<1> SUFFICES ASSUME Init PROVE IInv
  OBVIOUS
<1>1. /\ <<>> \in Seq(Bytes) /\ <<"firmware">> \in Seq(Bytes)
      /\ Len(<<>>) = 0 /\ Len(<<"firmware">>) = 1
      /\ \A k \in 1 .. Len(<<"firmware">>) : <<"firmware">>[k] = "firmware"
  BY DEF Bytes
<1>2. DeviceType
  <2>1. ASSUME NEW T, T \subseteq Seq(Bytes),
               uart \in [present : BOOLEAN, dlab : BOOLEAN, bits : {5, 8}, low : {1}, high : {0},
                        fifo : BOOLEAN, loop : BOOLEAN, rbr : {NoByte}, txq : T]
        PROVE  uart \in Device
    BY <2>1 DEF Device
  <2>2. {<<>>, <<"firmware">>} \subseteq Seq(Bytes)
    BY <1>1
  <2> QED
    BY <2>1, <2>2 DEF Init, DeviceType
<1>3. CpuType
  <2>1. kernel_main \in Seq(Ops)
    BY MainEnds DEF Ends
  <2> QED
    BY <2>1, MainEnds, ConsoleAssumption DEF Init, CpuType
<1>4. uart.txq \in {<<>>, <<"firmware">>}
  BY DEF Init
<1>5. BootInv
  <2>1. /\ Len(uart.txq) <= 1
        /\ \A k \in 1 .. Len(uart.txq) : uart.txq[k] = "firmware"
    <3>1. CASE uart.txq = <<>>
      BY <3>1
    <3>2. CASE uart.txq = <<"firmware">>
      BY <3>2
    <3> QED
      BY <1>4, <3>1, <3>2
  <2>2. boot = 1 /\ owed = <<>> /\ line = "nothing" /\ streams = FALSE /\ cpu.seen = FALSE
    BY DEF Init
  <2>3. Programmed
    BY <2>1, <2>2 DEF Programmed
  <2> QED
    BY <2>1, <2>2, <2>3 DEF BootInv
<1>6. RunInv /\ WorkingInv
  BY DEF Init, RunInv, WorkingInv
<1>7. boot \in 1 .. 9 /\ status = "none"
  BY DEF Init
<1>8. streams \in BOOLEAN
  BY DEF Init
<1> QED
  BY <1>2, <1>3, <1>5, <1>6, <1>7, <1>8 DEF IInv

\* Each register access brings the device one step nearer to the state the
\* driver wants, whatever the firmware left.
LEMMA InitializeWriteIInv ==
    ASSUME IInv, InitializeWrite
    PROVE  IInv'
<1> USE DEF IInv
<1>1. /\ status = "none" /\ boot' = boot + 1
      /\ UNCHANGED <<status, streams, cpu, owed, line>>
      /\ uart' = write_register(uart, Program[boot].reg, Program[boot].val)
  BY DEF InitializeWrite
<1>2. boot \in 1 .. 8
  <2>1. Len(Program) = 8
    BY DEF Program
  <2> QED
    BY <2>1 DEF InitializeWrite
<1>3. /\ Len(uart.txq) <= 1 /\ uart.txq \in Seq(Bytes) /\ Len(uart.txq) \in Nat
      /\ uart.present => Programmed
  BY <1>1 DEF BootInv, DeviceType, Device
<1>4. CpuType' /\ boot' \in 1 .. 9
  BY <1>1, <1>2 DEF CpuType
<1>5. RunInv' /\ WorkingInv'
  BY <1>1 DEF RunInv, WorkingInv
<1>6. ASSUME ~ uart.present
      PROVE  IInv'
  <2>1. uart' = uart
    BY <1>1, <1>6 DEF write_register
  <2>2. DeviceType' /\ BootInv'
    BY <1>1, <1>6, <2>1 DEF DeviceType, BootInv
  <2> QED
    BY <1>1, <1>4, <1>5, <2>2
<1>7. ASSUME uart.present, DeviceType', uart'.present, Len(uart'.txq) <= 1, Programmed'
      PROVE  IInv'
  <2>1. BootInv'
    BY <1>1, <1>7 DEF BootInv
  <2> QED
    BY <1>1, <1>4, <1>5, <1>7, <2>1
<1>8. Len(<<>>) = 0 /\ <<>> \in Seq(Bytes) /\ \A k \in 1 .. Len(<<>>) : FALSE
  OBVIOUS
<1>9. CASE uart.present /\ boot = 1
  <2>1. uart' = WriteFifoControl(uart, {})
    BY <1>1, <1>9 DEF write_register, Program, Write
  <2>2. PICK q \in {<<>>, uart.txq} :
            q = IF uart.fifo # ("ENABLE" \in {}) \/ "CLEAR_TRANSMIT" \in {}
                THEN <<>> ELSE uart.txq
    OBVIOUS
  <2>3. PICK b \in {NoByte, uart.rbr} :
            b = IF uart.fifo # ("ENABLE" \in {}) \/ "CLEAR_RECEIVE" \in {}
                THEN NoByte ELSE uart.rbr
    OBVIOUS
  <2>4. ("ENABLE" \in {}) = FALSE
    OBVIOUS
  <2>5. uart' = [uart EXCEPT !.fifo = FALSE, !.txq = q, !.rbr = b]
    BY <2>1, <2>2, <2>3, <2>4, Zenon DEF WriteFifoControl
  <2>6. /\ q \in Seq(Bytes) /\ b \in Bytes \cup {NoByte} /\ Len(q) <= 1
        /\ (\A k \in 1 .. Len(uart.txq) : uart.txq[k] = "firmware")
              => \A k \in 1 .. Len(q) : q[k] = "firmware"
    <3>1. uart.rbr \in Bytes \cup {NoByte}
      BY DEF DeviceType, Device
    <3>2. CASE q = <<>>
      BY <1>8, <2>3, <3>1, <3>2
    <3>3. CASE q = uart.txq
      BY <1>3, <2>3, <3>1, <3>3
    <3> QED
      BY <2>2, <3>2, <3>3
  <2>7. PICK e \in BOOLEAN : uart' = [uart EXCEPT !.fifo = e, !.txq = q, !.rbr = b]
    BY <2>5
  <2>8. DeviceType' /\ uart'.txq = q /\ uart'.present = uart.present
    BY <2>6, <2>7, ZenonT(30) DEF DeviceType, Device
  <2>9. Programmed'
    BY <1>1, <1>3, <1>9, <2>1, <2>8, <2>6 DEF Programmed
  <2> QED
    BY <1>3, <1>7, <1>9, <2>8, <2>9, <2>6
<1>10. CASE uart.present /\ boot = 2
  <2>1. uart' = [uart EXCEPT !.dlab = TRUE, !.bits = 5]
    BY <1>1, <1>10 DEF write_register, Program, Write
  <2>2. /\ DeviceType' /\ uart'.dlab
        /\ uart'.present = uart.present /\ uart'.txq = uart.txq
    BY <2>1, ZenonT(30) DEF DeviceType, Device
  <2>3. Programmed'
    BY <1>1, <1>3, <1>10, <2>1, <2>2 DEF Programmed
  <2> QED
    BY <1>3, <1>7, <1>10, <2>2, <2>3
<1>11. CASE uart.present /\ boot = 3
  <2>1. uart' = WriteData(uart, 3) /\ uart.dlab
    BY <1>1, <1>3, <1>11 DEF write_register, Program, Write, Programmed
  <2>2. PICK x \in 0 .. 255 : x = 3
    OBVIOUS
  <2>3. uart' = [uart EXCEPT !.low = x]
    BY <2>1, <2>2 DEF WriteData
  <2>4. DeviceType' /\ uart'.low = x
    BY <2>3, ZenonT(30) DEF DeviceType, Device
  <2>5. uart'.present = uart.present /\ uart'.dlab = uart.dlab /\ uart'.txq = uart.txq
    BY <2>3 DEF DeviceType, Device
  <2>6. uart.dlab /\ uart'.low = 3 /\ boot' = 4
    BY <1>1, <1>11, <2>1, <2>2, <2>4
  <2>7. Programmed'
    BY <1>3, <1>11, <2>6, <2>5 DEF Programmed
  <2> QED
    BY <1>3, <1>7, <1>11, <2>4, <2>5, <2>7
<1>12. CASE uart.present /\ boot = 4
  <2>1. uart' = [uart EXCEPT !.high = 0] /\ uart.dlab
    BY <1>1, <1>3, <1>12 DEF write_register, Program, Write, Programmed
  <2>2. PICK x \in 0 .. 255 : x = 0
    OBVIOUS
  <2>3. uart' = [uart EXCEPT !.high = x]
    BY <2>1, <2>2
  <2>4. DeviceType' /\ uart'.high = x
    BY <2>3, ZenonT(30) DEF DeviceType, Device
  <2>5. /\ uart'.present = uart.present /\ uart'.dlab = uart.dlab /\ uart'.txq = uart.txq
        /\ uart'.low = uart.low
    BY <2>3 DEF DeviceType, Device
  <2>6. uart.dlab /\ uart'.high = 0 /\ boot' = 5
    BY <1>1, <1>12, <2>1, <2>2, <2>4
  <2>7. Programmed'
    BY <1>3, <1>12, <2>6, <2>5 DEF Programmed
  <2> QED
    BY <1>3, <1>7, <1>12, <2>4, <2>5, <2>7
<1>13. CASE uart.present /\ boot = 5
  <2>1. uart' = [uart EXCEPT !.dlab = "DLAB" \in {"DS_8"},
                             !.bits = IF "DS_8" \in {"DS_8"} THEN 8 ELSE 5]
    BY <1>1, <1>13 DEF write_register, Program, Write
  <2>2. /\ ("DLAB" \in {"DS_8"}) = FALSE
        /\ (IF "DS_8" \in {"DS_8"} THEN 8 ELSE 5) = 8
    OBVIOUS
  <2>3. uart' = [uart EXCEPT !.dlab = FALSE, !.bits = 8]
    BY <2>1, <2>2, Zenon
  <2>4. /\ DeviceType' /\ ~ uart'.dlab /\ uart'.bits = 8
        /\ uart'.present = uart.present /\ uart'.txq = uart.txq /\ uart'.low = uart.low
        /\ uart'.high = uart.high
    BY <2>3, ZenonT(30) DEF DeviceType, Device
  <2>5. Programmed'
    BY <1>1, <1>3, <1>13, <2>1, <2>4 DEF Programmed
  <2> QED
    BY <1>3, <1>7, <1>13, <2>4, <2>5
<1>14. CASE uart.present /\ boot = 6
  <2>1. uart' = WriteFifoControl(uart, {"ENABLE", "CLEAR_RECEIVE", "CLEAR_TRANSMIT"})
    BY <1>1, <1>14 DEF write_register, Program, Write
  <2>2. PICK q \in Seq(Bytes), e \in BOOLEAN : q = <<>> /\ e = TRUE
    BY <1>8
  <2>3. uart' = [uart EXCEPT !.fifo = e, !.txq = q, !.rbr = NoByte]
    BY <2>1, <2>2 DEF WriteFifoControl
  <2>4. /\ DeviceType' /\ uart'.fifo /\ uart'.txq = <<>> /\ uart'.rbr = NoByte
        /\ uart'.present = uart.present /\ uart'.dlab = uart.dlab /\ uart'.bits = uart.bits
        /\ uart'.low = uart.low /\ uart'.high = uart.high
    BY <2>2, <2>3, ZenonT(30) DEF DeviceType, Device
  <2>5. Programmed'
    BY <1>1, <1>3, <1>14, <2>1, <2>4, <1>8 DEF Programmed
  <2> QED
    BY <1>3, <1>7, <1>14, <2>4, <2>5, <1>8
<1>15. CASE uart.present /\ boot = 7
  <2>1. uart' = [uart EXCEPT !.loop = TRUE]
    BY <1>1, <1>15 DEF write_register, Program, Write
  <2>2. /\ DeviceType' /\ uart'.loop
        /\ uart'.present = uart.present /\ uart'.dlab = uart.dlab /\ uart'.bits = uart.bits
        /\ uart'.low = uart.low /\ uart'.high = uart.high /\ uart'.fifo = uart.fifo
        /\ uart'.rbr = uart.rbr /\ uart'.txq = uart.txq
    BY <2>1 DEF DeviceType, Device
  <2>3. Programmed'
    BY <1>1, <1>3, <1>15, <2>1, <2>2 DEF Programmed
  <2> QED
    BY <1>3, <1>7, <1>15, <2>2, <2>3
<1>16. CASE uart.present /\ boot = 8
  <2>1. /\ uart' = WriteData(uart, TestByte) /\ ~ uart.dlab /\ uart.txq = <<>>
        /\ uart.rbr = NoByte
    BY <1>1, <1>3, <1>16 DEF write_register, Program, Write, Programmed
  <2>2. Len(uart.txq) < Depth(uart)
    BY <1>8, <2>1, ConsoleAssumption DEF Depth
  <2>3. /\ Append(uart.txq, TestByte) = <<TestByte>> /\ <<TestByte>> \in Seq(Bytes)
        /\ Len(<<TestByte>>) = 1
    BY <2>1 DEF Bytes
  <2>4. PICK q \in Seq(Bytes) : q = <<TestByte>>
    BY <2>3
  <2>5. uart' = [uart EXCEPT !.txq = q]
    BY <2>1, <2>2, <2>3, <2>4 DEF WriteData
  <2>6. DeviceType' /\ uart'.txq = q
    BY <2>5, ZenonT(30) DEF DeviceType, Device
  <2>7. /\ uart'.present = uart.present /\ uart'.dlab = uart.dlab /\ uart'.bits = uart.bits
        /\ uart'.low = uart.low /\ uart'.high = uart.high /\ uart'.fifo = uart.fifo
        /\ uart'.loop = uart.loop /\ uart'.rbr = uart.rbr
    BY <2>5 DEF DeviceType, Device
  <2>8. uart'.txq = <<TestByte>> /\ uart.rbr = NoByte /\ boot' = 9
    BY <1>1, <1>16, <2>1, <2>4, <2>6
  <2>9. Programmed'
    BY <1>3, <1>16, <2>8, <2>7 DEF Programmed
  <2> QED
    BY <1>3, <1>7, <1>16, <2>3, <2>6, <2>8, <2>7, <2>9
<1> QED
  BY <1>2, <1>6, <1>9, <1>10, <1>11, <1>12, <1>13, <1>14, <1>15, <1>16

\* The test byte has come back, or it has not.
LEMMA InitializeTestIInv ==
    ASSUME IInv, InitializeTest
    PROVE  IInv'
<1> USE DEF IInv
<1>1. /\ status = "none" /\ boot = 9 /\ UNCHANGED <<boot, streams, cpu, owed, line>>
      /\ owed = <<>> /\ line = "nothing" /\ cpu.seen = FALSE /\ Len(uart.txq) <= 1
      /\ uart.present => Programmed
  <2>1. Len(Program) = 8
    BY DEF Program
  <2> QED
    BY <2>1 DEF InitializeTest, BootInv
<1>2. CpuType'
  BY <1>1 DEF CpuType
<1>3. uart.txq \in Seq(Bytes) /\ Len(uart.txq) \in Nat
  BY DEF DeviceType, Device
<1>4. CASE uart.present /\ uart.rbr = TestByte
  <2>1. /\ status' = "SYSTEM_OK"
        /\ uart' = write_register([uart EXCEPT !.rbr = NoByte], "UART_MODEM_CONTROL",
                                  {"RTS", "DTR", "OUT1", "OUT2"})
    BY <1>4 DEF InitializeTest
  <2>2. PICK b \in Bytes \cup {NoByte} : b = NoByte
    OBVIOUS
  <2> DEFINE u == [uart EXCEPT !.rbr = b]
  <2>3. u \in Device
    BY DEF DeviceType, Device
  <2>4. /\ u.present = uart.present /\ u.dlab = uart.dlab /\ u.bits = uart.bits
        /\ u.low = uart.low /\ u.high = uart.high /\ u.fifo = uart.fifo /\ u.txq = uart.txq
    BY DEF DeviceType, Device
  <2>5. uart' = write_register(u, "UART_MODEM_CONTROL", {"RTS", "DTR", "OUT1", "OUT2"})
    BY <2>1, <2>2
  <2> HIDE DEF u
  <2>6. ("LOOPBACK" \in {"RTS", "DTR", "OUT1", "OUT2"}) = FALSE
    OBVIOUS
  <2>7. uart' = [u EXCEPT !.loop = "LOOPBACK" \in {"RTS", "DTR", "OUT1", "OUT2"}]
    BY <1>4, <2>4, <2>5 DEF write_register
  <2>8. uart' = [u EXCEPT !.loop = FALSE]
    BY <2>6, <2>7, Zenon
  <2>9. PICK l \in BOOLEAN : l = FALSE
    OBVIOUS
  <2>10. uart' = [u EXCEPT !.loop = l]
    BY <2>8, <2>9
  <2>11. DeviceType' /\ uart'.loop = l
    BY <2>3, <2>10, ZenonT(30) DEF DeviceType, Device
  <2>12. /\ uart'.present = u.present /\ uart'.dlab = u.dlab /\ uart'.bits = u.bits
         /\ uart'.low = u.low /\ uart'.high = u.high /\ uart'.fifo = u.fifo
         /\ uart'.txq = u.txq
    BY <2>3, <2>10 DEF Device
  <2>13. /\ uart.low = 3 /\ uart.high = 0 /\ ~ uart.dlab /\ uart.bits = 8 /\ uart.fifo
         /\ uart.txq = <<>>
    BY <1>1, <1>4, ConsoleAssumption DEF Programmed
  <2>14. Len(<<>>) = 0 /\ \A k \in 1 .. Len(<<>>) : FALSE
    OBVIOUS
  <2>15. RunInv'
    BY <1>1, <2>4, <2>12, <2>13, <2>14, ConsoleAssumption DEF RunInv
  <2>16. WorkingInv'
    <3>1. Readable(uart)'
      BY <2>4, <2>12, <2>13 DEF Readable
    <3>2. line' \notin {"garbage", TestByte}
      BY <1>1 DEF TestByte
    <3> QED
      BY <1>1, <1>4, <2>4, <2>9, <2>11, <2>12, <2>13, <2>14, <3>1, <3>2 DEF WorkingInv
  <2> QED
    BY <1>1, <1>2, <2>1, <2>11, <2>15, <2>16 DEF BootInv
<1>5. CASE ~(uart.present /\ uart.rbr = TestByte)
  <2>1. status' = "SYSTEM_ERR_IO_INVALID" /\ uart' = [uart EXCEPT !.rbr = NoByte]
    BY <1>5 DEF InitializeTest
  <2>2. PICK b \in Bytes \cup {NoByte} : b = NoByte
    OBVIOUS
  <2>3. uart' = [uart EXCEPT !.rbr = b]
    BY <2>1, <2>2
  <2>4. DeviceType'
    BY <2>3, ZenonT(30) DEF DeviceType, Device
  <2>5. /\ uart'.present = uart.present /\ uart'.dlab = uart.dlab
        /\ uart'.fifo = uart.fifo /\ uart'.txq = uart.txq
    BY <2>3 DEF DeviceType, Device
  <2>6. uart.present => ~ uart.dlab /\ uart.fifo
    BY <1>1 DEF Programmed
  <2>7. RunInv'
    BY <1>1, <1>3, <2>5, <2>6, ConsoleAssumption DEF RunInv
  <2> QED
    BY <1>1, <1>2, <2>1, <2>4, <2>7 DEF BootInv, WorkingInv
<1> QED
  BY <1>4, <1>5

\* The streams are opened whatever the result.
LEMMA InitializeStreamsIInv ==
    ASSUME IInv, InitializeStreams
    PROVE  IInv'
<1> USE DEF IInv
<1>1. /\ status # "none" /\ streams' = TRUE
      /\ UNCHANGED <<uart, boot, status, cpu, owed, line>>
  BY DEF InitializeStreams
<1>2. DeviceType' /\ CpuType'
  BY <1>1 DEF DeviceType, CpuType
<1>3. BootInv' /\ RunInv' /\ WorkingInv'
  BY <1>1 DEF BootInv, RunInv, WorkingInv, Readable
<1> QED
  BY <1>1, <1>2, <1>3

-----------------------------------------------------------------------------
(* The processor *)

\* The driver has read that the transmitter is empty.
LEMMA PutWaitIInv ==
    ASSUME IInv, PutWait
    PROVE  IInv'
<1>1. /\ cpu' = [cpu EXCEPT !.seen = TRUE] /\ streams
      /\ UNCHANGED <<uart, boot, status, streams, owed, line>>
      /\ uart.present => uart.txq = <<>>
      /\ status # "none"
  BY DEF PutWait, TransmitterEmpty, IInv, BootInv
<1>2. CpuType'
  <2>1. cpu' \in [todo : Seq(Ops), seen : BOOLEAN, gates : BOOLEAN, nmi : BOOLEAN,
                   panic : BOOLEAN, idt : BOOLEAN, raised : 0 .. MaxRaised]
        /\ cpu'.todo = cpu.todo
    BY <1>1 DEF IInv, CpuType
  <2> QED
    BY <2>1 DEF IInv, CpuType
<1> QED
  BY <1>1, <1>2, CpuStep

\* An instruction.
LEMMA ExecuteIInv ==
    ASSUME IInv, Execute
    PROVE  IInv'
<1>1. /\ UNCHANGED <<uart, boot, status, streams, owed, line>>
      /\ streams /\ Head(cpu.todo).op # "halt"
      /\ cpu' = [cpu EXCEPT !.todo  = Tail(cpu.todo),
                            !.gates = (cpu.gates \/ Current.op = "sti") /\ Current.op # "cli",
                            !.idt   = cpu.idt \/ Current.op = "lidt"]
  BY DEF Execute, Current
<1>2. Ends(Tail(cpu.todo))
  BY <1>1, TailEnds DEF IInv, CpuType
<1> DEFINE t == Tail(cpu.todo)
           g == (cpu.gates \/ Current.op = "sti") /\ Current.op # "cli"
           d == cpu.idt \/ Current.op = "lidt"
<1>3. g \in BOOLEAN /\ d \in BOOLEAN /\ cpu' = [cpu EXCEPT !.todo = t, !.gates = g, !.idt = d]
  BY <1>1, Zenon
<1>4. t \in Seq(Ops) /\ Ends(t)
  BY <1>2 DEF Ends
<1> HIDE DEF t, g, d
<1>5. /\ cpu' \in [todo : Seq(Ops), seen : BOOLEAN, gates : BOOLEAN, nmi : BOOLEAN,
                    panic : BOOLEAN, idt : BOOLEAN, raised : 0 .. MaxRaised]
      /\ cpu'.todo = t /\ cpu'.seen = cpu.seen
  BY <1>3, <1>4 DEF IInv, CpuType
<1>6. CpuType'
  BY <1>4, <1>5 DEF CpuType
<1>7. cpu.seen => status # "none" /\ (uart.present => uart.txq = <<>>)
  BY <1>1 DEF IInv, BootInv, RunInv
<1> QED
  BY <1>1, <1>5, <1>6, <1>7, CpuStep

\* A panic of memory::initialize.
LEMMA PanikIInv ==
    ASSUME IInv, Panik
    PROVE  IInv'
<1>1. /\ UNCHANGED <<uart, boot, status, streams, owed, line>> /\ streams /\ ~ cpu.seen
      /\ \E t \in {log_panik("out of memory"), assert_fail} :
            cpu' = [cpu EXCEPT !.todo = t, !.panic = TRUE]
  BY DEF Panik
<1>2. PICK t \in {log_panik("out of memory"), assert_fail} :
            cpu' = [cpu EXCEPT !.todo = t, !.panic = TRUE]
  BY <1>1
<1>3. Ends(t) /\ t \in Seq(Ops)
  <2>1. "out of memory" \in Texts
    BY DEF Texts
  <2>2. Ends(t)
    BY <2>1, <1>2, PanikEnds
  <2> QED
    BY <2>2 DEF Ends
<1>4. /\ cpu' \in [todo : Seq(Ops), seen : BOOLEAN, gates : BOOLEAN, nmi : BOOLEAN,
                    panic : BOOLEAN, idt : BOOLEAN, raised : 0 .. MaxRaised]
      /\ cpu'.todo = t /\ cpu'.seen = cpu.seen
  BY <1>2, <1>3 DEF IInv, CpuType
<1>5. CpuType'
  BY <1>3, <1>4 DEF CpuType
<1> QED
  BY <1>1, <1>4, <1>5, CpuStep

\* An exception or an interrupt: what was seen of the transmitter is forgotten
\* with the code that had seen it.
LEMMA RaiseIInv ==
    ASSUME IInv, NEW vector \in Vectors, NEW err_code \in ErrorCodes, Raise(vector, err_code)
    PROVE  IInv'
<1>1. /\ UNCHANGED <<uart, boot, status, streams, owed, line>> /\ CanRaise(vector)
      /\ cpu' = [cpu EXCEPT !.todo = interrupt_common(vector, err_code), !.seen = FALSE,
                            !.panic = TRUE, !.gates = FALSE,
                            !.nmi = cpu.nmi \/ vector = EXCEPTION_NON_MASKABLE_INTERRUPT,
                            !.raised = IF vector \in (0 .. 31) \ {2} THEN cpu.raised + 1
                                       ELSE cpu.raised]
  BY DEF Raise
<1>2. cpu.raised \in 0 .. MaxRaised
  BY DEF IInv, CpuType
<1>3. vector \in (0 .. 31) \ {2} => cpu.raised < MaxRaised
  <2> SUFFICES ASSUME vector \in (0 .. 31) \ {2}
               PROVE  cpu.raised < MaxRaised
    OBVIOUS
  <2>1. vector # 2 /\ vector < 32 /\ ~(vector >= 32)
    OBVIOUS
  <2> QED
    BY <1>1, <2>1, Zenon DEF CanRaise, EXCEPTION_NON_MASKABLE_INTERRUPT
<1>4. (IF vector \in (0 .. 31) \ {2} THEN cpu.raised + 1 ELSE cpu.raised) \in 0 .. MaxRaised
  BY <1>2, <1>3, ConsoleAssumption
<1> DEFINE t == interrupt_common(vector, err_code)
           n == cpu.nmi \/ vector = EXCEPTION_NON_MASKABLE_INTERRUPT
           r == IF vector \in (0 .. 31) \ {2} THEN cpu.raised + 1 ELSE cpu.raised
<1>5. /\ n \in BOOLEAN /\ r \in 0 .. MaxRaised
      /\ cpu' = [cpu EXCEPT !.todo = t, !.seen = FALSE, !.panic = TRUE, !.gates = FALSE,
                            !.nmi = n, !.raised = r]
  BY <1>1, <1>4, Zenon
<1>6. Ends(t) /\ t \in Seq(Ops)
  BY HandlersEnd DEF Ends
<1> HIDE DEF t, n, r
<1>7. /\ cpu' \in [todo : Seq(Ops), seen : BOOLEAN, gates : BOOLEAN, nmi : BOOLEAN,
                    panic : BOOLEAN, idt : BOOLEAN, raised : 0 .. MaxRaised]
      /\ cpu'.todo = t /\ cpu'.seen = FALSE
  BY <1>5, <1>6 DEF IInv, CpuType
<1>8. CpuType'
  BY <1>6, <1>7 DEF CpuType
<1> QED
  BY <1>1, <1>7, <1>8, CpuStep

\* The character is written to a transmitter that was seen empty, and still is.
LEMMA PutWriteIInv ==
    ASSUME IInv, PutWrite
    PROVE  IInv'
<1> USE DEF IInv
<1> DEFINE c == Head(cpu.todo).piece
<1>1. /\ streams /\ Head(cpu.todo).op = "putc" /\ cpu.seen
      /\ uart' = write_register(uart, "UART_DATA", c)
      /\ owed' = IF status = "SYSTEM_OK" THEN Append(owed, c) ELSE owed
      /\ cpu' = [cpu EXCEPT !.todo = Tail(cpu.todo), !.seen = FALSE]
      /\ UNCHANGED <<boot, status, streams, line>>
  BY DEF PutWrite, Current
<1>2. c \in Texts
  <2>1. cpu.todo \in Seq(Ops) /\ cpu.todo # <<>>
    BY DEF CpuType, Ends
  <2>2. Head(cpu.todo) \in Ops
    BY <2>1
  <2> QED
    BY <1>1, <2>2 DEF Ops, Instructions
<1>3. /\ cpu'.seen = FALSE /\ CpuType'
  <2>1. Ends(Tail(cpu.todo))
    BY <1>1, TailEnds DEF CpuType
  <2>2. PICK t : t = Tail(cpu.todo) /\ cpu' = [cpu EXCEPT !.todo = t, !.seen = FALSE]
    BY <1>1
  <2>3. t \in Seq(Ops) /\ Ends(t)
    BY <2>1, <2>2 DEF Ends
  <2>4. /\ cpu' \in [todo : Seq(Ops), seen : BOOLEAN, gates : BOOLEAN, nmi : BOOLEAN,
                      panic : BOOLEAN, idt : BOOLEAN, raised : 0 .. MaxRaised]
        /\ cpu'.todo = t /\ cpu'.seen = FALSE
    BY <2>2, <2>3 DEF CpuType
  <2> QED
    BY <2>3, <2>4 DEF CpuType
<1>4. status # "none" /\ boot = 9
  BY <1>1 DEF BootInv, RunInv
<1> HIDE DEF c
<1>5. CASE ~ uart.present
  <2>1. uart' = uart /\ status # "SYSTEM_OK"
    BY <1>1, <1>5 DEF write_register, WorkingInv
  <2>2. DeviceType' /\ RunInv' /\ BootInv' /\ WorkingInv'
    BY <1>1, <1>4, <1>5, <2>1 DEF DeviceType, RunInv, BootInv, WorkingInv
  <2> QED
    BY <1>1, <1>3, <2>2
<1>6. CASE uart.present
  <2>1. uart.txq = <<>> /\ ~ uart.dlab /\ uart.fifo
    BY <1>1, <1>4, <1>6 DEF RunInv
  <2>2. uart' = WriteData(uart, c)
    BY <1>1, <1>6 DEF write_register
  <2>3. Len(uart.txq) < Depth(uart)
    <3>1. Len(<<>>) = 0
      OBVIOUS
    <3> QED
      BY <2>1, <3>1, ConsoleAssumption DEF Depth
  <2>4. uart' = [uart EXCEPT !.txq = Append(uart.txq, c)]
    BY <2>1, <2>2, <2>3 DEF WriteData
  <2>5. /\ Append(uart.txq, c) = <<c>> /\ <<c>> \in Seq(Bytes)
        /\ Len(<<c>>) = 1 /\ \A k \in 1 .. Len(<<c>>) : <<c>>[k] \in Texts
    <3>1. c \in Bytes
      BY <1>2 DEF Bytes
    <3> QED
      BY <1>2, <2>1, <3>1
  <2>6. PICK q \in Seq(Bytes) : q = <<c>> /\ q = Append(uart.txq, c)
    BY <2>5
  <2>7. uart' = [uart EXCEPT !.txq = q]
    BY <2>4, <2>6
  <2>8. DeviceType' /\ uart'.txq = q
    BY <2>7, ZenonT(30) DEF DeviceType, Device
  <2>9. /\ uart'.present = uart.present /\ uart'.dlab = uart.dlab /\ uart'.bits = uart.bits
        /\ uart'.low = uart.low /\ uart'.high = uart.high /\ uart'.fifo = uart.fifo
        /\ uart'.loop = uart.loop
    BY <2>7 DEF DeviceType, Device
  <2>10. Len(q) = 1 /\ \A k \in 1 .. Len(q) : q[k] \in Texts
    BY <2>5, <2>6
  <2>11. RunInv'
    <3>1. Len(uart'.txq) <= FIFO_DEPTH
      BY <2>8, <2>10, ConsoleAssumption
    <3> QED
      BY <1>1, <1>3, <1>4, <2>1, <2>9, <3>1 DEF RunInv
  <2>12. WorkingInv'
    <3> SUFFICES ASSUME status = "SYSTEM_OK"
                 PROVE  WorkingInv'
      BY <1>1 DEF WorkingInv
    <3>1. owed = uart.txq /\ ~ uart.loop /\ Readable(uart) /\ line \notin {"garbage", TestByte}
      BY DEF WorkingInv
    <3>2. owed' = q
      BY <1>1, <2>6, <3>1
    <3>3. Readable(uart)'
      BY <2>9, <3>1 DEF Readable
    <3> QED
      BY <1>1, <1>6, <2>8, <2>9, <2>10, <3>1, <3>2, <3>3 DEF WorkingInv
  <2> QED
    BY <1>1, <1>3, <1>4, <2>8, <2>11, <2>12 DEF BootInv
<1> QED
  BY <1>5, <1>6

-----------------------------------------------------------------------------
\* The invariant is inductive.
LEMMA NextIInv == IInv /\ [Next]_vars => IInv'
<1> SUFFICES ASSUME IInv, [Next]_vars PROVE IInv'
  OBVIOUS
<1>1. CASE UNCHANGED vars
  <2>1. UNCHANGED <<uart, boot, status, streams, owed, line>> /\ cpu' = cpu
    BY <1>1 DEF vars
  <2>2. CpuType'
    BY <2>1 DEF IInv, CpuType
  <2>3. cpu'.seen => status # "none" /\ (uart.present => uart.txq = <<>>)
    BY <2>1 DEF IInv, BootInv, RunInv
  <2> QED
    BY <2>1, <2>2, <2>3, CpuStep
<1> QED
  BY <1>1, TransmitIInv, InitializeWriteIInv, InitializeTestIInv, InitializeStreamsIInv,
     PutWaitIInv, PutWriteIInv, ExecuteIInv, PanikIInv, RaiseIInv DEF Next

\* The invariant holds throughout.
THEOREM Invariance == Spec => []IInv
BY InitIInv, NextIInv, PTL DEF Spec

\* The FIFO never holds more than it can, and whatever the processor still has
\* to do, after any panic and any interrupt of one, ends in its only halt.
THEOREM ConsoleTypes == Spec => []TypeOK
<1>1. IInv => TypeOK
  <2> SUFFICES ASSUME IInv PROVE TypeOK
    OBVIOUS
  <2> USE DEF IInv
  <2>1. /\ \A f \in {"present", "dlab", "fifo", "loop"} : uart[f] \in BOOLEAN
        /\ uart.bits \in {5, 8} /\ uart.low \in 0 .. 255 /\ uart.high \in 0 .. 255
        /\ uart.txq \in Seq(Bytes)
    BY DEF DeviceType, Device
  <2>2. Len(uart.txq) <= FIFO_DEPTH
    BY <2>1, ConsoleAssumption DEF BootInv, RunInv
  <2>3. /\ \A f \in {"seen", "gates", "nmi", "panic", "idt"} : cpu[f] \in BOOLEAN
        /\ cpu.raised \in 0 .. MaxRaised /\ Ends(cpu.todo)
    BY DEF CpuType
  <2>4. cpu.todo \in Seq(Ops) /\ 0 < Len(cpu.todo) /\ cpu.todo # <<>>
    BY <2>3 DEF Ends
  <2>5. DOMAIN cpu.todo = 1 .. Len(cpu.todo) /\ Len(cpu.todo) \in 1 .. Len(cpu.todo)
    BY <2>4
  <2>6. \A i \in DOMAIN cpu.todo : cpu.todo[i].op = "halt" <=> i = Len(cpu.todo)
    BY <2>3, <2>5 DEF Ends
  <2>7. Last(cpu.todo).op = "halt"
    BY <2>5, <2>6 DEF Last
  <2> QED
    BY <2>1, <2>2, <2>3, <2>4, <2>6, <2>7 DEF TypeOK
<1> QED
  BY <1>1, Invariance, PTL

\* Once the self test has passed, what uart::putc wrote leaves the device in
\* order and readable, whatever came between its two register accesses.
THEOREM InOrder == Spec => []OutputInOrder
<1>1. IInv => OutputInOrder
  BY DEF IInv, WorkingInv, OutputInOrder
<1> QED
  BY <1>1, Invariance, PTL
=============================================================================
