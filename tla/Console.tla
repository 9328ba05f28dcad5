------------------------------ MODULE Console ------------------------------
(***************************************************************************)
(* The kernel from its entry to its end as seen on the serial line:        *)
(* kernel_main (main.cpp), the serial driver (uart.cpp), the streams on it *)
(* (drivers.cpp, putc.c, fputs.c), the logger (logger.cpp), the            *)
(* initialisation of the processor (cpu.cpp, gdt.cpp, idt.cpp) and the     *)
(* handlers that print and stop (idt.S, idt.cpp), with the 16550 UART.     *)
(*                                                                         *)
(* One processor runs.  It prints a character by reading the line status   *)
(* until the transmitter is empty and then writing: two register accesses, *)
(* and an exception or an interrupt may come between them and print too.   *)
(* A character of the model is a piece of a message: what one call of      *)
(* fprintf or fputs of the logger prints.                                  *)
(***************************************************************************)
EXTENDS Integers, Sequences, FiniteSets, SequencesExt

CONSTANTS
  FIFO_DEPTH,        \* 16 in a 16550
  Frames,            \* call frames above a handler
  STACKTRACE_MAX,    \* 64 in trace.c
  MaxRaised,         \* bound: exceptions
  NoByte             \* an empty receive buffer

TestByte == "0xae"

ASSUME ConsoleAssumption ==
  /\ FIFO_DEPTH \in Nat \ {0}
  /\ Frames \in Nat /\ STACKTRACE_MAX \in Nat /\ MaxRaised \in Nat
  /\ NoByte # TestByte

VARIABLES
  uart,      \* the device
  boot,      \* the next register access of uart::initialize
  status,    \* its result, which arch_initialize ignores
  streams,   \* stdout and stderr point to simple_file
  cpu,       \* the processor: what it has still to do, and its interrupt state
  owed,      \* history: the pieces written to a working device and not yet on the line
  line       \* history: the last piece of the kernel on the line

vars == <<uart, boot, status, streams, cpu, owed, line>>

\* seen: the transmitter was empty when last read; gates: interrupts are
\* enabled; nmi: non-maskable interrupts are blocked; panic: log_panik was called.
TypeOK ==
  /\ \A f \in {"present", "dlab", "fifo", "loop"} : uart[f] \in BOOLEAN
  /\ uart.bits \in {5, 8} /\ uart.low \in 0 .. 255 /\ uart.high \in 0 .. 255
  /\ Len(uart.txq) <= FIFO_DEPTH
  /\ boot \in 1 .. 9 /\ status \in {"none", "SYSTEM_OK", "SYSTEM_ERR_IO_INVALID"}
  /\ streams \in BOOLEAN
  /\ \A f \in {"seen", "gates", "nmi", "panic", "idt"} : cpu[f] \in BOOLEAN
  /\ cpu.raised \in 0 .. MaxRaised
  /\ cpu.todo # <<>> /\ \A i \in DOMAIN cpu.todo : cpu.todo[i].op = "halt" <=> i = Len(cpu.todo)
  /\ Last(cpu.todo).op = "halt"

----------------------------------------------------------------------------
(***************************************************************************)
(* The device.  With the FIFO enabled the transmitter counts as empty when *)
(* the FIFO is, and takes FIFO_DEPTH characters from then on; a character  *)
(* that finds it full is lost.  In loopback mode characters go to the      *)
(* receive buffer.  A device that is not there ignores writes and reads as *)
(* ones.                                                                   *)
(***************************************************************************)
Depth(u) == IF u.fifo THEN FIFO_DEPTH ELSE 1
TransmitterEmpty(u) == u.txq = <<>>

WriteData(u, val) ==
  CASE u.dlab                               -> [u EXCEPT !.low = val]
    [] ~ u.dlab /\ Len(u.txq) < Depth(u)    -> [u EXCEPT !.txq = Append(@, val)]
    [] OTHER                                -> u

WriteFifoControl(u, val) ==
  LET toggled == u.fifo # ("ENABLE" \in val)
  IN  [u EXCEPT !.fifo = "ENABLE" \in val,
                !.txq  = IF toggled \/ "CLEAR_TRANSMIT" \in val THEN <<>> ELSE @,
                !.rbr  = IF toggled \/ "CLEAR_RECEIVE" \in val THEN NoByte ELSE @]

write_register(u, reg, val) ==
  CASE ~ u.present                                  -> u
    [] u.present /\ reg = "UART_DATA"               -> WriteData(u, val)
    [] u.present /\ reg = "UART_INTERRUPT"          -> IF u.dlab THEN [u EXCEPT !.high = val] ELSE u
    [] u.present /\ reg = "UART_FIFO_CONTROLLER"    -> WriteFifoControl(u, val)
    [] u.present /\ reg = "UART_LINE_CONTROL"       ->
         [u EXCEPT !.dlab = "DLAB" \in val, !.bits = IF "DS_8" \in val THEN 8 ELSE 5]
    [] u.present /\ reg = "UART_MODEM_CONTROL"      -> [u EXCEPT !.loop = "LOOPBACK" \in val]

\* The receiver at the other end is set to 38400 baud (divisor 3) and 8 bits.
Readable(u) == u.low = 3 /\ u.high = 0 /\ u.bits = 8

Transmit ==
  /\ uart.present /\ uart.txq # <<>>
  /\ LET byte == Head(uart.txq)
     IN  IF uart.loop
         THEN uart' = [uart EXCEPT !.txq = Tail(@), !.rbr = byte] /\ UNCHANGED <<owed, line>>
         ELSE /\ uart' = [uart EXCEPT !.txq = Tail(@)]
              /\ owed' = IF owed # <<>> /\ Head(owed) = byte THEN Tail(owed) ELSE owed
              /\ line' = CASE byte = "firmware"                    -> line
                           [] byte # "firmware" /\ Readable(uart)    -> byte
                           [] OTHER                                   -> "garbage"
  /\ UNCHANGED <<boot, status, streams, cpu>>

----------------------------------------------------------------------------
(***************************************************************************)
(* uart::initialize, one register access after the other.  The first write *)
(* goes to offset 2, the FIFO control register, where the interrupt enable *)
(* register at offset 1 is meant.                                          *)
(***************************************************************************)
Write(reg, val) == [reg |-> reg, val |-> val]

Program ==
  << Write("UART_FIFO_CONTROLLER", {}),
     Write("UART_LINE_CONTROL", {"DLAB"}),
     Write("UART_DATA", 3),
     Write("UART_INTERRUPT", 0),
     Write("UART_LINE_CONTROL", {"DS_8"}),
     Write("UART_FIFO_CONTROLLER", {"ENABLE", "CLEAR_RECEIVE", "CLEAR_TRANSMIT"}),
     Write("UART_MODEM_CONTROL", {"RTS", "DTR", "OUT2", "LOOPBACK"}),
     Write("UART_DATA", TestByte) >>

InitializeWrite ==
  /\ status = "none" /\ boot <= Len(Program)
  /\ uart' = write_register(uart, Program[boot].reg, Program[boot].val)
  /\ boot' = boot + 1
  /\ UNCHANGED <<status, streams, cpu, owed, line>>

\* The test byte is read back at once: it may not have arrived yet.  When it
\* has, loopback mode is left; when it has not, it stays.
InitializeTest ==
  /\ status = "none" /\ boot = Len(Program) + 1
  /\ IF uart.present /\ uart.rbr = TestByte
     THEN /\ uart' = write_register([uart EXCEPT !.rbr = NoByte], "UART_MODEM_CONTROL",
                                    {"RTS", "DTR", "OUT1", "OUT2"})
          /\ status' = "SYSTEM_OK"
     ELSE /\ uart' = [uart EXCEPT !.rbr = NoByte]
          /\ status' = "SYSTEM_ERR_IO_INVALID"
  /\ UNCHANGED <<boot, streams, cpu, owed, line>>

\* Whatever the result.
InitializeStreams ==
  /\ status # "none" /\ ~ streams
  /\ streams' = TRUE
  /\ UNCHANGED <<uart, boot, status, cpu, owed, line>>

----------------------------------------------------------------------------
(***************************************************************************)
(* What the kernel has to do, as a sequence: pieces to print (fprintf and  *)
(* fputs end in putc, putc in uart::putc) and instructions that change the *)
(* processor.                                                              *)
(***************************************************************************)
Pieces(s) == [i \in DOMAIN s |-> [op |-> "putc", piece |-> s[i]]]
Instruction(op) == <<[op |-> op]>>

vlog_msg(text) == Pieces(<<"color and tag", text, "reset">>)

\* Mutants: the last line forgotten, and the halt.
log_panik_NoLastLine(text) ==
  Pieces(<<"fatal error">>) \o vlog_msg(text) \o Instruction("cli") \o Instruction("halt")
log_panik_NoHalt(text) ==
  Pieces(<<"fatal error">>) \o vlog_msg(text) \o Pieces(<<"stopping system">>) \o Instruction("cli")

\* Ends in halt(false).
log_panik(text) ==
  Pieces(<<"fatal error">>) \o vlog_msg(text) \o Pieces(<<"stopping system">>)
  \o Instruction("cli") \o Instruction("halt")

assert_fail == vlog_msg("failed assertion") \o log_panik("assertion")

log_begin_intialization(component) == Pieces(<<component>>)
log_end_intialization == Pieces(<<"OK">>)

\* The statistics, one message of several, follow the OK.
memory_initialize ==
  log_begin_intialization("physical") \o log_end_intialization \o vlog_msg("statistics")
  \o log_begin_intialization("virtual") \o log_end_intialization \o vlog_msg("statistics")
  \o log_begin_intialization("heap") \o log_end_intialization

gdt_initialize == log_begin_intialization("GDT") \o Instruction("lgdt") \o log_end_intialization
interrupts_initialize ==
  log_begin_intialization("IDT") \o Instruction("lidt") \o log_end_intialization

cpu_initialize ==
  Instruction("cli") \o gdt_initialize \o interrupts_initialize \o Instruction("sti")

kernel_main ==
  memory_initialize \o cpu_initialize \o vlog_msg("Hello, World!") \o Instruction("halt")

Current == Head(cpu.todo)

\* Mutants: no wait at all, and a wait for the receiver's bit.
PutWait_NoWait ==
  /\ streams /\ Current.op = "putc" /\ ~ cpu.seen
  /\ cpu' = [cpu EXCEPT !.seen = TRUE]
  /\ UNCHANGED <<uart, boot, status, streams, owed, line>>
PutWait_WrongBit ==
  /\ streams /\ Current.op = "putc" /\ ~ cpu.seen
  /\ uart.present => uart.rbr # NoByte
  /\ cpu' = [cpu EXCEPT !.seen = TRUE]
  /\ UNCHANGED <<uart, boot, status, streams, owed, line>>

\* uart::putc, first half: the loop that waits for the transmitter.
PutWait ==
  /\ streams /\ Current.op = "putc" /\ ~ cpu.seen
  /\ uart.present => TransmitterEmpty(uart)
  /\ cpu' = [cpu EXCEPT !.seen = TRUE]
  /\ UNCHANGED <<uart, boot, status, streams, owed, line>>

\* uart::putc, second half: the write of the character.
PutWrite ==
  /\ streams /\ Current.op = "putc" /\ cpu.seen
  /\ uart' = write_register(uart, "UART_DATA", Current.piece)
  /\ owed' = IF status = "SYSTEM_OK" THEN Append(owed, Current.piece) ELSE owed
  /\ cpu' = [cpu EXCEPT !.todo = Tail(@), !.seen = FALSE]
  /\ UNCHANGED <<boot, status, streams, line>>

Execute ==
  /\ streams /\ Current.op \in {"cli", "lgdt", "lidt", "sti"}
  /\ cpu' = [cpu EXCEPT !.todo  = Tail(@),
                        !.gates = (@ \/ Current.op = "sti") /\ Current.op # "cli",
                        !.idt   = @ \/ Current.op = "lidt"]
  /\ UNCHANGED <<uart, boot, status, streams, owed, line>>

Halted == streams /\ Current.op = "halt"

InMemoryInitialize == ~ cpu.panic /\ \E i \in DOMAIN cpu.todo : cpu.todo[i].op = "cli"

\* memory::initialize finds no memory, or an assertion fails in it.
Panik ==
  /\ streams /\ InMemoryInitialize /\ Current.op = "putc" /\ ~ cpu.seen
  /\ \E text \in {log_panik("out of memory"), assert_fail} :
       cpu' = [cpu EXCEPT !.todo = text, !.panic = TRUE]
  /\ UNCHANGED <<uart, boot, status, streams, owed, line>>

----------------------------------------------------------------------------
(***************************************************************************)
(* Exceptions and interrupts, once the table is loaded (before that they   *)
(* reset the machine).  Every gate is an interrupt gate.  Every handler    *)
(* ends in log_panik, so what was interrupted is never resumed and         *)
(* non-maskable interrupts, once one was taken, stay blocked.  The page    *)
(* fault dump depends on the error code, not on the vector.                *)
(***************************************************************************)
EXCEPTION_NON_MASKABLE_INTERRUPT == 2
EXCEPTION_PAGE_FAULT == 14

HasError(vector) == vector = 8 \/ vector \in 10 .. 14 \/ vector = 17

\* A message for every frame, up to STACKTRACE_MAX.
dump_stacktrace ==
  LET frames == IF Frames < STACKTRACE_MAX THEN Frames ELSE STACKTRACE_MAX
      msg == vlog_msg("frame")
  IN  [k \in 1 .. 3 * frames |-> msg[((k - 1) % 3) + 1]]

exception_handler(err_code) ==
  dump_stacktrace
  \o (IF err_code = EXCEPTION_PAGE_FAULT THEN vlog_msg("page fault") ELSE <<>>)
  \o vlog_msg("registers") \o log_panik("unhandled exception")

\* exception_handler() and nmi_handler() of the assembly: the first hands the
\* exceptions on, and the function it calls does not return.
nmi_handler == log_panik("nmi_handler")
handle_interrupt(vector, err_code) ==
  IF vector < 32 THEN exception_handler(err_code) ELSE log_panik("interrupt")

interrupt_common(vector, err_code) ==
  IF vector = EXCEPTION_NON_MASKABLE_INTERRUPT THEN nmi_handler
  ELSE handle_interrupt(vector, err_code)

\* A halted processor executes nothing that could raise an exception.
CanRaise(vector) ==
  CASE vector = EXCEPTION_NON_MASKABLE_INTERRUPT                   -> ~ cpu.nmi
    [] vector # EXCEPTION_NON_MASKABLE_INTERRUPT /\ vector < 32    -> ~ Halted /\ cpu.raised < MaxRaised
    [] vector >= 32                                                -> cpu.gates

Raise(vector, err_code) ==
  /\ cpu.idt /\ CanRaise(vector) /\ (err_code # 0 => HasError(vector))
  /\ cpu' = [cpu EXCEPT !.todo = interrupt_common(vector, err_code), !.seen = FALSE, !.panic = TRUE,
                        !.gates = FALSE,
                        !.nmi = @ \/ vector = EXCEPTION_NON_MASKABLE_INTERRUPT,
                        !.raised = IF vector \in (0 .. 31) \ {2} THEN @ + 1 ELSE @]
  /\ UNCHANGED <<uart, boot, status, streams, owed, line>>

----------------------------------------------------------------------------
\* The device is as the firmware left it, with or without a character to send.
Init ==
  /\ uart \in [present : BOOLEAN, dlab : BOOLEAN, bits : {5, 8}, low : {1}, high : {0},
               fifo : BOOLEAN, loop : BOOLEAN, rbr : {NoByte}, txq : {<<>>, <<"firmware">>}]
  /\ boot = 1 /\ status = "none" /\ streams = FALSE
  /\ cpu = [todo |-> kernel_main, seen |-> FALSE, gates |-> FALSE, nmi |-> FALSE,
            panic |-> FALSE, idt |-> FALSE, raised |-> 0]
  /\ owed = <<>> /\ line = "nothing"

\* A divide error, a non-maskable interrupt, a page fault, a timer interrupt.
Vectors == {0, 2, 14, 32}
ErrorCodes == {0, 2, 14}

Next ==
  \/ Transmit
  \/ InitializeWrite \/ InitializeTest \/ InitializeStreams
  \/ PutWait \/ PutWrite \/ Execute \/ Panik
  \/ \E vector \in Vectors, err_code \in ErrorCodes : Raise(vector, err_code)

\* The device sends, and the processor goes on; nothing makes an exception,
\* an interrupt or a panic happen.
Fairness ==
  /\ WF_vars(Transmit)
  /\ WF_vars(InitializeWrite \/ InitializeTest \/ InitializeStreams)
  /\ WF_vars(PutWait) /\ WF_vars(PutWrite) /\ WF_vars(Execute)

Spec == Init /\ [][Next]_vars /\ Fairness

----------------------------------------------------------------------------
(***************************************************************************)
(* Properties.                                                             *)
(***************************************************************************)
\* Once the self test has passed, everything the kernel wrote with uart::putc
\* leaves on the line in the order it was written, whatever
\* interrupted the driver between its read of the line status and its write:
\* nothing is lost, nothing is unreadable, and the test byte stays inside.
OutputInOrder ==
  status = "SYSTEM_OK" => owed = uart.txq /\ line \notin {"garbage", TestByte}

\* A call of log_panik, from the kernel or from any handler, ends with the
\* processor halted, interrupts off, and with a working console the last
\* line of the panic is the last thing on it.
PanicPrinted ==
  cpu.panic ~> /\ Halted /\ ~ cpu.gates
                 /\ status = "SYSTEM_OK" => uart.txq = <<>> /\ line = "stopping system"

\* The kernel gets through its start, or a panic, to the halt at its end
\* whatever the device does: absent, in loopback after a failed self test, or
\* slow.  uart::putc never waits for ever.
KernelHalts == <>[]Halted
=============================================================================
