------------------------------- MODULE Serial -------------------------------
(***************************************************************************)
(* The first serial port, as puts of stages 3, 4 and 5 writes to it.       *)
(* Stages 3 and 4 program it before their first text, each when its own    *)
(* is_init is 0; no stage waits for it to have room.  It sends what it was *)
(* given by itself, while the processor goes on.                           *)
(*                                                                         *)
(* Of a byte of text the model keeps which part of the boot printed it.    *)
(***************************************************************************)
EXTENDS Integers, SequencesExt

CONSTANTS FifoSize,      \* 16 in the device
          OldDivisors,   \* <<low, high>>, as the BIOS left it
          OldLines       \* bits the BIOS left in the line control register

VARIABLES
  is_init,     \* of stages 3 and 4
  out,         \* the accesses left of the call of puts
  lcr,         \* line control: "latch" turns ports 0 and 1 into the divisor's
  divisor, enabled,      \* the rate, and whether the FIFO is
  queue,       \* bytes not sent yet
  line         \* the last one sent, with the rate and format it was sent in

processor == <<is_init, out>>
uart      == <<lcr, divisor, enabled, queue, line>>
serial    == <<processor, uart>>

Com1 == 1016                       \* 0x3F8
Rate == <<3, 0>>                   \* bratel, brateh: 38400 bits per second

Init ==
    /\ is_init \in [{3, 4} -> BOOLEAN] /\ out = <<>>
    /\ lcr \in OldLines /\ divisor \in OldDivisors /\ enabled \in BOOLEAN
    /\ queue = <<>>
    /\ line = [part |-> "none", rate |-> divisor, format |-> lcr]

-----------------------------------------------------------------------------
(* The code of the stages.                                                 *)

Outb(port, value) == [port |-> port, value |-> value, part |-> "none"]
Text(value, part) == [port |-> Com1, value |-> value, part |-> part]

(* do_inb of the line control register comes first: it is read before its  *)
(* new values are computed from it.                                        *)
SetLatch  == <<Outb(Com1 + 3, lcr \union {"latch"})>>
SetRateHighFirst == <<Outb(Com1, Rate[2]), Outb(Com1 + 1, Rate[1])>>
SetRate   == <<Outb(Com1, Rate[1]), Outb(Com1 + 1, Rate[2])>>
SetFifo   == <<Outb(Com1 + 2, 199)>>                       \* 0xC7
SetFormat == <<Outb(Com1 + 3, lcr \ {"latch", "parity"})>>

Setbr3 == SetLatch \o SetRate \o SetFormat \o SetFifo
Setbr4Fifo == SetLatch \o SetRate \o SetFormat \o SetFifo
Setbr4 == SetLatch \o SetRate \o SetFormat

(* Stage 5 has no setbr.                                                   *)
Programming(stage) == IF stage = 5 \/ is_init[stage] THEN <<>>
                      ELSE IF stage = 3 THEN Setbr3 ELSE Setbr4

Bytes(text) == FlattenSeq([i \in DOMAIN text |->
                   IF text[i] = "newline" THEN <<"return", "newline">> ELSE <<text[i]>>])

(* Each byte goes to com1, whatever the device is doing; the status is     *)
(* read at the end and says nothing but errors of reception.               *)
Puts(stage, text, part) ==
    /\ out' = Programming(stage)
              \o [i \in DOMAIN Bytes(text) |-> Text(Bytes(text)[i], part)]
    /\ is_init' = IF stage = 5 THEN is_init ELSE [is_init EXCEPT ![stage] = TRUE]
    /\ UNCHANGED uart

-----------------------------------------------------------------------------
(* The device takes what is written to a port.                             *)

Latched == "latch" \in lcr

Room == IF enabled THEN FifoSize ELSE 1

(* With no room, the last byte that waits is overwritten, or the new one   *)
(* is not taken.                                                           *)
Take(part) == IF Len(queue) < Room THEN queue' = Append(queue, part)
              ELSE queue' \in {queue, Append(Front(queue), part)}

Access ==
    /\ out # <<>>
    /\ out' = Tail(out)
    /\ LET port  == Head(out).port - Com1
           value == Head(out).value
       IN  \/ /\ port = 0 /\ ~Latched /\ Take(Head(out).part)
              /\ UNCHANGED <<lcr, divisor, enabled>>
           \/ /\ port = 0 /\ Latched /\ divisor' = <<value, divisor[2]>>
              /\ UNCHANGED <<lcr, enabled, queue>>
           \/ /\ port = 1 /\ divisor' = IF Latched THEN <<divisor[1], value>> ELSE divisor
              /\ UNCHANGED <<lcr, enabled, queue>>
           \/ /\ port = 2 /\ enabled' = TRUE /\ queue' = <<>>
              /\ UNCHANGED <<lcr, divisor>>
           \/ /\ port = 3 /\ lcr' = value
              /\ UNCHANGED <<divisor, enabled, queue>>
    /\ UNCHANGED <<is_init, line>>

Transmit ==
    /\ queue # <<>>
    /\ queue' = Tail(queue)
    /\ line' = [part |-> Head(queue), rate |-> divisor, format |-> lcr \ {"latch"}]
    /\ UNCHANGED <<processor, lcr, divisor, enabled>>
-----------------------------------------------------------------------------
(* Every variable keeps its type.                                          *)
TypeOK ==
    /\ is_init \in [{3, 4} -> BOOLEAN]
    /\ \A i \in DOMAIN out : out[i].port \in Com1..(Com1 + 7)
    /\ lcr \subseteq {"parity", "eight", "latch"} /\ enabled \in BOOLEAN
    /\ Len(queue) <= Room

(* No text is written while ports 0 and 1 are the rate's, not even by the  *)
(* report of an interrupt, which may come between any two accesses.        *)
TextIsNoRate == Latched /\ out # <<>> => Head(out).part = "none"

(* But for what is printed before the bss is cleared, when is_init is what *)
(* memory held, every byte is sent at the rate and in the format of setbr, *)
(* also while a later stage sets them again.                               *)
SentAsSet == line.part \notin {"none", "greeting"} =>
                 line.rate = Rate /\ "parity" \notin line.format

(* Programming the port throws away nothing that waits to be sent, but for *)
(* that same text.                                                         *)
FlushesOnlyGreeting ==
    [][queue' = <<>> /\ out' # out => \A i \in DOMAIN queue : queue[i] = "greeting"]_serial
=============================================================================
