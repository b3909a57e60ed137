-------------------------------- MODULE Ports --------------------------------
(***************************************************************************)
(* What the boot writes to ports from the start of stage 3 on: text to the *)
(* serial port (module Serial) and, between two of its lines, the DMA      *)
(* controllers' bytes (module Dma).  Interrupts are enabled in between:    *)
(* one of a device nobody expects prints a report, from wherever the       *)
(* processor is, and stops there.                                          *)
(***************************************************************************)
EXTENDS Integers, Sequences

CONSTANTS Channels, OldBytes,               \* see Dma
          FifoSize, OldDivisors, OldLines   \* see Serial

ASSUME PortsAssumption ==
    /\ Channels \subseteq 0..7 /\ OldBytes \subseteq 0..255
    /\ FifoSize \in Nat \ {0}
    /\ OldDivisors \subseteq (0..255) \X (0..255)
    /\ OldLines \subseteq SUBSET {"parity", "eight"}

VARIABLES
  at,            \* index of what the boot does next
  interruptible, panicked,
  chan, pc, flipflop, address, count, page, mode, masked,
  is_init, out, lcr, divisor, enabled, queue, line

boot   == <<at, interruptible, panicked>>
dma    == <<chan, pc, flipflop, address, count, page, mode, masked>>
serial == <<is_init, out, lcr, divisor, enabled, queue, line>>
vars   == <<boot, dma, serial>>

Controllers == INSTANCE Dma
Com == INSTANCE Serial

(* stage3_load and its tasks, the loader, stage4_load, stage5_load.        *)
Log(stage, part) == [does |-> "puts", stage |-> stage, part |-> part, upto |-> 0]
Do(what) == [does |-> what, stage |-> 0, part |-> "none", upto |-> 0]
ProgramUpTo(n) == [Do("dma") EXCEPT !.upto = n]

Greeting     == <<Log(3, "greeting"), Do("memreset"), Log(3, "executing")>>
Init8259     == <<Do("sti")>>
FloppyDma    == <<ProgramUpTo(Len(Controllers!FloppyDma)), Log(3, "log")>>
SetupRead    == <<ProgramUpTo(Len(Controllers!Program)), Log(3, "log")>>
LoadProtected == <<Do("load_protected"), Do("reset_bss")>>
Stage4Load   == <<Log(4, "stage4"), Log(4, "stage4")>>
Stage5Load   == <<Do("cli"), Log(5, "stage5")>>

BootInterruptible == Init8259 \o Greeting \o FloppyDma \o SetupRead \o LoadProtected \o Stage4Load
                     \o Stage5Load
Boot == Greeting \o Init8259 \o FloppyDma \o SetupRead \o LoadProtected \o Stage4Load \o Stage5Load

Line == <<"character", "newline">>

Init ==
    /\ at = 1 /\ interruptible = FALSE /\ panicked = FALSE
    /\ Controllers!Init /\ Com!Init

Ready == at <= Len(Boot) /\ out = <<>> /\ ~panicked
Go    == at' = at + 1 /\ UNCHANGED panicked

Puts ==
    /\ Ready /\ Boot[at].does = "puts" /\ Com!Puts(Boot[at].stage, Line, Boot[at].part)
    /\ Go /\ UNCHANGED <<interruptible, dma>>

Access == Com!Access /\ UNCHANGED <<boot, dma>>

Program ==
    /\ Ready /\ Boot[at].does = "dma" /\ pc < Boot[at].upto /\ Controllers!OutB
    /\ UNCHANGED <<boot, serial>>
Programmed ==
    /\ Ready /\ Boot[at].does = "dma" /\ pc = Boot[at].upto
    /\ Go /\ UNCHANGED <<interruptible, dma, serial>>

(* The bss of stage 3 and, before stage 4 starts, those of stages 4 and 5. *)
Memreset ==
    /\ Ready /\ Boot[at].does \in {"memreset", "reset_bss"}
    /\ is_init' = [is_init EXCEPT ![IF Boot[at].does = "memreset" THEN 3 ELSE 4] = FALSE]
    /\ Go /\ UNCHANGED <<interruptible, dma, out, lcr, divisor, enabled, queue, line>>

(* A device that interrupts while stage 3 is being overwritten, or later,  *)
(* does not get as far as a report: see NoFault of Interrupts.             *)
Interruptible ==
    /\ Ready /\ Boot[at].does \in {"sti", "load_protected", "cli"}
    /\ interruptible' = (Boot[at].does = "sti")
    /\ Go /\ UNCHANGED <<dma, serial>>

InterruptPanic ==
    /\ interruptible /\ ~panicked
    /\ panicked' = TRUE /\ interruptible' = FALSE
    /\ Com!Puts(3, Line, "panic")
    /\ UNCHANGED <<at, dma>>

Transmit == Com!Transmit /\ UNCHANGED <<boot, dma>>

Next == Puts \/ Access \/ Program \/ Programmed \/ Memreset \/ Interruptible \/ InterruptPanic
        \/ Transmit

Spec == Init /\ [][Next]_vars
-----------------------------------------------------------------------------
(* Every variable keeps its type.                                          *)
TypeOK == /\ Controllers!TypeOK /\ Com!TypeOK
          /\ at \in 1..(Len(Boot) + 1) /\ interruptible \in BOOLEAN /\ panicked \in BOOLEAN

(* Of Serial and Dma, see there; with the reports of unexpected interrupts *)
(* and the messages between the bytes of the DMA controllers.              *)
TextIsNoRate        == Com!TextIsNoRate
SentAsSet           == Com!SentAsSet
FlushesOnlyGreeting == Com!FlushesOnlyGreeting
TransfersGoToBuffer == Controllers!TransfersGoToBuffer
OthersUntouched     == Controllers!OthersUntouched

(* The inductive invariant of the serial port.  TextParts print something; *)
(* until the bss is cleared, only the greeting does.                       *)
TextParts == {"greeting", "executing", "log", "stage4", "stage5", "panic"}
OnlyGreeting == \A i \in DOMAIN queue : queue[i] = "greeting"
AsSet == divisor = Com!Rate /\ "parity" \notin lcr

(* The k-th of the four accesses that set the rate and the format.         *)
IsSetting(access, k) ==
    /\ access.part = "none" /\ access.port = Com!Com1 + <<3, 0, 1, 3>>[k]
    /\ k = 1 => access.value = lcr \union {"latch"}
    /\ k = 2 => access.value = Com!Rate[1]
    /\ k = 3 => access.value = Com!Rate[2]
    /\ k = 4 => access.value \subseteq {"eight"}
IsFifo(access) == access.part = "none" /\ access.port = Com!Com1 + 2
IsText(access) == /\ access.port = Com!Com1 /\ access.part \in TextParts
                  /\ at <= 3 => access.part = "greeting"

(* What is left to write: the last settings, fifo accesses to the FIFO and *)
(* the text.                                                               *)
Left(settings, fifo) ==
    /\ settings + fifo <= Len(out)
    /\ \A i \in DOMAIN out :
         \/ i <= settings /\ IsSetting(out[i], i + 4 - settings)
         \/ settings < i /\ i <= settings + fifo /\ IsFifo(out[i])
         \/ settings + fifo < i /\ IsText(out[i])

(* The port meanwhile.                                                     *)
Meanwhile(settings, fifo) ==
    /\ Com!Latched <=> settings \in 1..3
    /\ at >= 4 => /\ settings <= 2 => divisor[1] = Com!Rate[1]
                  /\ settings <= 1 => divisor = Com!Rate
                  /\ settings = 0 => AsSet
    /\ settings > 0 /\ fifo = 0 => AsSet
    /\ fifo = 1 => OnlyGreeting
    /\ interruptible => settings = 0 /\ fifo = 0

BootOK ==
    /\ at = 3 => ~is_init[3]
    /\ at >= 4 => is_init[3]
    /\ interruptible => at \in 5..9

QueueOK == /\ queue \in Seq(TextParts)
           /\ at <= 3 => OnlyGreeting
           /\ OnlyGreeting \/ AsSet

IInv == /\ TypeOK /\ BootOK /\ QueueOK /\ Controllers!RegistersOK /\ SentAsSet
        /\ \E settings \in 0..4, fifo \in 0..1 : Left(settings, fifo) /\ Meanwhile(settings, fifo)
=============================================================================
