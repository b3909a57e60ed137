----------------------------- MODULE Interrupts -----------------------------
(***************************************************************************)
(* The interrupts of the 32-bit stages: the table and the handlers of      *)
(* stage3/idt.c, timer.c and breakpoint.c, the entry stubs of              *)
(* shared/idt_handlers32.S, the two 8259 controllers init_8259 programs,   *)
(* and what happens to all of them while load_protected copies stage 4     *)
(* over stage 3 and stage 4 turns long mode on.                            *)
(*                                                                         *)
(* The floppy driver appears only as commands that end in an interrupt:    *)
(* module Floppy details it, and shows (NoStrayInterrupt) that no command  *)
(* is unfinished when the boot sequence leaves the driver.  A wait reads   *)
(* its variable again and again here; what the build makes of              *)
(* fpy_wait_irq's is Floppy's subject as well.                             *)
(***************************************************************************)
EXTENDS Naturals

CONSTANTS Devices,         \* interrupt lines, other than the floppy's, that may be raised
          SleepArguments,  \* arguments of sleep(), which no task calls yet
          TimerValues      \* values of the variable timer (2^32: uint32_t)

Lines   == 0..15
Cascade == 2               \* the line the second controller is connected to
Floppy  == 6

ASSUME InterruptsAssumption ==
         /\ Devices \subseteq Lines \ {Cascade, Floppy}
         /\ TimerValues \in Nat \ {0}
         /\ SleepArguments \subseteq 0..(TimerValues - 1)

VARIABLES
  pc,            \* place in the boot sequence
  loader,        \* whose code runs it: "stage3" or "loader_protected"
  content,       \* whose code is at _content_start: "stage3" or "stage4"
  mode,          \* "protected" or "long"
  enabled,       \* the processor's interrupt flag
  gates,         \* g_idt: vectors with a present gate
  handlers,      \* idt_handlers_32
  running,       \* the handler being executed, NoHandler or Fault
  imr, irr, isr, \* 8259: lines masked, requested, in service
  timer, divisor,\* timer.c: ticks left to sleep; the 8253's divisor, 0 before it is set
  irqReceived,   \* fpy_irq_received is not 0
  busy           \* the floppy controller executes a command

boot  == <<pc, loader, content, mode>>
table == <<gates, handlers>>
pic   == <<imr, irr, isr>>
clock == <<timer, divisor>>
vars  == <<pc, loader, content, mode, enabled, gates, handlers, running, imr, irr, isr,
           timer, divisor, irqReceived, busy>>

Vector(line) == 32 + line

(* The entries of the table.                                               *)
VectorsShort == 0..20 \union {32, 33} \union 35..45
Vectors      == 0..20 \union {32, 33} \union 35..47

(* A handler is a function and the stage whose code it is part of.         *)
Handler(function, stage) == [function |-> function, of |-> stage]
NoHandler == Handler("none", "none")
Fault     == Handler("fault", "none")
Handlers  == {Handler(f, "stage3") : f \in {"panic", "int3", "timer", "floppy"}}
             \union {Handler("floppy", "loader_protected")}

-----------------------------------------------------------------------------
Init ==
    /\ pc = "idt" /\ loader = "stage3" /\ content = "stage3" /\ mode = "protected"
    /\ enabled = FALSE
    /\ gates = {} /\ handlers = [v \in Vectors |-> NoHandler]
    /\ running = NoHandler
    /\ imr \in SUBSET {0, 8} /\ irr = {} /\ isr = {}
    /\ timer = 0 /\ divisor = 0
    /\ irqReceived \in BOOLEAN /\ busy = FALSE

(* The boot sequence runs unless a handler does.                           *)
At(place) == running = NoHandler /\ pc = place

SetInterrupt(vector, h) == handlers' = [handlers EXCEPT ![vector] = h]

-----------------------------------------------------------------------------
(* The tasks of stage 3, in the order of stage3/linker.ld.                 *)

Idt ==
    /\ At("idt")
    /\ gates' = Vectors
    /\ handlers' = [v \in Vectors |-> Handler("panic", "stage3")]
    /\ pc' = "init_8259"
    /\ UNCHANGED <<loader, content, mode, enabled, running, pic, clock, irqReceived, busy>>

(* Both controllers are initialised, which forgets what was requested or   *)
(* in service; lines 0 and 8 are masked; sti.                              *)
Init8259 ==
    /\ At("init_8259")
    /\ imr' = {0, 8} /\ irr' = {} /\ isr' = {}
    /\ enabled' = TRUE
    /\ pc' = "breakpoint_instr"
    /\ UNCHANGED <<loader, content, mode, table, running, clock, irqReceived, busy>>

BreakpointInstr ==
    /\ At("breakpoint_instr")
    /\ SetInterrupt(3, Handler("int3", "stage3"))
    /\ pc' = "setup_timer"
    /\ UNCHANGED <<loader, content, mode, enabled, gates, running, pic, clock, irqReceived, busy>>

(* irq_unmask(line) takes lines above 8 for the first controller's and the *)
(* others for the second's, from whose number it subtracts 8 in a uint8_t. *)
(* The processor shifts by the count modulo 32, and a bit beyond the       *)
(* controller's eight is lost in the conversion to uint8_t.                *)
ShiftedBit(line) == (IF line > 8 THEN line ELSE line + 248) % 32
AddressedLines(line) == {l \in Lines : l = ShiftedBit(line) + (IF line > 8 THEN 0 ELSE 8)
                                       /\ ShiftedBit(line) < 8}

UnmaskAsNamed(line) == imr' = imr \ {line}
IrqUnmask(line)     == imr' = imr \ AddressedLines(line)

PitClock == 1193180   \* the 8253's input, in Hz
Bits16   == 65536

(* setup_timer asks for 10 Hz; the 8253 takes 16 bits of the divisor.      *)
SetupTimer ==
    /\ At("setup_timer")
    /\ SetInterrupt(Vector(0), Handler("timer", "stage3"))
    /\ divisor' = (PitClock \div 10) % Bits16
    /\ IrqUnmask(0)
    /\ pc' = "floppy_init"
    /\ UNCHANGED <<loader, content, mode, enabled, gates, running, irr, isr, timer,
                   irqReceived, busy>>

(* fpy_setup_idt.                                                          *)
SetupIdtFlagOnly(stage) == irqReceived' = FALSE /\ UNCHANGED handlers
SetupIdtInStage3(stage) ==
    irqReceived' = FALSE /\ SetInterrupt(Vector(Floppy), Handler("floppy", "stage3"))
SetupIdt(stage) ==
    irqReceived' = FALSE /\ SetInterrupt(Vector(Floppy), Handler("floppy", stage))

FloppyInit ==
    /\ At("floppy_init")
    /\ SetupIdt("stage3")
    /\ pc' = "floppy"
    /\ UNCHANGED <<loader, content, mode, enabled, gates, running, pic, clock, busy>>

-----------------------------------------------------------------------------
(* The floppy tasks and loaders: commands, each of them waited for.  A     *)
(* loader is left at any point, for its last command or for an error.      *)

Command ==
    /\ At("floppy")
    /\ busy' = TRUE
    /\ pc' = "wait"
    /\ UNCHANGED <<loader, content, mode, enabled, table, running, pic, clock, irqReceived>>

(* fpy_wait_irq returns.  What load_protected reads goes over stage 3.     *)
WaitIrq ==
    /\ At("wait") /\ irqReceived
    /\ irqReceived' = FALSE
    /\ content' = IF loader = "loader_protected" THEN "stage4" ELSE content
    /\ pc' = "floppy"
    /\ UNCHANGED <<loader, mode, enabled, table, running, pic, clock, busy>>

(* timer = i + 1; while (timer);                                           *)
StartTimer(i) == timer' = (i + 1) % TimerValues

Sleep ==
    /\ At("floppy") /\ loader = "stage3"
    /\ \E i \in SleepArguments : StartTimer(i)
    /\ pc' = "sleep"
    /\ UNCHANGED <<loader, content, mode, enabled, table, running, pic, divisor, irqReceived, busy>>

WakeUp ==
    /\ At("sleep") /\ timer = 0
    /\ pc' = "floppy"
    /\ UNCHANGED <<loader, content, mode, enabled, table, running, pic, clock, irqReceived, busy>>

LoadProtected ==
    /\ At("floppy") /\ loader = "stage3"
    /\ loader' = "loader_protected"
    /\ SetupIdt("loader_protected")
    /\ UNCHANGED <<pc, content, mode, enabled, gates, running, pic, clock, busy>>

(* stage4_load: the 32-bit table stays, and interrupts stay enabled.       *)
SetupPaging ==
    /\ At("floppy") /\ loader = "loader_protected"
    /\ content' = "stage4" /\ mode' = "long"
    /\ pc' = "stage5_start"
    /\ UNCHANGED <<loader, enabled, table, running, pic, clock, irqReceived, busy>>

(* cli.                                                                    *)
Stage5Start ==
    /\ At("stage5_start")
    /\ enabled' = FALSE
    /\ pc' = "stage5_load"
    /\ UNCHANGED <<loader, content, mode, table, running, pic, clock, irqReceived, busy>>

-----------------------------------------------------------------------------
(* Devices and interrupt controllers.                                      *)

Raise(line) == irr' = irr \union {line} /\ UNCHANGED <<imr, isr>>

DeviceRaises(line) ==
    /\ line \in Devices \ irr
    /\ Raise(line)
    /\ UNCHANGED <<boot, enabled, table, running, clock, irqReceived, busy>>

DeviceInterrupt == \E line \in Devices : DeviceRaises(line)

CommandEnds ==
    /\ busy
    /\ busy' = FALSE
    /\ Raise(Floppy)
    /\ UNCHANGED <<boot, enabled, table, running, clock, irqReceived>>

(* The second controller's lines have the priority of line 2; it does not  *)
(* interrupt itself.                                                       *)
Rank(line) == IF line < Cascade THEN line ELSE IF line >= 8 THEN line - 6 ELSE line + 7

Blocked(line) == \E s \in isr : Rank(s) <= Rank(line) \/ (s >= 8 /\ line >= 8)
Pending       == {line \in irr \ imr : ~Blocked(line)}

(* What the processor can execute when vector v is delivered: a handler    *)
(* whose gate is present, whose code is still in memory, in the mode its   *)
(* gate is made for.                                                       *)
Executable(v) == /\ v \in gates /\ mode = "protected"
                 /\ handlers[v].of \in {content, "loader_protected"}

Deliver ==
    /\ enabled /\ running = NoHandler
    /\ \E line \in Pending :
         /\ \A other \in Pending : Rank(line) <= Rank(other)
         /\ irr' = irr \ {line} /\ isr' = isr \union {line}
         /\ running' = IF Executable(Vector(line)) THEN handlers[Vector(line)] ELSE Fault
    /\ enabled' = FALSE
    /\ UNCHANGED <<boot, table, imr, clock, irqReceived, busy>>

(* do_outb(0x20, 0x20): the first controller's line of highest priority    *)
(* is no longer in service.                                                *)
AcknowledgeNothing == UNCHANGED isr
Acknowledge == isr' = isr \ {line \in isr : \A s \in isr : Rank(line) <= Rank(s)}

(* fpy_interrupt_handler acknowledges the interrupt, the timer's handler   *)
(* does not; iret.  interrupt_panic never returns.                         *)
HandlerReturns ==
    /\ running.function \in {"timer", "floppy"}
    /\ IF running.function = "floppy"
         THEN irqReceived' = TRUE /\ Acknowledge /\ UNCHANGED timer
         ELSE /\ timer' = IF timer > 0 THEN timer - 1 ELSE 0
              /\ UNCHANGED <<irqReceived, isr>>
    /\ running' = NoHandler
    /\ enabled' = TRUE
    /\ UNCHANGED <<boot, table, imr, irr, divisor, busy>>

-----------------------------------------------------------------------------
Boot == \/ Idt \/ Init8259 \/ BreakpointInstr \/ SetupTimer \/ FloppyInit
        \/ Command \/ WaitIrq \/ Sleep \/ WakeUp
        \/ LoadProtected \/ SetupPaging \/ Stage5Start

Next == Boot \/ DeviceInterrupt \/ CommandEnds \/ Deliver \/ HandlerReturns

Spec == Init /\ [][Next]_vars

(* The processor executes, the floppy controller ends its commands and the *)
(* timer ticks; no other device need ever raise its line.                  *)
FairSpec ==
    /\ Spec
    /\ WF_vars(Boot) /\ WF_vars(Deliver) /\ WF_vars(HandlerReturns)
    /\ WF_vars(CommandEnds)
    /\ WF_vars(DeviceRaises(0))

-----------------------------------------------------------------------------
BootTypeOK ==
    /\ pc \in {"idt", "init_8259", "breakpoint_instr", "setup_timer", "floppy_init", "floppy",
               "wait", "sleep", "stage5_start", "stage5_load"}
    /\ loader \in {"stage3", "loader_protected"} /\ content \in {"stage3", "stage4"}
    /\ mode \in {"protected", "long"}

PicTypeOK == imr \subseteq Lines /\ irr \subseteq Lines /\ isr \subseteq Lines

(* Every variable keeps its type.                                          *)
TypeOK ==
    /\ BootTypeOK /\ PicTypeOK
    /\ gates \subseteq Vectors /\ handlers \in [Vectors -> Handlers \union {NoHandler}]
    /\ running \in Handlers \union {NoHandler, Fault}
    /\ timer \in 0..(TimerValues - 1) /\ divisor \in Nat
    /\ enabled \in BOOLEAN /\ irqReceived \in BOOLEAN /\ busy \in BOOLEAN

(* Interrupts are never enabled while a line that may be raised has no     *)
(* gate or no handler: idt runs before init_8259's sti, and its table has  *)
(* every vector the two controllers deliver.                               *)
EveryLineHasHandler ==
    enabled => \A line \in Lines \ (imr \union {Cascade}) :
                 /\ Vector(line) \in gates
                 /\ handlers[Vector(line)] # NoHandler

(* The boot sequence never runs with an interrupt that was handled and not *)
(* acknowledged: it would block the floppy's for ever.  The timer's        *)
(* handler sends no end of interrupt, and irq_unmask(0) is meant to let    *)
(* the timer interrupt.                                                    *)
HandledIsAcknowledged == running = NoHandler => isr = {}

(* No interrupt of the timer, the clock or the floppy finds its handler    *)
(* overwritten by stage 4 or the processor in long mode with the 32-bit    *)
(* table, although nothing disables interrupts before stage 5.  (Those of  *)
(* the keyboard or a disk would.)                                          *)
NoFault == running = Fault => isr \intersect {0, Floppy, 8} = {}

(* Interrupts of the floppy are never taken for unexpected ones: the       *)
(* driver's handler is there before the first command.                     *)
FloppyNeverPanics == running.function = "panic" => Floppy \notin isr

(* The inductive invariant the safety properties follow from.              *)

Started == pc \notin {"idt", "init_8259"}

(* Once init_8259 has run, lines 0 and 8 stay masked, and every vector has *)
(* a handler, the timer's and the floppy's at their own vectors only.      *)
TableOK ==
    /\ enabled \/ running # NoHandler => Started
    /\ pc # "idt" => gates = Vectors /\ \A v \in Vectors : handlers[v] # NoHandler
    /\ Started => {0, 8} \subseteq imr
    /\ \A v \in Vectors : /\ handlers[v].function = "timer" => v = Vector(0)
                          /\ handlers[v].function = "floppy" => v = Vector(Floppy)

(* What is in service is what the running handler was called for.          *)
ServiceOK ==
    /\ running = NoHandler => isr = {}
    /\ running # NoHandler => /\ \E line \in Lines : isr = {line}
                              /\ running.function # "timer"
    /\ running.function = "floppy" => isr = {Floppy}
    /\ running.function = "panic" => isr # {Floppy}
    /\ NoFault

(* The interrupt of a command passes through the controller, the line and  *)
(* the handler to the flag, and is waited for all the way.                 *)
CommandOK ==
    /\ busy \/ Floppy \in irr \/ running.function = "floppy" => pc = "wait" /\ ~irqReceived
    /\ busy => Floppy \notin irr
    /\ running.function = "floppy" => ~busy /\ Floppy \notin irr
    /\ pc \in {"floppy", "sleep"} => ~irqReceived
    /\ pc \in {"floppy", "wait", "sleep"} =>
         /\ handlers[Vector(Floppy)] = Handler("floppy", loader)
         /\ mode = "protected"
         /\ loader = "stage3" => content = "stage3"
    /\ pc \in {"idt", "init_8259", "breakpoint_instr", "setup_timer", "floppy_init"} =>
         loader = "stage3" /\ content = "stage3" /\ mode = "protected"

IInv == TypeOK /\ TableOK /\ ServiceOK /\ CommandOK

(* A command that is waited for ends its wait, unless a device no handler  *)
(* is installed for stops the machine first.                               *)
FloppyServed == pc = "wait" ~> pc = "floppy" \/ running.function \in {"panic", "fault"}

(* sleep returns (timer.h: "this sleep is precice at ~1s").                *)
SleepEnds == pc = "sleep" ~> pc # "sleep"
=============================================================================
