-------------------------- MODULE InterruptsProofs --------------------------
(* Proofs about Interrupts: for every set of devices, every range of the   *)
(* timer and every use of sleep, the invariant IInv and what follows.      *)
EXTENDS Interrupts, TLAPS

(* irq_unmask(0) addresses no line at all.                                 *)
LEMMA NothingUnmasked == AddressedLines(0) = {}
<1>1. ShiftedBit(0) = 24
  BY DEF ShiftedBit
<1> QED BY <1>1 DEF AddressedLines

(* The divisor the 8253 is given is a natural number.                      *)
LEMMA DivisorIsNat == (PitClock \div 10) % Bits16 \in Nat
<1>1. PitClock \in Nat /\ Bits16 \in Nat /\ Bits16 > 0
  BY SMT DEF PitClock, Bits16
<1> QED BY SMT, <1>1

(* Every handler has a function, and is not the absence of one.            *)
LEMMA HandlerFacts ==
  /\ \A h \in Handlers \union {NoHandler, Fault} :
       h.function \in {"panic", "int3", "timer", "floppy", "none", "fault"}
  /\ NoHandler \notin Handlers /\ Fault \notin Handlers /\ NoHandler # Fault
  /\ NoHandler.function = "none" /\ Fault.function = "fault"
  /\ \A f \in {"panic", "int3", "timer", "floppy"} :
       Handler(f, "stage3") \in Handlers /\ Handler(f, "stage3").function = f
                                         /\ Handler(f, "stage3").of = "stage3"
  /\ Handler("floppy", "loader_protected") \in Handlers
  /\ Handler("floppy", "loader_protected").function = "floppy"
  /\ Handler("floppy", "loader_protected").of = "loader_protected"
  BY DEF Handlers, Handler, NoHandler, Fault

(* The vectors of the lines, and no others, are those from 32.             *)
LEMMA VectorFacts ==
  /\ Vectors \subseteq Nat
  /\ \A line \in Lines : Vector(line) \in Nat
                         /\ (line # Cascade => Vector(line) \in Vectors)
  /\ \A l1, l2 \in Lines : Vector(l1) = Vector(l2) => l1 = l2
  /\ Vector(Floppy) = 38 /\ Vector(0) = 32 /\ 3 \in Vectors /\ 32 \in Vectors /\ 38 \in Vectors
  BY DEF Vectors, Vector, Lines, Cascade, Floppy

(* The initial states satisfy the invariant.                               *)
LEMMA InitIInv == ASSUME Init PROVE IInv
<1>1. TypeOK
  <2>1. BootTypeOK /\ PicTypeOK
    BY DEF Init, BootTypeOK, PicTypeOK, Lines
  <2>2. timer \in 0..(TimerValues - 1) /\ divisor \in Nat
    BY InterruptsAssumption DEF Init
  <2>3. gates \subseteq Vectors /\ handlers \in [Vectors -> Handlers \union {NoHandler}]
        /\ running \in Handlers \union {NoHandler, Fault}
    BY DEF Init
  <2>4. enabled \in BOOLEAN /\ irqReceived \in BOOLEAN /\ busy \in BOOLEAN
    BY DEF Init
  <2> QED BY <2>1, <2>2, <2>3, <2>4 DEF TypeOK
<1>2. TableOK
  BY HandlerFacts DEF Init, TableOK, Started
<1>3. ServiceOK
  BY HandlerFacts DEF Init, ServiceOK, NoFault
<1>4. CommandOK
  BY HandlerFacts DEF Init, CommandOK
<1> QED BY <1>1, <1>2, <1>3, <1>4 DEF IInv

(* idt fills the table with gates that lead to interrupt_panic.            *)
LEMMA IdtStep == ASSUME IInv, Idt PROVE IInv'
<1>0. TypeOK /\ TableOK /\ ServiceOK /\ CommandOK
  BY DEF IInv
<1>1. TypeOK'
  <2>1. (BootTypeOK /\ PicTypeOK)'
    BY <1>0, HandlerFacts, VectorFacts DEF TypeOK, BootTypeOK, PicTypeOK, Idt, At, boot, table, pic, clock
  <2>2. (gates \subseteq Vectors /\ handlers \in [Vectors -> Handlers \union {NoHandler}]
        /\ running \in Handlers \union {NoHandler, Fault})'
    BY <1>0, HandlerFacts, VectorFacts DEF TypeOK, Idt, At, boot, table, pic, clock
  <2>3. (timer \in 0..(TimerValues - 1) /\ divisor \in Nat)'
    BY <1>0, HandlerFacts, VectorFacts DEF TypeOK, Idt, At, boot, table, pic, clock
  <2>4. (enabled \in BOOLEAN /\ irqReceived \in BOOLEAN /\ busy \in BOOLEAN)'
    BY <1>0, HandlerFacts, VectorFacts DEF TypeOK, Idt, At, boot, table, pic, clock
  <2> QED BY <2>1, <2>2, <2>3, <2>4 DEF TypeOK
<1>2. TableOK'
  BY <1>0, HandlerFacts, VectorFacts DEF TableOK, Started, Idt, At, boot, table, pic, clock
<1>3. ServiceOK'
  BY <1>0, HandlerFacts, VectorFacts DEF ServiceOK, NoFault, Idt, At, boot, table, pic, clock
<1>4. CommandOK'
  BY <1>0, HandlerFacts, VectorFacts DEF CommandOK, Idt, At, boot, table, pic, clock
<1> QED BY <1>1, <1>2, <1>3, <1>4 DEF IInv

(* init_8259 forgets requests and masks lines 0 and 8.                     *)
LEMMA Init8259Step == ASSUME IInv, Init8259 PROVE IInv'
<1>0. TypeOK /\ TableOK /\ ServiceOK /\ CommandOK
  BY DEF IInv
<1>1. TypeOK'
  <2>1. (BootTypeOK /\ PicTypeOK)'
    BY <1>0 DEF TypeOK, BootTypeOK, PicTypeOK, Init8259, At, boot, table, pic, clock, Lines, Floppy
  <2>2. (gates \subseteq Vectors /\ handlers \in [Vectors -> Handlers \union {NoHandler}]
        /\ running \in Handlers \union {NoHandler, Fault})'
    BY <1>0 DEF TypeOK, Init8259, At, boot, table, pic, clock, Lines, Floppy
  <2>3. (timer \in 0..(TimerValues - 1) /\ divisor \in Nat)'
    BY <1>0 DEF TypeOK, Init8259, At, boot, table, pic, clock, Lines, Floppy
  <2>4. (enabled \in BOOLEAN /\ irqReceived \in BOOLEAN /\ busy \in BOOLEAN)'
    BY <1>0 DEF TypeOK, Init8259, At, boot, table, pic, clock, Lines, Floppy
  <2> QED BY <2>1, <2>2, <2>3, <2>4 DEF TypeOK
<1>2. TableOK'
  BY <1>0 DEF TableOK, Started, Init8259, At, boot, table, pic, clock, Lines, Floppy
<1>3. ServiceOK'
  BY <1>0 DEF ServiceOK, NoFault, Init8259, At, boot, table, pic, clock, Lines, Floppy
<1>4. CommandOK'
  BY <1>0 DEF CommandOK, Init8259, At, boot, table, pic, clock, Lines, Floppy
<1> QED BY <1>1, <1>2, <1>3, <1>4 DEF IInv

(* The breakpoint handler replaces one interrupt_panic.                    *)
LEMMA BreakpointInstrStep == ASSUME IInv, BreakpointInstr PROVE IInv'
<1>0. TypeOK /\ TableOK /\ ServiceOK /\ CommandOK
  BY DEF IInv
<1>1. TypeOK'
  <2>1. (BootTypeOK /\ PicTypeOK)'
    BY <1>0, HandlerFacts, VectorFacts DEF TypeOK, BootTypeOK, PicTypeOK, BreakpointInstr, At, boot, table, pic, clock, SetInterrupt
  <2>2. (gates \subseteq Vectors /\ handlers \in [Vectors -> Handlers \union {NoHandler}]
        /\ running \in Handlers \union {NoHandler, Fault})'
    BY <1>0, HandlerFacts, VectorFacts DEF TypeOK, BreakpointInstr, At, boot, table, pic, clock, SetInterrupt
  <2>3. (timer \in 0..(TimerValues - 1) /\ divisor \in Nat)'
    BY <1>0, HandlerFacts, VectorFacts DEF TypeOK, BreakpointInstr, At, boot, table, pic, clock, SetInterrupt
  <2>4. (enabled \in BOOLEAN /\ irqReceived \in BOOLEAN /\ busy \in BOOLEAN)'
    BY <1>0, HandlerFacts, VectorFacts DEF TypeOK, BreakpointInstr, At, boot, table, pic, clock, SetInterrupt
  <2> QED BY <2>1, <2>2, <2>3, <2>4 DEF TypeOK
<1>2. TableOK'
  BY <1>0, HandlerFacts, VectorFacts DEF TableOK, Started, BreakpointInstr, At, boot, table, pic, clock, SetInterrupt
<1>3. ServiceOK'
  BY <1>0, HandlerFacts, VectorFacts DEF ServiceOK, NoFault, BreakpointInstr, At, boot, table, pic, clock, SetInterrupt
<1>4. CommandOK'
  BY <1>0, HandlerFacts, VectorFacts DEF CommandOK, BreakpointInstr, At, boot, table, pic, clock, SetInterrupt
<1> QED BY <1>1, <1>2, <1>3, <1>4 DEF IInv

(* The timer handler is installed, and line 0 stays masked.                *)
LEMMA SetupTimerStep == ASSUME IInv, SetupTimer PROVE IInv'
<1>0. TypeOK /\ TableOK /\ ServiceOK /\ CommandOK
  BY DEF IInv
<1>1. TypeOK'
  <2>1. (BootTypeOK /\ PicTypeOK)'
    BY <1>0, HandlerFacts, VectorFacts, NothingUnmasked DEF TypeOK, BootTypeOK, PicTypeOK, SetupTimer, At, boot, table, pic, clock, SetInterrupt, IrqUnmask
  <2>2. (gates \subseteq Vectors /\ handlers \in [Vectors -> Handlers \union {NoHandler}]
        /\ running \in Handlers \union {NoHandler, Fault})'
    BY <1>0, HandlerFacts, VectorFacts, NothingUnmasked DEF TypeOK, SetupTimer, At, boot, table, pic, clock, SetInterrupt, IrqUnmask
  <2>3. (timer \in 0..(TimerValues - 1) /\ divisor \in Nat)'
      BY <1>0, DivisorIsNat DEF TypeOK, SetupTimer
  <2>4. (enabled \in BOOLEAN /\ irqReceived \in BOOLEAN /\ busy \in BOOLEAN)'
    BY <1>0, HandlerFacts, VectorFacts, NothingUnmasked DEF TypeOK, SetupTimer, At, boot, table, pic, clock, SetInterrupt, IrqUnmask
  <2> QED BY <2>1, <2>2, <2>3, <2>4 DEF TypeOK
<1>2. TableOK'
  BY <1>0, HandlerFacts, VectorFacts, NothingUnmasked DEF TableOK, Started, SetupTimer, At, boot, table, pic, clock, SetInterrupt, IrqUnmask
<1>3. ServiceOK'
  BY <1>0, HandlerFacts, VectorFacts, NothingUnmasked DEF ServiceOK, NoFault, SetupTimer, At, boot, table, pic, clock, SetInterrupt, IrqUnmask
<1>4. CommandOK'
  BY <1>0, HandlerFacts, VectorFacts, NothingUnmasked DEF CommandOK, SetupTimer, At, boot, table, pic, clock, SetInterrupt, IrqUnmask
<1> QED BY <1>1, <1>2, <1>3, <1>4 DEF IInv

(* The driver of stage 3 installs its handler.                             *)
LEMMA FloppyInitStep == ASSUME IInv, FloppyInit PROVE IInv'
<1>0. TypeOK /\ TableOK /\ ServiceOK /\ CommandOK
  BY DEF IInv
<1>1. TypeOK'
  <2>1. (BootTypeOK /\ PicTypeOK)'
    BY <1>0, HandlerFacts, VectorFacts DEF TypeOK, BootTypeOK, PicTypeOK, FloppyInit, At, boot, table, pic, clock, SetInterrupt, SetupIdt
  <2>2. (gates \subseteq Vectors /\ handlers \in [Vectors -> Handlers \union {NoHandler}]
        /\ running \in Handlers \union {NoHandler, Fault})'
    BY <1>0, HandlerFacts, VectorFacts DEF TypeOK, FloppyInit, At, boot, table, pic, clock, SetInterrupt, SetupIdt
  <2>3. (timer \in 0..(TimerValues - 1) /\ divisor \in Nat)'
    BY <1>0, HandlerFacts, VectorFacts DEF TypeOK, FloppyInit, At, boot, table, pic, clock, SetInterrupt, SetupIdt
  <2>4. (enabled \in BOOLEAN /\ irqReceived \in BOOLEAN /\ busy \in BOOLEAN)'
    BY <1>0, HandlerFacts, VectorFacts DEF TypeOK, FloppyInit, At, boot, table, pic, clock, SetInterrupt, SetupIdt
  <2> QED BY <2>1, <2>2, <2>3, <2>4 DEF TypeOK
<1>2. TableOK'
  BY <1>0, HandlerFacts, VectorFacts DEF TableOK, Started, FloppyInit, At, boot, table, pic, clock, SetInterrupt, SetupIdt
<1>3. ServiceOK'
  BY <1>0, HandlerFacts, VectorFacts DEF ServiceOK, NoFault, FloppyInit, At, boot, table, pic, clock, SetInterrupt, SetupIdt
<1>4. CommandOK'
  <2>1. ~busy /\ ~busy' /\ Floppy \notin irr /\ running.function # "floppy"
    BY <1>0 DEF CommandOK, FloppyInit, At
  <2>2. handlers'[Vector(Floppy)] = Handler("floppy", loader')
    BY <1>0, VectorFacts DEF TypeOK, CommandOK, FloppyInit, At, SetupIdt, SetInterrupt
  <2>3. pc' = "floppy" /\ mode' = "protected" /\ ~irqReceived'
    BY <1>0 DEF CommandOK, FloppyInit, At, SetupIdt
  <2>4. irr' = irr /\ running' = running /\ content' = content
    BY DEF FloppyInit, pic
  <2>5. loader' = "stage3" => content' = "stage3"
    BY <1>0 DEF CommandOK, FloppyInit, At
  <2> QED BY <2>1, <2>2, <2>3, <2>4, <2>5 DEF CommandOK
<1> QED BY <1>1, <1>2, <1>3, <1>4 DEF IInv

(* A command starts when none is pending.                                  *)
LEMMA CommandStep == ASSUME IInv, Command PROVE IInv'
<1>0. TypeOK /\ TableOK /\ ServiceOK /\ CommandOK
  BY DEF IInv
<1>1. TypeOK'
  <2>1. (BootTypeOK /\ PicTypeOK)'
    BY <1>0 DEF TypeOK, BootTypeOK, PicTypeOK, Command, At, boot, table, pic, clock
  <2>2. (gates \subseteq Vectors /\ handlers \in [Vectors -> Handlers \union {NoHandler}]
        /\ running \in Handlers \union {NoHandler, Fault})'
    BY <1>0 DEF TypeOK, Command, At, boot, table, pic, clock
  <2>3. (timer \in 0..(TimerValues - 1) /\ divisor \in Nat)'
    BY <1>0 DEF TypeOK, Command, At, boot, table, pic, clock
  <2>4. (enabled \in BOOLEAN /\ irqReceived \in BOOLEAN /\ busy \in BOOLEAN)'
    BY <1>0 DEF TypeOK, Command, At, boot, table, pic, clock
  <2> QED BY <2>1, <2>2, <2>3, <2>4 DEF TypeOK
<1>2. TableOK'
  BY <1>0 DEF TableOK, Started, Command, At, boot, table, pic, clock
<1>3. ServiceOK'
  BY <1>0 DEF ServiceOK, NoFault, Command, At, boot, table, pic, clock
<1>4. CommandOK'
  BY <1>0 DEF CommandOK, Command, At, boot, table, pic, clock
<1> QED BY <1>1, <1>2, <1>3, <1>4 DEF IInv

(* A wait ends with its command.                                           *)
LEMMA WaitIrqStep == ASSUME IInv, WaitIrq PROVE IInv'
<1>0. TypeOK /\ TableOK /\ ServiceOK /\ CommandOK
  BY DEF IInv
<1>1. TypeOK'
  <2>1. (BootTypeOK /\ PicTypeOK)'
    BY <1>0 DEF TypeOK, BootTypeOK, PicTypeOK, WaitIrq, At, boot, table, pic, clock
  <2>2. (gates \subseteq Vectors /\ handlers \in [Vectors -> Handlers \union {NoHandler}]
        /\ running \in Handlers \union {NoHandler, Fault})'
    BY <1>0 DEF TypeOK, WaitIrq, At, boot, table, pic, clock
  <2>3. (timer \in 0..(TimerValues - 1) /\ divisor \in Nat)'
    BY <1>0 DEF TypeOK, WaitIrq, At, boot, table, pic, clock
  <2>4. (enabled \in BOOLEAN /\ irqReceived \in BOOLEAN /\ busy \in BOOLEAN)'
    BY <1>0 DEF TypeOK, WaitIrq, At, boot, table, pic, clock
  <2> QED BY <2>1, <2>2, <2>3, <2>4 DEF TypeOK
<1>2. TableOK'
  BY <1>0 DEF TableOK, Started, WaitIrq, At, boot, table, pic, clock
<1>3. ServiceOK'
  BY <1>0 DEF ServiceOK, NoFault, WaitIrq, At, boot, table, pic, clock
<1>4. CommandOK'
  BY <1>0 DEF CommandOK, WaitIrq, At, boot, table, pic, clock
<1> QED BY <1>1, <1>2, <1>3, <1>4 DEF IInv

(* sleep sets the timer.                                                   *)
LEMMA SleepStep == ASSUME IInv, Sleep PROVE IInv'
<1>0. TypeOK /\ TableOK /\ ServiceOK /\ CommandOK
  BY DEF IInv
<1>1. TypeOK'
  <2>1. (BootTypeOK /\ PicTypeOK)'
    BY <1>0, InterruptsAssumption DEF TypeOK, BootTypeOK, PicTypeOK, Sleep, At, boot, table, pic, clock, StartTimer
  <2>2. (gates \subseteq Vectors /\ handlers \in [Vectors -> Handlers \union {NoHandler}]
        /\ running \in Handlers \union {NoHandler, Fault})'
    BY <1>0, InterruptsAssumption DEF TypeOK, Sleep, At, boot, table, pic, clock, StartTimer
  <2>3. (timer \in 0..(TimerValues - 1) /\ divisor \in Nat)'
    BY <1>0, InterruptsAssumption DEF TypeOK, Sleep, At, boot, table, pic, clock, StartTimer
  <2>4. (enabled \in BOOLEAN /\ irqReceived \in BOOLEAN /\ busy \in BOOLEAN)'
    BY <1>0, InterruptsAssumption DEF TypeOK, Sleep, At, boot, table, pic, clock, StartTimer
  <2> QED BY <2>1, <2>2, <2>3, <2>4 DEF TypeOK
<1>2. TableOK'
  BY <1>0, InterruptsAssumption DEF TableOK, Started, Sleep, At, boot, table, pic, clock, StartTimer
<1>3. ServiceOK'
  BY <1>0, InterruptsAssumption DEF ServiceOK, NoFault, Sleep, At, boot, table, pic, clock, StartTimer
<1>4. CommandOK'
  BY <1>0, InterruptsAssumption DEF CommandOK, Sleep, At, boot, table, pic, clock, StartTimer
<1> QED BY <1>1, <1>2, <1>3, <1>4 DEF IInv

(* sleep returns.                                                          *)
LEMMA WakeUpStep == ASSUME IInv, WakeUp PROVE IInv'
<1>0. TypeOK /\ TableOK /\ ServiceOK /\ CommandOK
  BY DEF IInv
<1>1. TypeOK'
  <2>1. (BootTypeOK /\ PicTypeOK)'
    BY <1>0 DEF TypeOK, BootTypeOK, PicTypeOK, WakeUp, At, boot, table, pic, clock
  <2>2. (gates \subseteq Vectors /\ handlers \in [Vectors -> Handlers \union {NoHandler}]
        /\ running \in Handlers \union {NoHandler, Fault})'
    BY <1>0 DEF TypeOK, WakeUp, At, boot, table, pic, clock
  <2>3. (timer \in 0..(TimerValues - 1) /\ divisor \in Nat)'
    BY <1>0 DEF TypeOK, WakeUp, At, boot, table, pic, clock
  <2>4. (enabled \in BOOLEAN /\ irqReceived \in BOOLEAN /\ busy \in BOOLEAN)'
    BY <1>0 DEF TypeOK, WakeUp, At, boot, table, pic, clock
  <2> QED BY <2>1, <2>2, <2>3, <2>4 DEF TypeOK
<1>2. TableOK'
  BY <1>0 DEF TableOK, Started, WakeUp, At, boot, table, pic, clock
<1>3. ServiceOK'
  BY <1>0 DEF ServiceOK, NoFault, WakeUp, At, boot, table, pic, clock
<1>4. CommandOK'
  BY <1>0 DEF CommandOK, WakeUp, At, boot, table, pic, clock
<1> QED BY <1>1, <1>2, <1>3, <1>4 DEF IInv

(* load_protected installs its own handler before stage 3 is overwritten.  *)
LEMMA LoadProtectedStep == ASSUME IInv, LoadProtected PROVE IInv'
<1>0. TypeOK /\ TableOK /\ ServiceOK /\ CommandOK
  BY DEF IInv
<1>1. TypeOK'
  <2>1. (BootTypeOK /\ PicTypeOK)'
    BY <1>0, HandlerFacts, VectorFacts DEF TypeOK, BootTypeOK, PicTypeOK, LoadProtected, At, boot, table, pic, clock, SetInterrupt, SetupIdt
  <2>2. (gates \subseteq Vectors /\ handlers \in [Vectors -> Handlers \union {NoHandler}]
        /\ running \in Handlers \union {NoHandler, Fault})'
    BY <1>0, HandlerFacts, VectorFacts DEF TypeOK, LoadProtected, At, boot, table, pic, clock, SetInterrupt, SetupIdt
  <2>3. (timer \in 0..(TimerValues - 1) /\ divisor \in Nat)'
    BY <1>0, HandlerFacts, VectorFacts DEF TypeOK, LoadProtected, At, boot, table, pic, clock, SetInterrupt, SetupIdt
  <2>4. (enabled \in BOOLEAN /\ irqReceived \in BOOLEAN /\ busy \in BOOLEAN)'
    BY <1>0, HandlerFacts, VectorFacts DEF TypeOK, LoadProtected, At, boot, table, pic, clock, SetInterrupt, SetupIdt
  <2> QED BY <2>1, <2>2, <2>3, <2>4 DEF TypeOK
<1>2. TableOK'
  BY <1>0, HandlerFacts, VectorFacts DEF TableOK, Started, LoadProtected, At, boot, table, pic, clock, SetInterrupt, SetupIdt
<1>3. ServiceOK'
  BY <1>0, HandlerFacts, VectorFacts DEF ServiceOK, NoFault, LoadProtected, At, boot, table, pic, clock, SetInterrupt, SetupIdt
<1>4. CommandOK'
  <2>1. ~busy /\ ~busy' /\ Floppy \notin irr /\ running.function # "floppy"
    BY <1>0 DEF CommandOK, LoadProtected, At
  <2>2. handlers'[Vector(Floppy)] = Handler("floppy", loader')
    BY <1>0, VectorFacts DEF TypeOK, CommandOK, LoadProtected, At, SetupIdt, SetInterrupt
  <2>3. pc' = "floppy" /\ mode' = "protected" /\ ~irqReceived'
    BY <1>0 DEF CommandOK, LoadProtected, At, SetupIdt
  <2>4. irr' = irr /\ running' = running /\ content' = content
    BY DEF LoadProtected, pic
  <2>5. loader' = "stage3" => content' = "stage3"
    BY <1>0 DEF CommandOK, LoadProtected, At
  <2> QED BY <2>1, <2>2, <2>3, <2>4, <2>5 DEF CommandOK
<1> QED BY <1>1, <1>2, <1>3, <1>4 DEF IInv

(* Long mode is turned on when no command is pending.                      *)
LEMMA SetupPagingStep == ASSUME IInv, SetupPaging PROVE IInv'
<1>0. TypeOK /\ TableOK /\ ServiceOK /\ CommandOK
  BY DEF IInv
<1>1. TypeOK'
  <2>1. (BootTypeOK /\ PicTypeOK)'
    BY <1>0 DEF TypeOK, BootTypeOK, PicTypeOK, SetupPaging, At, boot, table, pic, clock
  <2>2. (gates \subseteq Vectors /\ handlers \in [Vectors -> Handlers \union {NoHandler}]
        /\ running \in Handlers \union {NoHandler, Fault})'
    BY <1>0 DEF TypeOK, SetupPaging, At, boot, table, pic, clock
  <2>3. (timer \in 0..(TimerValues - 1) /\ divisor \in Nat)'
    BY <1>0 DEF TypeOK, SetupPaging, At, boot, table, pic, clock
  <2>4. (enabled \in BOOLEAN /\ irqReceived \in BOOLEAN /\ busy \in BOOLEAN)'
    BY <1>0 DEF TypeOK, SetupPaging, At, boot, table, pic, clock
  <2> QED BY <2>1, <2>2, <2>3, <2>4 DEF TypeOK
<1>2. TableOK'
  BY <1>0 DEF TableOK, Started, SetupPaging, At, boot, table, pic, clock
<1>3. ServiceOK'
  BY <1>0 DEF ServiceOK, NoFault, SetupPaging, At, boot, table, pic, clock
<1>4. CommandOK'
  BY <1>0 DEF CommandOK, SetupPaging, At, boot, table, pic, clock
<1> QED BY <1>1, <1>2, <1>3, <1>4 DEF IInv

(* cli.                                                                    *)
LEMMA Stage5StartStep == ASSUME IInv, Stage5Start PROVE IInv'
<1>0. TypeOK /\ TableOK /\ ServiceOK /\ CommandOK
  BY DEF IInv
<1>1. TypeOK'
  <2>1. (BootTypeOK /\ PicTypeOK)'
    BY <1>0 DEF TypeOK, BootTypeOK, PicTypeOK, Stage5Start, At, boot, table, pic, clock
  <2>2. (gates \subseteq Vectors /\ handlers \in [Vectors -> Handlers \union {NoHandler}]
        /\ running \in Handlers \union {NoHandler, Fault})'
    BY <1>0 DEF TypeOK, Stage5Start, At, boot, table, pic, clock
  <2>3. (timer \in 0..(TimerValues - 1) /\ divisor \in Nat)'
    BY <1>0 DEF TypeOK, Stage5Start, At, boot, table, pic, clock
  <2>4. (enabled \in BOOLEAN /\ irqReceived \in BOOLEAN /\ busy \in BOOLEAN)'
    BY <1>0 DEF TypeOK, Stage5Start, At, boot, table, pic, clock
  <2> QED BY <2>1, <2>2, <2>3, <2>4 DEF TypeOK
<1>2. TableOK'
  BY <1>0 DEF TableOK, Started, Stage5Start, At, boot, table, pic, clock
<1>3. ServiceOK'
  BY <1>0 DEF ServiceOK, NoFault, Stage5Start, At, boot, table, pic, clock
<1>4. CommandOK'
  BY <1>0 DEF CommandOK, Stage5Start, At, boot, table, pic, clock
<1> QED BY <1>1, <1>2, <1>3, <1>4 DEF IInv

(* A device other than the floppy raises its line.                         *)
LEMMA DeviceInterruptStep == ASSUME IInv, DeviceInterrupt PROVE IInv'
<1>0. TypeOK /\ TableOK /\ ServiceOK /\ CommandOK
  BY DEF IInv
<1>1. TypeOK'
  <2>1. (BootTypeOK /\ PicTypeOK)'
    BY <1>0, InterruptsAssumption DEF TypeOK, BootTypeOK, PicTypeOK, DeviceInterrupt, DeviceRaises, At, boot, table, pic, clock, Raise, Floppy, Cascade, Lines
  <2>2. (gates \subseteq Vectors /\ handlers \in [Vectors -> Handlers \union {NoHandler}]
        /\ running \in Handlers \union {NoHandler, Fault})'
    BY <1>0, InterruptsAssumption DEF TypeOK, DeviceInterrupt, DeviceRaises, At, boot, table, pic, clock, Raise, Floppy, Cascade, Lines
  <2>3. (timer \in 0..(TimerValues - 1) /\ divisor \in Nat)'
    BY <1>0, InterruptsAssumption DEF TypeOK, DeviceInterrupt, DeviceRaises, At, boot, table, pic, clock, Raise, Floppy, Cascade, Lines
  <2>4. (enabled \in BOOLEAN /\ irqReceived \in BOOLEAN /\ busy \in BOOLEAN)'
    BY <1>0, InterruptsAssumption DEF TypeOK, DeviceInterrupt, DeviceRaises, At, boot, table, pic, clock, Raise, Floppy, Cascade, Lines
  <2> QED BY <2>1, <2>2, <2>3, <2>4 DEF TypeOK
<1>2. TableOK'
  BY <1>0, InterruptsAssumption DEF TableOK, Started, DeviceInterrupt, DeviceRaises, At, boot, table, pic, clock, Raise, Floppy, Cascade, Lines
<1>3. ServiceOK'
  BY <1>0, InterruptsAssumption DEF ServiceOK, NoFault, DeviceInterrupt, DeviceRaises, At, boot, table, pic, clock, Raise, Floppy, Cascade, Lines
<1>4. CommandOK'
  BY <1>0, InterruptsAssumption DEF CommandOK, DeviceInterrupt, DeviceRaises, At, boot, table, pic, clock, Raise, Floppy, Cascade, Lines
<1> QED BY <1>1, <1>2, <1>3, <1>4 DEF IInv

(* The command in progress raises line 6.                                  *)
LEMMA CommandEndsStep == ASSUME IInv, CommandEnds PROVE IInv'
<1>0. TypeOK /\ TableOK /\ ServiceOK /\ CommandOK
  BY DEF IInv
<1>1. TypeOK'
  <2>1. (BootTypeOK /\ PicTypeOK)'
    BY <1>0 DEF TypeOK, BootTypeOK, PicTypeOK, CommandEnds, At, boot, table, pic, clock, Raise, Floppy, Lines
  <2>2. (gates \subseteq Vectors /\ handlers \in [Vectors -> Handlers \union {NoHandler}]
        /\ running \in Handlers \union {NoHandler, Fault})'
    BY <1>0 DEF TypeOK, CommandEnds, At, boot, table, pic, clock, Raise, Floppy, Lines
  <2>3. (timer \in 0..(TimerValues - 1) /\ divisor \in Nat)'
    BY <1>0 DEF TypeOK, CommandEnds, At, boot, table, pic, clock, Raise, Floppy, Lines
  <2>4. (enabled \in BOOLEAN /\ irqReceived \in BOOLEAN /\ busy \in BOOLEAN)'
    BY <1>0 DEF TypeOK, CommandEnds, At, boot, table, pic, clock, Raise, Floppy, Lines
  <2> QED BY <2>1, <2>2, <2>3, <2>4 DEF TypeOK
<1>2. TableOK'
  BY <1>0 DEF TableOK, Started, CommandEnds, At, boot, table, pic, clock, Raise, Floppy, Lines
<1>3. ServiceOK'
  BY <1>0 DEF ServiceOK, NoFault, CommandEnds, At, boot, table, pic, clock, Raise, Floppy, Lines
<1>4. CommandOK'
  BY <1>0 DEF CommandOK, CommandEnds, At, boot, table, pic, clock, Raise, Floppy, Lines
<1> QED BY <1>1, <1>2, <1>3, <1>4 DEF IInv

(* The handler called is the one of the line in service.                   *)
LEMMA DeliverStep == ASSUME IInv, Deliver PROVE IInv'
<1>0. TypeOK /\ TableOK /\ ServiceOK /\ CommandOK
  BY DEF IInv
<1>a. PICK line \in Pending :
          /\ irr' = irr \ {line} /\ isr' = isr \union {line}
          /\ running' = IF Executable(Vector(line)) THEN handlers[Vector(line)] ELSE Fault
  BY DEF Deliver
<1>b. line \in irr /\ line \in Lines /\ line \notin {0, 8}
  <2>1. line \in irr \ imr
    BY DEF Pending
  <2>2. {0, 8} \subseteq imr
    BY <1>0 DEF TableOK, Deliver
  <2> QED BY <1>0, <2>1, <2>2 DEF TypeOK, PicTypeOK
<1>c. /\ Executable(Vector(line)) => /\ Vector(line) \in Vectors
                                     /\ handlers[Vector(line)] \in Handlers
                                     /\ handlers[Vector(line)].function # "timer"
  BY <1>0, <1>b, VectorFacts, HandlerFacts DEF Executable, TypeOK, TableOK, Lines, Deliver, Started
<1>d. /\ (line # Floppy /\ Executable(Vector(line))) => handlers[Vector(line)].function # "floppy"
      /\ line = Floppy => handlers[Vector(line)].function = "floppy" /\ pc = "wait"
  <2>1. (line # Floppy /\ Executable(Vector(line))) => handlers[Vector(line)].function # "floppy"
    <3>1. line # Floppy => Vector(line) # Vector(Floppy)
      BY <1>b, VectorFacts DEF Floppy, Lines
    <3> QED BY <1>0, <1>c, <3>1 DEF TableOK
  <2>2. line = Floppy => pc = "wait"
    BY <1>0, <1>b DEF CommandOK
  <2>3. line = Floppy => handlers[Vector(line)].function = "floppy"
    <3>1. pc = "wait" => handlers[Vector(Floppy)] = Handler("floppy", loader)
      BY <1>0 DEF CommandOK
    <3> QED BY <2>2, <3>1 DEF Handler
  <2> QED BY <2>1, <2>2, <2>3
<1>e. /\ running' \in Handlers \union {Fault}
      /\ running'.function # "timer"
      /\ running'.function = "floppy" => line = Floppy
      /\ running'.function = "panic" => line # Floppy
  BY <1>a, <1>c, <1>d, HandlerFacts
<1>f. isr' = {line}
  BY <1>0, <1>a DEF ServiceOK, Deliver
<1>g. NoFault'
  <2>1. line = Floppy => running' # Fault
    <3>1. ASSUME line = Floppy PROVE Executable(Vector(line))
      <4>1. pc = "wait" /\ gates = Vectors
        BY <1>0, <1>d, <3>1 DEF TableOK
      <4>2. handlers[Vector(Floppy)] = Handler("floppy", loader) /\ mode = "protected"
            /\ (loader = "stage3" => content = "stage3")
        BY <1>0, <4>1 DEF CommandOK
      <4>3. loader \in {"stage3", "loader_protected"}
        BY <1>0 DEF TypeOK, BootTypeOK
      <4>4. Handler("floppy", loader).of = loader
        BY DEF Handler
      <4>5. Vector(Floppy) \in gates
        BY <4>1, VectorFacts
      <4> QED BY <3>1, <4>1, <4>2, <4>3, <4>4, <4>5 DEF Executable
    <3> QED BY <1>a, <1>d, <3>1, HandlerFacts
  <2>2. line # 8
    BY <1>b
  <2> QED BY <1>b, <1>f, <2>1, <2>2 DEF NoFault
<1>1. TypeOK'
  <2>1. (BootTypeOK /\ PicTypeOK)'
    BY <1>0, <1>a, <1>b, <1>d, <1>e, <1>f, HandlerFacts DEF TypeOK, BootTypeOK, PicTypeOK, Deliver, At, boot, table, pic, clock
  <2>2. (gates \subseteq Vectors /\ handlers \in [Vectors -> Handlers \union {NoHandler}]
        /\ running \in Handlers \union {NoHandler, Fault})'
    BY <1>0, <1>a, <1>b, <1>d, <1>e, <1>f, HandlerFacts DEF TypeOK, Deliver, At, boot, table, pic, clock
  <2>3. (timer \in 0..(TimerValues - 1) /\ divisor \in Nat)'
    BY <1>0, <1>a, <1>b, <1>d, <1>e, <1>f, HandlerFacts DEF TypeOK, Deliver, At, boot, table, pic, clock
  <2>4. (enabled \in BOOLEAN /\ irqReceived \in BOOLEAN /\ busy \in BOOLEAN)'
    BY <1>0, <1>a, <1>b, <1>d, <1>e, <1>f, HandlerFacts DEF TypeOK, Deliver, At, boot, table, pic, clock
  <2> QED BY <2>1, <2>2, <2>3, <2>4 DEF TypeOK
<1>2. TableOK'
  BY <1>0, <1>a, <1>b, <1>d, <1>e, <1>f, HandlerFacts DEF TableOK, Started, Deliver, At, boot, table, pic, clock
<1>3. ServiceOK'
  BY <1>0, <1>a, <1>b, <1>d, <1>e, <1>f, <1>g, HandlerFacts DEF ServiceOK, NoFault, Deliver, At, boot, table, pic, clock
<1>4. CommandOK'
  BY <1>0, <1>a, <1>b, <1>d, <1>e, <1>f, HandlerFacts DEF CommandOK, Deliver, At, boot, table, pic, clock
<1> QED BY <1>1, <1>2, <1>3, <1>4 DEF IInv

(* The only handler that returns acknowledges its line.                    *)
LEMMA HandlerReturnsStep == ASSUME IInv, HandlerReturns PROVE IInv'
<1>0. TypeOK /\ TableOK /\ ServiceOK /\ CommandOK
  BY DEF IInv
<1>a. running.function = "floppy" /\ running # NoHandler /\ isr = {Floppy}
  BY <1>0, HandlerFacts DEF HandlerReturns, ServiceOK
<1>b. isr' = {} /\ irqReceived' = TRUE /\ UNCHANGED timer
  BY <1>a DEF HandlerReturns, Acknowledge, Rank, Floppy, Cascade
<1>1. TypeOK'
  <2>1. (BootTypeOK /\ PicTypeOK)'
    BY <1>0, <1>a, <1>b, HandlerFacts DEF TypeOK, BootTypeOK, PicTypeOK, HandlerReturns, At, boot, table, pic, clock
  <2>2. (gates \subseteq Vectors /\ handlers \in [Vectors -> Handlers \union {NoHandler}]
        /\ running \in Handlers \union {NoHandler, Fault})'
    BY <1>0, <1>a, <1>b, HandlerFacts DEF TypeOK, HandlerReturns, At, boot, table, pic, clock
  <2>3. (timer \in 0..(TimerValues - 1) /\ divisor \in Nat)'
    BY <1>0, <1>a, <1>b, HandlerFacts DEF TypeOK, HandlerReturns, At, boot, table, pic, clock
  <2>4. (enabled \in BOOLEAN /\ irqReceived \in BOOLEAN /\ busy \in BOOLEAN)'
    BY <1>0, <1>a, <1>b, HandlerFacts DEF TypeOK, HandlerReturns, At, boot, table, pic, clock
  <2> QED BY <2>1, <2>2, <2>3, <2>4 DEF TypeOK
<1>2. TableOK'
  BY <1>0, <1>a, <1>b, HandlerFacts DEF TableOK, Started, HandlerReturns, At, boot, table, pic, clock
<1>3. ServiceOK'
  BY <1>0, <1>a, <1>b, HandlerFacts DEF ServiceOK, NoFault, HandlerReturns, At, boot, table, pic, clock
<1>4. CommandOK'
  BY <1>0, <1>a, <1>b, HandlerFacts DEF CommandOK, HandlerReturns, At, boot, table, pic, clock
<1> QED BY <1>1, <1>2, <1>3, <1>4 DEF IInv

(* Every step preserves the invariant.                                     *)
LEMMA NextStep == ASSUME IInv, [Next]_vars PROVE IInv'
<1>1. CASE Boot
  BY <1>1, IdtStep, Init8259Step, BreakpointInstrStep, SetupTimerStep, FloppyInitStep,
     CommandStep, WaitIrqStep, SleepStep, WakeUpStep, LoadProtectedStep, SetupPagingStep,
     Stage5StartStep DEF Boot
<1>2. CASE DeviceInterrupt \/ CommandEnds \/ Deliver \/ HandlerReturns
  BY <1>2, DeviceInterruptStep, CommandEndsStep, DeliverStep, HandlerReturnsStep
<1>3. CASE UNCHANGED vars
  <2>1. TypeOK /\ TableOK /\ ServiceOK /\ CommandOK
    BY DEF IInv
  <2>2. TypeOK'
    BY <1>3, <2>1 DEF vars, TypeOK, BootTypeOK, PicTypeOK
  <2>3. TableOK'
    BY <1>3, <2>1 DEF vars, TableOK, Started
  <2>4. ServiceOK'
    BY <1>3, <2>1 DEF vars, ServiceOK, NoFault
  <2>5. CommandOK'
    BY <1>3, <2>1 DEF vars, CommandOK
  <2> QED BY <2>2, <2>3, <2>4, <2>5 DEF IInv
<1> QED BY <1>1, <1>2, <1>3 DEF Next

-----------------------------------------------------------------------------
(* The invariant holds in every state of every execution.                  *)
THEOREM Invariance == Spec => []IInv
<1> QED BY InitIInv, NextStep, PTL DEF Spec

(* With any devices, the boot sequence never runs while an interrupt is in *)
(* service: the floppy's is never blocked by a forgotten acknowledgement.  *)
THEOREM Acknowledged == Spec => []HandledIsAcknowledged
<1>1. IInv => HandledIsAcknowledged
  BY DEF IInv, ServiceOK, HandledIsAcknowledged
<1> QED BY <1>1, Invariance, PTL

(* Interrupts are never enabled before every line that is not masked has a *)
(* gate and a handler.                                                     *)
THEOREM HandlersReady == Spec => []EveryLineHasHandler
<1>1. ASSUME IInv PROVE EveryLineHasHandler
  BY <1>1, VectorFacts DEF IInv, TypeOK, TableOK, Started, EveryLineHasHandler
<1> QED BY <1>1, Invariance, PTL

(* With any devices, an interrupt of the floppy is never taken for an      *)
(* unexpected one.                                                         *)
THEOREM FloppyExpected == Spec => []FloppyNeverPanics
<1>1. ASSUME IInv PROVE FloppyNeverPanics
  BY <1>1, HandlerFacts DEF IInv, ServiceOK, FloppyNeverPanics
<1> QED BY <1>1, Invariance, PTL

(* With any devices, no interrupt of the timer, the clock or the floppy    *)
(* finds its handler overwritten or the processor in long mode.            *)
THEOREM ExpectedNeverFault == Spec => []NoFault
<1>1. IInv => NoFault
  BY DEF IInv, ServiceOK
<1> QED BY <1>1, Invariance, PTL
=============================================================================
