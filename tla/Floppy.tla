------------------------------- MODULE Floppy -------------------------------
(***************************************************************************)
(* The floppy driver of the protected-mode loaders (shared/floppy.h,       *)
(* floppy_impl.h, floppy_read.h, stage3/floppy.c, stage3/copy_stage4.c,    *)
(* loader_protected/load.c) together with the devices it drives: the       *)
(* floppy controller, its interrupt line and DMA channel 2.                *)
(*                                                                         *)
(* Two threads run the driver's code on the one processor: "main", the     *)
(* boot sequence, and "isr", the handler of interrupt 38.  The handler is  *)
(* entered between any two accesses of main as soon as the interrupt is    *)
(* requested, and is not itself interrupted.  The controller advances on   *)
(* its own, one byte of a command or of a result at a time.                *)
(***************************************************************************)
EXTENDS Geometry, Sequences

CONSTANTS Requests,        \* parts of the image to load, in order: [first, bytes]
          SectorValues,    \* values of fpy_copy_bytes' sector counter (256: uint8_t)
          EndOfCylinder,   \* subset of {"abort", "wrap"}: what the controller may do
                           \* when the last sector of a cylinder leaves a transfer short
          HoistedWait,     \* TRUE: fpy_wait_irq reads its flag once, as built
          PowerOn          \* values the memory of fpy_irq_handle_state may start with

ASSUME DriverAssumption ==
         /\ Requests \in Seq([first : Nat, bytes : Nat \ {0}])
         /\ SectorValues \in Nat \ {0}
         /\ EndOfCylinder \subseteq {"abort", "wrap"}
         /\ HoistedWait \in BOOLEAN
         /\ PowerOn \subseteq {0, 1}

VARIABLES
  (* the boot sequence *)
  task, step,              \* task being executed, command of its script
  sector, count, block,    \* locals of fpy_copy_bytes; block counts iterations from 1
  (* the driver, in each thread *)
  pc, cmd,                 \* place in the code, command being issued
  sent, taken,             \* command bytes written, result bytes read
  (* what main and the handler share *)
  irqReceived,             \* fpy_irq_received: 0, 1 or Err
  handleState,             \* fpy_irq_handle_state
  waited,                  \* the value fpy_wait_irq loaded
  (* the controller *)
  rqm, phase,              \* main status register: mrq; dataio is phase = "result"
  op, got, arg,            \* command in progress, bytes received, sector addressed
  out, flaw,               \* result bytes delivered, index of the first bad one
  seeking, senseDue,       \* head moving; moved, and not yet asked about
  (* its interrupt *)
  line, irr, inService,    \* level of IRQ 6, latched request, handler not acknowledged
  (* DMA channel 2 *)
  auto, cursor, buf,       \* auto-init, half-sectors moved, transfer buffer
  (* what the loaders leave in memory *)
  dest, outcome

prog    == <<task, step, sector, count, block>>
thread  == <<pc, cmd, sent, taken>>
flags   == <<irqReceived, handleState, waited>>
fdc     == <<rqm, phase, op, got, arg, out, flaw, seeking, senseDue>>
irq     == <<line, irr, inService>>
dma     == <<auto, cursor, buf>>
result  == <<dest, outcome>>
vars    == <<task, step, sector, count, block, pc, cmd, sent, taken, irqReceived,
             handleState, waited, rqm, phase, op, got, arg, out, flaw, seeking,
             senseDue, line, irr, inService, auto, cursor, buf, dest, outcome>>

Load == INSTANCE SectorLoad WITH Requests <- Requests, dest <- dest, outcome <- outcome

Threads == {"main", "isr"}
Err     == 2               \* a pointer to an error message

-----------------------------------------------------------------------------
(* Commands.                                                               *)

Commands == {"version", "specify", "configure", "recalibrate", "seek", "read", "sense"}

CommandSize == [version |-> 1, specify |-> 3, configure |-> 4, recalibrate |-> 2,
                seek |-> 3, read |-> 9, sense |-> 1]

(* Result bytes the driver reads, and how many of the first ones it checks.*)
ResultSize  == [version |-> 1, specify |-> 0, configure |-> 0, recalibrate |-> 0,
                seek |-> 0, read |-> 7, sense |-> 2]
CheckedNotSt2 == [version |-> 1, specify |-> 0, configure |-> 0, recalibrate |-> 0,
                  seek |-> 0, read |-> 2, sense |-> 1]
Checked     == [version |-> 1, specify |-> 0, configure |-> 0, recalibrate |-> 0,
                seek |-> 0, read |-> 3, sense |-> 1]

(* Result bytes the controller offers: a sense command that nothing caused *)
(* is answered by one byte, "invalid command".                             *)
OfferedSize == [version |-> 1, specify |-> 0, configure |-> 0, recalibrate |-> 0,
                seek |-> 0, read |-> 7, sense |-> 2, invalid |-> 1]

(* Where the code goes once the last byte is written: fpy_send_command      *)
(* drains unless mrq is false, fpy_cmd_check_version does not go through it.*)
AfterSend(c) == CASE c = "version"     -> "poll_result"
                  [] c = "recalibrate" -> "wait"
                  [] OTHER             -> "drain"

AfterDrain(c) == CASE c = "read"  -> "wait"
                   [] c = "sense" -> "poll_result"
                   [] OTHER       -> "ok"

-----------------------------------------------------------------------------
(* The boot sequence: the tasks of stage3/floppy.c in init order, then one *)
(* copy per request (copy_stage4 and the two of load_protected).           *)

Prologue == <<"floppy_init", "floppy_dma", "floppy_dma_setup_read",
              "floppy_test", "floppy_test">>

LastTask == Len(Prologue) + Len(Requests)
Job(t)   == IF t <= Len(Prologue) THEN Prologue[t] ELSE "copy"
Req      == task - Len(Prologue)          \* the request a copy task serves

(* The commands each task issues, in order.  What floppy_init writes to the *)
(* data rate and digital output registers, and its pauses, are left out.   *)
Script(job) == CASE job = "floppy_init" -> <<"version", "specify", "configure",
                                             "recalibrate", "recalibrate">>
                 [] job = "floppy_test" -> <<"read">>
                 [] job = "copy"        -> <<"seek", "read">>
                 [] OTHER               -> << >>

(* The address parameters of a seek or read command.  floppy_test gives a  *)
(* track length of 1, fpy_copy_bytes the length of a track.                *)
Address == [c |-> CylinderOf(sector), h |-> HeadOf(sector), s |-> SectorOf(sector),
            eot |-> IF Job(task) = "floppy_test" THEN 1 ELSE Sectors]

-----------------------------------------------------------------------------
(* The medium and the DMA channel.  The channel is programmed for 0x300    *)
(* bytes, three half-sectors, so a read transfers the sector it addresses  *)
(* and half of the next one.                                               *)

Halves == 3

Lba(a) == PhysicalLba(a.c, a.h, a.s)

(* Multitrack: the sector the controller goes on with.                     *)
LastOfCylinder(a) == a.s = a.eot /\ a.h = Heads - 1
Following(a) ==
    CASE a.s # a.eot                     -> [a EXCEPT !.s = @ + 1]
      [] a.s = a.eot /\ a.h # Heads - 1 -> [c |-> a.c, h |-> a.h + 1, s |-> 1, eot |-> a.eot]
      [] OTHER                           -> [c |-> a.c + 1, h |-> 0, s |-> 1, eot |-> a.eot]

(* The i-th half-sector (from 0) a read of a delivers.                     *)
Streamed(a, i) == IF i < 2 THEN Load!HalfSector(Lba(a), i)
                           ELSE Load!HalfSector(Lba(Following(a)), i - 2)

Garbage == Load!HalfSector(-1, 1)

(* n half-sectors arrive; at the terminal count an auto-init channel is    *)
(* ready for the next transfer and any other is exhausted.                 *)
CursorAfter(n) == IF n = 0 \/ cursor + n < Halves THEN cursor + n
                  ELSE IF auto THEN 0 ELSE Halves

Arrive(n) ==
    /\ buf' = [i \in 0..(Halves - 1) |->
                 IF i >= cursor /\ i < cursor + n THEN Streamed(arg, i - cursor) ELSE buf[i]]
    /\ cursor' = CursorAfter(n)
    /\ UNCHANGED auto

-----------------------------------------------------------------------------
Init ==
    /\ task = 1 /\ step = 1
    /\ sector = 0 /\ count = 0 /\ block = 1
    /\ pc = [main |-> "task", isr |-> "idle"]
    /\ cmd = [main |-> "version", isr |-> "sense"]
    /\ sent = [main |-> 0, isr |-> 0]
    /\ taken = [main |-> 0, isr |-> 0]
    /\ irqReceived \in {0, 1, Err}
    /\ handleState \in PowerOn
    /\ waited = 0
    /\ rqm = TRUE /\ phase = "command" /\ op = "version" /\ got = 0
    /\ arg = [c |-> 0, h |-> 0, s |-> 1, eot |-> 1]
    /\ out = 0 /\ flaw = 0 /\ seeking = FALSE /\ senseDue = FALSE
    /\ line = FALSE /\ irr = FALSE /\ inService = FALSE
    /\ auto = FALSE /\ cursor \in 0..(Halves - 1)
    /\ buf = [i \in 0..(Halves - 1) |-> Garbage]
    /\ Load!Init

(* The processor takes IRQ 6 before the next access of main.               *)
Deliverable == irr /\ ~inService

Runs(t) == IF t = "isr" THEN pc["isr"] # "idle"
                        ELSE pc["isr"] = "idle" /\ ~Deliverable

At(t, label) == Runs(t) /\ pc[t] = label
Goto(t, label) == pc' = [pc EXCEPT ![t] = label]

-----------------------------------------------------------------------------
(* fpy_send_command and fpy_send_command_byte.                             *)

(* A command begins; fpy_cmd_read_sector tells the handler to leave the    *)
(* controller alone first, fpy_cmd_check_version writes its byte directly. *)
HandleStateUnprepared(c) == handleState
HandleStateFor(c) == IF c = "read" THEN 1 ELSE handleState

Issue(t, c) ==
    /\ cmd' = [cmd EXCEPT ![t] = c]
    /\ sent' = [sent EXCEPT ![t] = 0]
    /\ taken' = [taken EXCEPT ![t] = 0]
    /\ Goto(t, IF c = "version" THEN "poll" ELSE "status")
    /\ handleState' = HandleStateFor(c)

(* The one look at mrq and dataio before the first byte.                   *)
ReadyMrqOnly == rqm
ReadyAtRest == rqm /\ phase # "result" /\ ~seeking
Ready == rqm /\ phase # "result"

CheckStatus(t) ==
    /\ At(t, "status")
    /\ Goto(t, IF Ready THEN "spin" ELSE "error")
    /\ UNCHANGED <<prog, cmd, sent, taken, flags, fdc, irq, dma, result>>

(* while (!mrq): leaves when the bit is seen set.                          *)
Spin(t) ==
    /\ At(t, "spin") /\ rqm
    /\ Goto(t, "poll")
    /\ UNCHANGED <<prog, cmd, sent, taken, flags, fdc, irq, dma, result>>

(* At most 1000 looks at mrq before each byte.                             *)
Poll(t) ==
    /\ At(t, "poll")
    /\ Goto(t, IF rqm THEN "put" ELSE "error")
    /\ UNCHANGED <<prog, cmd, sent, taken, flags, fdc, irq, dma, result>>

(* The byte is written.  The controller takes it when it is ready for one, *)
(* as the next byte of the command whose first byte it was given.          *)
Put(t) ==
    /\ At(t, "put")
    /\ sent' = [sent EXCEPT ![t] = @ + 1]
    /\ Goto(t, IF sent[t] + 1 < CommandSize[cmd[t]] THEN "spin" ELSE AfterSend(cmd[t]))
    /\ IF rqm /\ phase = "command"
         THEN /\ rqm' = FALSE
              /\ got' = got + 1
              /\ op' = IF got = 0 THEN cmd[t] ELSE op
              /\ arg' = IF got = 0 /\ cmd[t] \in {"seek", "read"} THEN Address ELSE arg
         ELSE UNCHANGED <<rqm, got, op, arg>>
    /\ UNCHANGED <<prog, cmd, taken, flags, phase, out, flaw, seeking, senseDue, irq, dma, result>>

Drain(t) ==
    /\ At(t, "drain") /\ rqm
    /\ Goto(t, AfterDrain(cmd[t]))
    /\ UNCHANGED <<prog, cmd, sent, taken, flags, fdc, irq, dma, result>>

-----------------------------------------------------------------------------
(* fpy_read_data and the checks made on what it returns.                   *)

(* One more result byte was obtained, bad or good.                         *)
Obtained(t, bad) ==
    /\ taken' = [taken EXCEPT ![t] = @ + 1]
    /\ Goto(t, IF bad /\ taken[t] < Checked[cmd[t]] THEN "error"
               ELSE IF taken[t] + 1 = ResultSize[cmd[t]] THEN "ok"
               ELSE "poll_result")

(* mrq was never seen: the byte is 0xFF, which no check lets through.      *)
PollResult(t) ==
    /\ At(t, "poll_result")
    /\ IF rqm THEN Goto(t, "get") /\ UNCHANGED taken ELSE Obtained(t, TRUE)
    /\ UNCHANGED <<prog, cmd, sent, flags, fdc, irq, dma, result>>

(* The controller answers t's command, and byte for byte.                  *)
InStep(t) == /\ phase = "result" /\ rqm
             /\ op = cmd[t] \/ (cmd[t] = "sense" /\ op = "invalid")
             /\ out = taken[t]

(* The byte is read.  It means what the driver takes it for only InStep;   *)
(* any other byte may look good or bad.  Reading a result of a read lowers *)
(* the interrupt line.                                                     *)
Get(t) ==
    /\ At(t, "get")
    /\ \E bad \in (IF InStep(t) THEN {flaw = out + 1} ELSE BOOLEAN) : Obtained(t, bad)
    /\ IF rqm /\ phase = "result"
         THEN /\ rqm' = FALSE
              /\ out' = out + 1
              /\ line' = IF op = "read" THEN FALSE ELSE line
         ELSE UNCHANGED <<rqm, out, line>>
    /\ UNCHANGED <<prog, cmd, sent, flags, phase, op, got, arg, flaw, seeking, senseDue,
                   irr, inService, dma, result>>

-----------------------------------------------------------------------------
(* fpy_wait_irq.                                                           *)

(* The flag is loaded; compiled as the project builds it, a flag found 0   *)
(* is never loaded again.                                                  *)
WaitIrq ==
    /\ At("main", "wait")
    /\ irqReceived # 0 \/ HoistedWait
    /\ waited' = irqReceived
    /\ Goto("main", IF irqReceived = 0 THEN "hang" ELSE "clear")
    /\ UNCHANGED <<prog, cmd, sent, taken, irqReceived, handleState, fdc, irq, dma, result>>

(* The flag is cleared; fpy_cmd_read_sector ignores an error.              *)
ClearIrq ==
    /\ At("main", "clear")
    /\ irqReceived' = 0
    /\ Goto("main", IF cmd["main"] = "read" THEN "poll_result"
                    ELSE IF waited = Err THEN "error" ELSE "ok")
    /\ UNCHANGED <<prog, cmd, sent, taken, handleState, waited, fdc, irq, dma, result>>

-----------------------------------------------------------------------------
(* The tasks.                                                              *)

(* A task returns and the next one of stage3_load's loop is called.        *)
Finish == task' = task + 1 /\ Goto("main", IF task = LastTask THEN "stopped" ELSE "task")

SetupIdtKeepsFlag == UNCHANGED irqReceived
SetupIdt == irqReceived' = 0

(* floppy_init installs the handler (fpy_setup_idt), then sends version.   *)
FloppyInit ==
    /\ At("main", "task") /\ Job(task) = "floppy_init"
    /\ step' = 1
    /\ SetupIdt
    /\ Issue("main", "version")
    /\ UNCHANGED <<task, sector, count, block, waited, fdc, irq, dma, result>>

FloppyDma ==
    /\ At("main", "task") /\ Job(task) = "floppy_dma"
    /\ cursor' = 0
    /\ Finish
    /\ UNCHANGED <<step, sector, count, block, cmd, sent, taken, flags, fdc, irq, auto, buf, result>>

SetModeSingleCycle == auto' = FALSE
SetMode == auto' = TRUE

FloppyDmaSetupRead ==
    /\ At("main", "task") /\ Job(task) = "floppy_dma_setup_read"
    /\ SetMode
    /\ Finish
    /\ UNCHANGED <<step, sector, count, block, cmd, sent, taken, flags, fdc, irq, cursor, buf, result>>

(* Sector 0 is read; its signature decides only what is printed.           *)
FloppyTest ==
    /\ At("main", "task") /\ Job(task) = "floppy_test"
    /\ step' = 1
    /\ sector' = 0
    /\ Issue("main", "read")
    /\ UNCHANGED <<task, count, block, irqReceived, waited, fdc, irq, dma, result>>

(* fpy_copy_bytes is called; load_protected calls fpy_setup_idt before the *)
(* first of its two calls.                                                 *)
CopyBytes ==
    /\ At("main", "task") /\ Job(task) = "copy"
    /\ sector' = Requests[Req].first % SectorValues
    /\ count' = Requests[Req].bytes
    /\ block' = 1
    /\ IF Req = 2 THEN SetupIdt ELSE UNCHANGED irqReceived
    /\ Goto("main", "loop")
    /\ UNCHANGED <<task, step, cmd, sent, taken, handleState, waited, fdc, irq, dma, result>>

(* while (count > 0): one more sector, or NULL is returned.                *)
CopyLoop ==
    /\ At("main", "loop") /\ count > 0
    /\ step' = 1
    /\ Issue("main", "seek")
    /\ UNCHANGED <<task, sector, count, block, irqReceived, waited, fdc, irq, dma, result>>

CopyDone ==
    /\ At("main", "loop") /\ count <= 0
    /\ outcome' = [outcome EXCEPT ![Req] = "ok"]
    /\ Finish
    /\ UNCHANGED <<step, sector, count, block, cmd, sent, taken, flags, fdc, irq, dma, dest>>

(* A command succeeded and its script goes on.                             *)
NextCommand ==
    /\ At("main", "ok") /\ step < Len(Script(Job(task)))
    /\ step' = step + 1
    /\ Issue("main", Script(Job(task))[step + 1])
    /\ UNCHANGED <<task, sector, count, block, irqReceived, waited, fdc, irq, dma, result>>

(* The last command of floppy_init or floppy_test succeeded.               *)
TaskDone ==
    /\ At("main", "ok") /\ step = Len(Script(Job(task))) /\ Job(task) # "copy"
    /\ Finish
    /\ UNCHANGED <<step, sector, count, block, cmd, sent, taken, flags, fdc, irq, dma, result>>

(* The sector read is copied from the transfer buffer, no more than count. *)
NextSectorKept(s) == s
NextSector(s) == (s + 1) % SectorValues

CopySector ==
    /\ At("main", "ok") /\ step = Len(Script(Job(task))) /\ Job(task) = "copy"
    /\ dest' = [dest EXCEPT ![<<Req, block>>] =
                  Load!Content(buf[0], buf[1],
                               IF count > Load!BlockSize THEN Load!BlockSize ELSE count)]
    /\ count' = count - Load!BlockSize
    /\ sector' = NextSector(sector)
    /\ block' = block + 1
    /\ Goto("main", "loop")
    /\ UNCHANGED <<task, step, cmd, sent, taken, flags, fdc, irq, dma, outcome>>

(* A command failed: the task is left, and the next one runs all the same. *)
TaskFails ==
    /\ At("main", "error")
    /\ outcome' = IF Job(task) = "copy" THEN [outcome EXCEPT ![Req] = "error"] ELSE outcome
    /\ Finish
    /\ UNCHANGED <<step, sector, count, block, cmd, sent, taken, flags, fdc, irq, dma, dest>>

-----------------------------------------------------------------------------
(* The interrupt: idt_entry_32_38 and fpy_interrupt_handler.               *)

Deliver ==
    /\ Deliverable /\ pc["isr"] = "idle"
    /\ irr' = FALSE /\ inService' = TRUE
    /\ Goto("isr", "entry")
    /\ UNCHANGED <<prog, cmd, sent, taken, flags, fdc, line, dma, result>>

HandleLater ==
    /\ At("isr", "entry") /\ handleState # 0
    /\ handleState' = 0
    /\ irqReceived' = 1
    /\ Goto("isr", "eoi")
    /\ UNCHANGED <<prog, cmd, sent, taken, waited, fdc, irq, dma, result>>

HandleNow ==
    /\ At("isr", "entry") /\ handleState = 0
    /\ Issue("isr", "sense")
    /\ UNCHANGED <<prog, irqReceived, waited, fdc, irq, dma, result>>

Sensed ==
    /\ pc["isr"] \in {"ok", "error"}
    /\ irqReceived' = IF pc["isr"] = "ok" THEN 1 ELSE Err
    /\ Goto("isr", "eoi")
    /\ UNCHANGED <<prog, cmd, sent, taken, handleState, waited, fdc, irq, dma, result>>

AcknowledgeDropped == UNCHANGED inService
Acknowledge == inService' = FALSE

EndOfInterrupt ==
    /\ At("isr", "eoi")
    /\ Acknowledge
    /\ Goto("isr", "idle")
    /\ UNCHANGED <<prog, cmd, sent, taken, flags, fdc, line, irr, dma, result>>

-----------------------------------------------------------------------------
(* The controller.                                                         *)

(* The line rises; one that was never lowered may give no new edge.        *)
Raise == /\ line' = TRUE
         /\ irr' \in (IF line THEN {irr, TRUE} ELSE {TRUE})
         /\ UNCHANGED inService

Quiet == UNCHANGED <<prog, thread, flags, result>>

AcceptByte ==
    /\ phase = "command" /\ ~rqm /\ got < CommandSize[op]
    /\ rqm' = TRUE
    /\ UNCHANGED <<phase, op, got, arg, out, flaw, seeking, senseDue, irq, dma>> /\ Quiet

Received(c) == phase = "command" /\ ~rqm /\ got = CommandSize[op] /\ op = c

(* Commands without a result: specify and configure are over at once, a    *)
(* recalibrate or seek leaves the head moving.                             *)
Execute ==
    /\ \E c \in {"specify", "configure", "recalibrate", "seek"} : Received(c)
    /\ rqm' = TRUE /\ got' = 0
    /\ seeking' = (seeking \/ op \in {"recalibrate", "seek"})
    /\ UNCHANGED <<phase, op, arg, out, flaw, senseDue, irq, dma>> /\ Quiet

(* The version byte may not be the 0x90 the driver wants.                  *)
Version ==
    /\ Received("version")
    /\ rqm' = TRUE /\ got' = 0 /\ phase' = "result" /\ out' = 0
    /\ flaw' \in {0, 1}
    /\ UNCHANGED <<op, arg, seeking, senseDue, irq, dma>> /\ Quiet

(* A sense command reports the head movement that ended, possibly badly,   *)
(* and lowers the line; it is invalid when none has.                       *)
Sense ==
    /\ Received("sense")
    /\ rqm' = TRUE /\ got' = 0 /\ phase' = "result" /\ out' = 0
    /\ op' = IF senseDue THEN "sense" ELSE "invalid"
    /\ flaw' \in (IF senseDue THEN {0, 1} ELSE {1})
    /\ senseDue' = FALSE
    /\ line' = IF senseDue THEN FALSE ELSE line
    /\ UNCHANGED <<arg, seeking, irr, inService, dma>> /\ Quiet

SeekDone ==
    /\ seeking
    /\ seeking' = FALSE /\ senseDue' = TRUE
    /\ Raise
    /\ UNCHANGED <<rqm, phase, op, got, arg, out, flaw, dma>> /\ Quiet

(* A read starts when the head has stopped.                                *)
StartRead ==
    /\ Received("read") /\ ~seeking
    /\ phase' = "execute" /\ got' = 0
    /\ UNCHANGED <<rqm, op, arg, out, flaw, seeking, senseDue, irq, dma>> /\ Quiet

EndRead(bad) ==
    /\ phase' = "result" /\ out' = 0 /\ flaw' = bad /\ rqm' = TRUE
    /\ Raise
    /\ UNCHANGED <<op, got, arg, seeking, senseDue>> /\ Quiet

(* The transfer reaches the terminal count.                                *)
FullRead ==
    /\ phase = "execute" /\ cursor < Halves
    /\ Halves - cursor > 2 /\ LastOfCylinder(arg) => "wrap" \in EndOfCylinder
    /\ Arrive(Halves - cursor)
    /\ EndRead(0)

(* The cylinder ends first: an abnormal termination after one sector.      *)
ShortRead ==
    /\ phase = "execute" /\ cursor = 0
    /\ LastOfCylinder(arg) /\ "abort" \in EndOfCylinder
    /\ Arrive(2)
    /\ EndRead(1)

(* The medium or the drive fails before the sector is complete; st0, st1   *)
(* or st2 says so.                                                         *)
FaultyRead ==
    /\ phase = "execute"
    /\ \E n \in 0..2 : (n = 0 \/ cursor + n < Halves) /\ Arrive(n)
    /\ \E bad \in 1..3 : EndRead(bad)

(* After a result byte is read the next one is offered, or a new command   *)
(* is accepted.                                                            *)
OfferByte ==
    /\ phase = "result" /\ ~rqm
    /\ rqm' = TRUE
    /\ phase' = IF out < OfferedSize[op] THEN "result" ELSE "command"
    /\ UNCHANGED <<op, got, arg, out, flaw, seeking, senseDue, irq, dma>> /\ Quiet

-----------------------------------------------------------------------------
Driver(t) == CheckStatus(t) \/ Spin(t) \/ Poll(t) \/ Put(t) \/ Drain(t)
             \/ PollResult(t) \/ Get(t)

Main == \/ Driver("main") \/ WaitIrq \/ ClearIrq
        \/ FloppyInit \/ FloppyDma \/ FloppyDmaSetupRead \/ FloppyTest
        \/ CopyBytes \/ CopyLoop \/ CopyDone \/ CopySector
        \/ NextCommand \/ TaskDone \/ TaskFails

Isr == Driver("isr") \/ Deliver \/ HandleLater \/ HandleNow \/ Sensed \/ EndOfInterrupt

Controller == \/ AcceptByte \/ Execute \/ Version \/ Sense \/ SeekDone
              \/ StartRead \/ FullRead \/ ShortRead \/ FaultyRead \/ OfferByte

Next == Main \/ Isr \/ Controller

Spec == Init /\ [][Next]_vars

(* The processor and the controller keep going.                            *)
FairSpec == Spec /\ WF_vars(Main \/ Isr) /\ WF_vars(SeekDone) /\ WF_vars(Controller)

-----------------------------------------------------------------------------
MainLabels == {"task", "loop", "status", "spin", "poll", "put", "drain", "wait", "clear",
               "hang", "poll_result", "get", "ok", "error", "stopped"}
IsrLabels  == {"idle", "entry", "status", "spin", "poll", "put", "drain", "poll_result",
               "get", "ok", "error", "eoi"}

(* The boot sequence has stopped exactly when it is past its last task.    *)
ProgTypeOK ==
    /\ task \in 1..(LastTask + 1) /\ step \in 1..5
    /\ (pc["main"] = "stopped") <=> (task = LastTask + 1)
    /\ sector \in Nat /\ count \in Int /\ block \in Nat \ {0}

ThreadTypeOK ==
    /\ pc \in [Threads -> MainLabels \union IsrLabels]
    /\ pc["main"] \in MainLabels /\ pc["isr"] \in IsrLabels
    /\ cmd \in [Threads -> Commands] /\ cmd["main"] # "sense" /\ cmd["isr"] = "sense"
    /\ sent \in [Threads -> Nat] /\ taken \in [Threads -> Nat]

FlagsTypeOK ==
    irqReceived \in {0, 1, Err} /\ handleState \in {0, 1} /\ waited \in {0, 1, Err}

FdcTypeOK ==
    /\ rqm \in BOOLEAN /\ phase \in {"command", "execute", "result"}
    /\ op \in Commands \union {"invalid"} /\ got \in Nat
    /\ arg \in [c : Int, h : Int, s : Int, eot : Int]
    /\ out \in Nat /\ flaw \in 0..3 /\ seeking \in BOOLEAN /\ senseDue \in BOOLEAN

IrqTypeOK == line \in BOOLEAN /\ irr \in BOOLEAN /\ inService \in BOOLEAN

DmaTypeOK ==
    /\ auto \in BOOLEAN /\ cursor \in 0..Halves
    /\ buf \in [0..(Halves - 1) -> Load!HalfSectors]

ResultTypeOK ==
    /\ dest \in [Load!Slots -> Load!Contents]
    /\ outcome \in [1..Len(Requests) -> {"pending", "ok", "error"}]

(* Every variable keeps its type.                                          *)
TypeOK == /\ ProgTypeOK /\ ThreadTypeOK /\ FlagsTypeOK /\ FdcTypeOK
          /\ IrqTypeOK /\ DmaTypeOK /\ ResultTypeOK

(* The bytes fpy_send_command writes are the ones the controller takes for *)
(* that command: the handler never puts a command of its own between two   *)
(* of them, and none is written to a controller that offers a result.      *)
BytesReachTheirCommand ==
    \A t \in Threads : At(t, "put") =>
      /\ phase = "command" /\ rqm
      /\ got = sent[t]
      /\ got > 0 => op = cmd[t]

(* A result byte the driver is about to check is the one the controller    *)
(* offers at that place of that command's answer, although fpy_read_data   *)
(* looks neither at dataio nor at what was left unread before.             *)
ResultsInStep ==
    \A t \in Threads : At(t, "get") /\ taken[t] < Checked[cmd[t]] => InStep(t)

(* When floppy_init goes on after fpy_wait_irq, that recalibration is over: *)
(* the flag was not an old one.  The controller has been asked about it by *)
(* the end of the second recalibration, whatever the memory of             *)
(* fpy_irq_handle_state, which nothing initialises, makes of the first.    *)
HeadSettled ==
    pc["main"] = "ok" /\ cmd["main"] = "recalibrate" =>
      ~seeking /\ (step = Len(Script("floppy_init")) => ~senseDue)

(* Every transfer starts at the transfer buffer's beginning, though an     *)
(* aborted one leaves the auto-init channel in the middle.                 *)
AlignedTransfer == phase = "execute" => auto /\ cursor = 0

(* A read fpy_copy_bytes takes for good left the sector it asked for, and  *)
(* no older one, at the start of the transfer buffer.                      *)
BufferHoldsRequested ==
    pc["main"] = "ok" /\ cmd["main"] = "read" /\ Job(task) = "copy" =>
      \A half \in 0..1 : buf[half] = Load!HalfSector(sector, half)

(* Between two tasks, and when the last load is over, no interrupt of the   *)
(* controller is pending or to come, even after an error: load_protected   *)
(* may replace the handler and the loaded stages may overwrite it, though  *)
(* nothing ever waits for the end of a seek.                               *)
NoStrayInterrupt ==
    pc["main"] \in {"task", "stopped"} =>
      ~seeking /\ ~irr /\ pc["isr"] = "idle"

(* The driver and its devices implement the loading of sectors: whatever   *)
(* fails on the way, blocks are written in order, each with what the image *)
(* holds there, and NULL is returned only when the part is complete.       *)
LoadsImage == Load!Spec

(* The boot sequence reaches the end of its loads, with or without errors: *)
(* no wait for an interrupt or for a status bit lasts for ever, provided   *)
(* that the memory of fpy_irq_handle_state happens to hold 0: with 1 there *)
(* nothing lowers the line after the first recalibration, and the second   *)
(* one may give no edge.                                                   *)
BootProceeds == handleState = 0 => <>(pc["main"] = "stopped")

(* An interrupt recorded in fpy_irq_received ends the wait for it.         *)
WaitEnds == irqReceived # 0 /\ pc["main"] \in {"wait", "hang"}
              ~> pc["main"] \notin {"wait", "hang"}
=============================================================================
