# Verification of toy-bootloader

TLA+ models of the boot loader in `src/`, the TLC configurations that check them
on small instances, and TLAPS proofs of what matters most for every instance.
The source is the reference for every definition; `PROJECT.json` gives, for each
of them, the lines it stands for, and lists the runs, the hazards, the findings
and the theorems.

Contents: 1 the system, 2 the modules, 3 the runs and what they show, 4 bounds
and fairness, 5 what is proved, 6 where code and its own statements disagree,
7 what is assumed of the outside, 8 what is not modelled, 9 the plan.

## 1. The system

The loader takes a PC from the BIOS's jump to 0x7C00 to 64-bit code. Each stage
loads the next and jumps to it; most of them overlay one another in memory.

| component | state | operations | with whom |
|---|---|---|---|
| stage 1 (`stage1/`) | drive number; `max_head_number`, `max_sector_number` | `copy_kernel` three times: part shared, stage 2, stage 3 | BIOS int 0x13; calls stage 2, is called back, jumps to stage 3 |
| stage 2 tasks (`stage2/`) | `g_gdt`, `seg_cs`, `seg_ds`, disk properties, cpuid words, memory map | one function for each task, in link order: memory size, cpuid (3), a20, gdt_setup, disk_props | BIOS, keyboard controller, processor |
| interrupts (`stage3/idt.c`, `shared/idt*`) | `g_idt`, `idt_handlers_32`, masks of the two 8259 | `idt`, `init_8259`, `set_interrupt`, `irq_unmask`, delivery | every device; the driver and the timer install handlers |
| timer (`stage3/timer.c`) | `timer`, the 8253's divisor | `setup_timer`, `sleep`, the handler | interrupts |
| floppy driver (`shared/floppy*.h`, `stage3/floppy.c`) | `fpy_irq_received`, `fpy_irq_handle_state`, the transfer buffer | commands, `fpy_wait_irq`, `fpy_interrupt_handler`, `fpy_copy_bytes` | floppy controller, DMA channel 2, IRQ 6 |
| DMA (`shared/dma.h`) | the 8237's registers | masks, address, count, page, mode | floppy driver |
| loaders (`stage3/copy_stage4.c`, `loader_protected/`) | what is in memory | load the loader, stage 4, stage 5; clear the bss; jump | driver; overwrite stages 1 and 3 |
| stage 4 (`stage4/`) | `pml4`, `pdp`, `pd`, `cr3`, `cr4`, EFER, `cr0`, selectors | `setup_paging` | loader cleared its tables; jumps to stage 5 |
| stage 5 (`stage5/`) | interrupt flag, segments | `cli`, segments, far jump, stop | tables of stages 2 and 4 |
| layout (`linker.ld`) | where each part lies, on disk and in memory | - | every load and jump |
| screen (`stage2/print.c`, `stage2/load.c`) | `cursor_pos`, `cur_color`, `progress_cursor` | `puts`, `putc`, `update_progress_bar` | every task of stage 2; BIOS int 0x10 |
| serial output (`stage3..5/write.c`) | `is_init` of stages 3 and 4 | `puts`, `setbr` | every task from stage 3 on, the handlers of interrupts; the serial port |
| formatting (`stage2..5/printf.c`) | the `va_list`, the buffer | `printf`, `vsprintf`, `number`, `strnlen` | every message; calls `puts` of its stage |

What makes this hard to test: the interrupt handler of the floppy sends
commands to the controller from the middle of the commands of the boot
sequence, a seek is never waited for, an error leaves half-read answers in the
controller, the transfer is longer than a sector, and the code that runs
overwrites code that ran, with interrupts enabled, under tables another stage
wrote in another mode of the processor. Nothing is preempted except by
interrupts; there is one processor and nothing is persistent, so there is no
crash recovery and no scheduling.

What makes each part correct:

* driver: bytes reach the command they belong to, answers are read in step,
  the buffer holds the sector asked for when it is copied, no interrupt is left
  over between tasks, success means the part is loaded, and nothing waits for ever;
* interrupts: a handler for each line before interrupts are enabled, one
  acknowledgement for each interrupt handled, no handler overwritten while its
  line may be raised;
* chain: nothing needed is overwritten, the right sectors are asked for, each
  stage runs in the mode it was compiled for, with flat segments;
* paging: identity below 1 GiB from the instruction that enables it, no other page;
* DMA: the channel is never open with half a word written;
* stage 2 tasks: what is printed is what the machine has, and `a20` opens the line;
* screen: the progress bar and the messages leave each other's cells, cursor and
  colour alone;
* serial output: no byte of text is taken for a rate, nothing is sent at another
  rate or in another format than the stage set, and a stage that sets them again
  loses nothing of the one before;
* formatting: each directive takes the argument written for it, and the number
  printed is the one given, in the width asked for.

## 2. The modules

| module | models | state and actions |
|---|---|---|
| `Geometry` | sector to cylinder, head, sector | operators |
| `SectorLoad` | what `fpy_copy_bytes` promises (abstract) | `dest`, `outcome`; write the next block, succeed, fail |
| `Floppy` | the driver in both its threads, controller, disk, DMA channel, IRQ 6 | two program counters (`main`, `isr`); an action for each access to a port or shared variable, for each task, for each step of the controller |
| `FloppyInvariant`, `FloppyProofs` | the inductive invariant and the proofs, with those of `Geometry` | |
| `Interrupts`, `InterruptsProofs` | tables, 8259s, timer, and the overlay of stage 4 on stage 3's handlers | tasks as actions; devices raise lines; delivery by priority; handlers return |
| `Layout` | `linker.ld` | operators on the sizes of the parts |
| `Gdt` | `gdt_segment_create` and the processor's decoding | operators |
| `BootChain`, `BootProofs` | stage 1, `gdt_setup`, `disk_props`, jumps, loads, bss, selectors | the regions of memory that still hold what was put there; one action for each jump, read, load |
| `Paging`, `PagingProofs` | `setup_paging` | three tables of 512 entries, four registers; one action for each table, iteration and register |
| `Dma` | `floppy_dma`, `floppy_dma_setup_read` as bytes to ports | the registers of both 8237s; an action for each byte |
| `Serial` | `puts` and `setbr` of stages 3, 4 and 5, and the port's latch, FIFO and line | `is_init`, the accesses left of a call, the registers, what waits to be sent; an action for a call, an access, a byte sent |
| `Ports`, `PortsProofs` | what is written to ports from stage 3 to 5: composes `Dma` and `Serial` | the place in the boot; its actions are theirs, with the clearing of the bss, `sti`, `cli` and an interrupt that reports itself from anywhere |
| `A20`, `Cpuid` | `a20`, the cpuid tasks | a script of waits and accesses with the 8042, which works and is typed at between any two; registers as sets of bits |
| `Screen` | `print.c`, and the progress bar of `load.c` | cursors, colour, the cells drawn; one action for each text or bar |
| `Stage2Tasks`, `Stage2Proofs` | `stage2_load` with all its tasks: composes `Cpuid`, `A20` and `Screen` | the task of the loop and the place in its iteration |
| `Printf`, `PrintfProofs` | `vsprintf` and `number`, with the widths of the types as parameters | the format, the argument slots not yet read, the buffer; an action for each kind of directive |
| `Printing`, `PrintingProofs` | the calls of `printf` compiled into each stage, with the stage's copy: four instances of `Printf` | a table of calls with their arguments |
| `MCFloppy`, `MCBootChain`, `MCPaging`, `MCPorts`, `MCPrinting` | instances | definitions for the configurations |

How they fit. `Floppy` implements `SectorLoad` (`LoadsImage`), and `BootChain`
takes a load as one step on the strength of it. `Floppy` shows that no
interrupt of the controller is left over between tasks (`NoStrayInterrupt`), and
`Interrupts`, where a command is just something that ends in an interrupt, takes
that as the moment the loader may be left. `Dma` shows that the bytes the driver
writes give what `Floppy` uses in one step: a transfer of 768 bytes that starts
at the buffer. `BootChain` leaves the mapping to `Paging` and `a20` to `A20`.
`Stage2Tasks` and `Ports` are conjunctions of instances: a step of `Cpuid` or
`A20` is a step of `Screen` as well, which draws what the step prints, and in
`Ports` the bytes of `Dma` and `Serial` come in the order of the boot, with
interrupts between any two. `Printing` puts a format and its arguments before
`Printf`; that of stage 5 has a long that is wider than an int.

The refinement is stated the usual way: `Floppy` has a copy of the abstract
specification, `INSTANCE SectorLoad WITH` the requests, the memory the driver
has copied to and the outcome it returned, and `LoadsImage` is its `Spec`.

Two conventions. The first definition of a pair such as `ReadyMrqOnly`, `Ready`
is a plausible mistake in the second; the runs detect each of them, which is
what shows that the property it is listed with (`PROJECT.json`, `mutants`) can
fail. And places in the code are strings named after the function or label.

## 3. The runs

Each is `tlc -config <name>.cfg <module>`. Those that pass:

| run | distinct states | shows |
|---|---|---|
| `FloppyLoads` (`MCFloppy`) | 262 237 | with any fault of disk and controller at any point, and the handler entered between any two accesses: bytes of two commands are never mixed (`BytesReachTheirCommand`); each result byte checked is the one meant, though the driver reads 0xFF when a byte does not come and leaves answers half read (`ResultsInStep`); `floppy_init` goes on only when the head has stopped and, in the end, been asked about; a transfer never starts in the middle of the buffer, though the 768-byte transfer is cut at the end of a cylinder; a sector copied is the one asked for; no interrupt is left between tasks; `SectorLoad` is implemented; the sequence comes to its end if `fpy_irq_handle_state` holds 0 at first |
| `InterruptsBoot` (`Interrupts`) | 1 328 | with timer, clock, keyboard and disk raising their lines at any time: handlers are there before `sti`, interrupts handled are acknowledged, those of timer, clock and floppy never find their code overwritten or the processor in long mode, the floppy's is never the unexpected one, and each wait is served unless an unexpected device stops the machine |
| `BootLayouts` (`MCBootChain`) | 43 712 | for 64 layouts, two disks, reads that fail up to three times, loads and disk properties that fail, memory that is not empty at power-on: nothing needed is overwritten, the right sectors are read, modes and selectors agree, the segments are flat, and the chain ends (`ChainEnds`): when nothing went wrong in stage 5 or, on the disk of 256 heads, in the panic of stage 3's division; otherwise possibly at code that was never loaded (`lost`) |
| `PagingIdentity` (`MCPaging`) | 521 | the identity mapping, and nothing else mapped, whatever memory held |
| `Ports` (`MCPorts`) | 238 944 | whatever the BIOS left in the ports and memory in `is_init`, with a port that sends slowly or not at all and a device that interrupts between any two bytes: no text is written while the divisor latch is open (`TextIsNoRate`); what is sent is sent at the rate and in the format of `setbr`, also while stage 4 sets them again (`SentAsSet`); only the text printed before the bss is cleared can be flushed (`FlushesOnlyGreeting`); the DMA channel is never open half-programmed (`TransfersGoToBuffer`) and no other channel changes |
| `Stage2Tasks` | 483 840 | extended features are printed as the processor has them; no key pressed before or during `a20` ends up in the output port, wherever the controller works between a wait and its access - because the command that opens that port to a byte is never reached; the bar is redrawn for each task without disturbing the messages, nor they it (`BarAndTextApart`); a message that overflows its row loses exactly the character that did not fit (`OnlyWrapsClobber`) |
| `Formats` (`MCPrinting`) | 180 341 | for the calls of the stages, and for every directive with every set of flags and a range of widths, precisions and arguments, given in the format or as `*`: each directive takes its own argument, but in the two calls that show a structure of the memory map (`ArgumentsInStep`), a number read back in its base is the number given (`NumbersReadBack`), and a field has the width and side asked for (`FieldsFilled`) |

Those that end in a violation show a statement of the sources that the code does
not keep (section 6): `FloppyHoisted`, `InterruptsSleep`, `A20Opens`,
`CpuidFeatures`, `MemoryPrinted`.

Each passing run but `Formats` also checks the inductive invariant that the
proofs of section 5 use, which includes the type invariant: `IInv`, and for the
floppy driver `HistoryOK` too, which is inductive together with `IInv`. It is
the run's way to say that these invariants are true before they are proved, and
a mutant shows that each of them can fail.

No run looks for deadlock: every model has an end (the sequence of loads is
over, the machine runs stage 5, the tasks are done, the text is printed), and
waiting for ever is the
subject of the liveness properties instead.

## 4. Bounds and fairness

* Disk of 2 heads and 18 sectors, that of a 1.44 MB floppy. `FloppyLoads` reads
  the loader (sector 65, 1528 bytes) and stage 5 (sector 60, 2560 bytes) of the
  built image and a part at sector 35, the last of cylinder 0, whose last block
  is short: the cases are the middle of a track, the end of a track, of a
  cylinder, and a partial block. What a controller does when a cylinder ends in
  the middle of a transfer is left open (`EndOfCylinder`: abort, or go on), as
  controllers and emulators differ. The theorems hold for every geometry and
  every list of parts.
* `SectorValues` = 256, the width of the sector counter. Beyond sector 255 the
  counter wraps and the start of the disk is read; the built image ends at 68.
* Half-sectors are the unit of transfer: 768 bytes are three of them.
* `PowerOn` = {0, 1}: `fpy_irq_handle_state` lies in memory nobody clears, and
  may hold either; so may the disk properties in `BootLayouts`. With 1 the
  handler leaves the first recalibration alone: nothing lowers the interrupt
  line, and the second one may give no edge. `HeadSettled` therefore speaks of
  the sense command after the second recalibration only, and `BootProceeds` of
  machines with 0 there; the other properties need no such condition.
* `HoistedWait` = FALSE in `FloppyLoads`: the flag is loaded in each iteration,
  as the source says. TRUE is what the compiler makes of it (section 6).
* Layouts: the sizes of the built image (shared 1138, shared bss 5440, stage 2
  8628, stage 3 12312, stage 3's bss 5, stage 4 2040, stage 5 2368, stage 4's
  bss 16385, loader 1528) and, around them, a shared part that ends just after,
  just before and at the end of a sector, the largest loader the script's ASSERT
  accepts, a shorter stage 3, a longer stage 4, a stage 5 that fills its page.
  `SegmentsAreFlat` is stated for layouts whose shared part leaves 96 bytes or
  more of its last sector: the zeros there are what clears the descriptor table.
* The second disk has 256 heads, which a byte cannot hold, and 63 sectors. Stage 1
  reads the count 0 as "not known yet" and finds its sectors on the first track;
  `fpy_copy_bytes` divides by it, and stage 3 ends in `interrupt_panic`
  (`floppy_test` divides a constant, and may do so already, or not at all).
* A stage that was not loaded does nothing in `BootChain`: `Lost` is the only step
  from a place whose code is not in memory.
* `TimerValues` = 4 in place of 2^32: the counter only counts down.
* Pages are checked for indexes 0, 1, 2, 255, 510 and 511 of each table; proved for all.
* DMA channels 0 to 2, and bytes 0 and 255 left by the BIOS: each register is
  written whole or not at all. Channel 3 would be given the page port of channel
  2 (`shared/dma.h:117`), and the mask byte of the second controller's channels
  goes to the first; nothing programs them.
* Cpuid: bits on both sides of the gaps of the bit fields. Of ecx of leaf
  0x80000001 only bit 8 varies in `Stage2Tasks`.
* `Columns` = 12 for 80: the longest messages, the lists of features, are scaled
  down with it (one feature stands for four, a letter for a word), so that they
  wrap as they do on the screen and the bar, 9 characters of 12, ends where the
  second line has room for it.
* `FifoSize` = 3 for 16: a line of text is three bytes, so that lines fill the
  FIFO, are held back and overrun it. The rates the BIOS may have left are 9600
  and 300 bits per second (a divisor with and without a high byte), with and
  without parity.
* Types in `Printf`: short, int and long of 4, 8 and 8 bits for stages 2 to 4,
  of 4, 8 and 12 for stage 5 (16, 32, 32 and 16, 32, 64 in the code): TLC's
  integers end at 2^31, and the most negative number of each type must be among
  the arguments. Arguments are the ends of the ranges and values between.

Fairness. `Floppy`: weak fairness of the processor (`Main \/ Isr`), of the end
of a head movement and of the controller: hardware goes on by itself, and the
driver has no other thread to wait for. `Interrupts`: of the boot sequence, of
delivery, of handlers, of the end of a command and of the timer's line; no other
device need ever interrupt. `BootChain`: of the processor. `A20`: of the
processor and of the keyboard controller. `Ports`, `Stage2Tasks` and `Printing`
state no liveness. None is strong, and none is needed for
the safety properties.

## 5. What is proved

The theorems are for every value of the constants that satisfies the named
ASSUME of its module. In each case the property is not inductive, and an
invariant that is has been checked by TLC in the run and then shown to hold
initially, to be preserved by each action (a lemma for each) and to imply the property.

* `FloppyProofs`, for every geometry, list of parts and mood of the controller,
  for both ways to compile the wait and for any memory at power-on. `IInv` says
  who may use the controller when. Its core is `InterruptsOK`: an interrupt can come only
  while `main` waits for a recalibration, after a seek has been written and
  until the read that follows has told the handler to stay away, or at the end
  of a read. From it come `CommandIntegrity` and `Quiescence`; with `AnswerOK`,
  which relates the bytes the controller has delivered to those each thread has
  taken, `AnswerIntegrity`; with `UnfinishedOK` - a transfer cut short leaves a
  result the driver rejects and never finishes reading, so that the controller
  accepts no further command - `TransferAlignment`; with `TransferOK`,
  `BufferCorrectness`. `TypeCorrectness` is the type invariant.
  The address computed for a sector is that of the sector (`RoundTrip`) and is
  on the disk when the sector is (`OnDisk`).
  What the callers of the driver rely on comes from that
  invariant and the history of the run, `HistoryOK` (`HistoryInvariance`).
  `HeadIsSettled` needs of it `SettledOK`, the history of the sense command: it
  is the handler that asks for the state of the head between the
  recalibration's interrupt and the flag, unless it was told to stay away - by
  what the memory held at first, which one interrupt clears, and by nothing else
  until `floppy_test`. `Implementation` is the refinement of `SectorLoad`: every
  step of the driver is a step of it or leaves its variables alone, for every
  geometry, every list of parts and every failure. It needs the rest, which says
  how far the loop is for what is in memory, and one hypothesis, `Numbered`:
  each part ends within the sectors that the byte of `fpy_copy_bytes` can
  count. That is so up to 128 KiB of disk, and the image ends at sector 68.
* `InterruptsProofs`: `Acknowledged`, `HandlersReady`, `FloppyExpected`,
  `ExpectedNeverFault`, for every set of devices. The invariant follows a command
  from the controller through the request, the handler and the flag to the wait
  (`CommandOK`), and says that lines 0 and 8 stay masked (`TableOK`) - it is the
  mistake in `irq_unmask` that keeps the timer's handler, which sends no end of
  interrupt, from blocking the floppy for ever.
* `PagingProofs`: `Identity` and `NothingElse` for all 2^36 pages, any place of
  the tables and any earlier contents; the invariant says which tables are
  filled at each place in the code.
* `BootProofs`. For parts of any size: what is needed together does not overlap
  (`MemoryOrder`), the sector numbers and counts of stage 1 cover the parts one
  after another (`DiskOrder`), and the processor decodes from a descriptor the
  base and the limit it was made of, up to the page (`DescriptorDecodes`). From
  these, for the whole chain: `NothingOverwritten`, `RightSectors`,
  `FlatSegments` and `Modes`. The invariant has two parts. `Control` - places,
  modes, selectors and what the descriptor table holds of them - is inductive by
  itself, whatever failed (`ControlInvariance`), and `Modes` needs nothing else.
  `IInv` adds what depends on memory and disk: the disk's properties, the whole
  table, and that nothing needed is overwritten. Two assumptions restrict the
  layouts. `BootAssumption` has the script's ASSERT, and a shared bss that
  reaches to the end of the named variables in it. `ImageAssumption` is what
  `copy_kernel` can name: counts and first sectors in a byte each, and
  parts that start on the first track where it has no other way to count (before
  `disk_props`, and on a disk of 256 heads, of which it knows 0). A larger image
  would be loaded wrongly; the built one is far from it.
* `PortsProofs`, for every size of the FIFO and whatever the BIOS left. Serial
  port: `TextNeverRate`, `TextSentAsSet`, `NothingElseFlushed`. The
  invariant divides what is left to write into settings, the FIFO's and text
  (`Left`), and relates each such division to the state of the port
  (`Meanwhile`); an unexpected interrupt only adds text at its end, and can come
  only when no setting is left. DMA: `TransfersStayInBuffer` and `OthersKept`
  for channels 0 to 2, which are those whose ports the code has right (section
  4); the flip-flop may be in either state. `Invariance` puts both together.
* `Stage2Proofs`, for every processor, whatever the BIOS and the keyboard do, and every width of the screen. `KeepsItRunning`: the
  status a wait compares with 2 says, too, whether the last byte sent was a
  command, so that no such wait ends once `a20` has sent its first one
  (`PortOK`). It never sends 0xD1, and without it no byte goes to the output
  port. The order of the waits would not do: between a wait and the byte after
  it the controller may take 0xD1, and that byte may be a key. `ExtendedAsReported`: the offsets
  that follow from the widths of the structures' fields are those of the manual.
  `OnlyWraps`: texts are drawn after all that is there (`Ahead`), character by
  character, unless the row overflows its byte and they start again at the top.
  That it does not is counted: `RowsOf` gives each task the rows its messages
  may take, at a row for each character, `Before` adds them up, and 250 are
  enough for all. `BarApart`, for 10 columns or more: the bar's nine characters
  have place in the second row, and the texts after it start below.

* `PrintfProofs`, for `vsprintf` by itself: every format with slots enough for its
  directives (`Enough`: as many as they and their `*` read, and where a string is
  asked for a string) or, for `InStep`, whose arguments are those written for it
  (`WellFormed`: one for each of these), every set of flags, width, precision and
  qualifier, every argument, and all widths of the types for which a short is no
  wider than a long and neither is an int (`Widths`, which also has what the prover
  does not know of powers: 2^b is twice 2^(b-1)). The invariant says that what is
  left of the arguments is enough for the directives to come, and exactly theirs if
  the call is well formed (`Rest`); a directive then finds its slots, and they are
  consumed. `NumbersRead`
  follows the number through `number`: the digits are got by dividing as
  long as it takes and read back by multiplying (`Digits`, `ValueOf`, both by
  induction), the magnitude of the most negative number is itself as an
  unsigned one, and sign, mark and padding can be told from the digits and
  taken off again. `FieldsAreFilled` counts the same parts: the digits are the
  fewest that do, and what is missing is filled on one side.
* `PrintingProofs`: `TypeOK`, `ArgumentsInStep`, `NumbersReadBack` and
  `FieldsFilled` of `Printing`, for any numbers in the calls. Each stage has a copy
  of the code, and `Printing` an instance for each: the copies are shown to be
  `vsprintf` with their widths (`Same2` to `Same5`), each call of the tables
  to have an argument of its kind for each directive (`Given`), and such a call to
  be well formed (`GivenIsWellFormed`). Two calls are not: those of `mem.c:11` and
  `mem.c:38`, which are given 64-bit fields and a whole structure. They have slots
  enough for their directives (`MemoryEnough`), so that the theorems are about them
  too, but for `PrintingInStep`, which excepts them by name (`MemoryCalls`).
  The widths here are those of the run, with an int of 8 bits: what
  `PrintfProofs` says of a call holds for the real ones as well.

Texts, formats, digits and numbers of rows have no bound in these theorems, and
are handled by induction: over the naturals, as a lemma about a set of them
(`Induction`), which follows from their being well-founded. What a function
defined by recursion is follows from the same lemma (`Recursion` in
`PrintfProofs`). A choice of words in the model came of the proofs: two
arms of the CASE that pads a number overlapped (to the left, and with zeros), of
which the code takes the first, and TLA+ any; they are apart now.

Only checked by TLC: liveness (`BootProceeds`, `FloppyServed`,
`ChainEnds`), which the prover does not do, and what the runs of section 6
find violated.

## 6. Disagreements between the code and its statements

| run | what TLC finds |
|---|---|
| `FloppyHoisted` | `fpy_wait_irq` reads a variable that is not volatile. The compiled loop loads it once; if it is clear then, the wait never ends. |
| `InterruptsSleep` | `irq_unmask(0)` compares the line the wrong way round and changes nothing: `sleep` never returns. |
| `A20Opens` | Two ways in which `a20` fails to open the line and say so, each of which the run finds when `Bioses` is that one alone. With a BIOS that refuses, the wait for the keyboard controller ends only when its status is exactly 2, which a controller that is idle and has passed its self test never shows. A BIOS without function 0x2402 answers with an error code, which is not 0 and is printed as success, with the line closed. |
| `CpuidFeatures` | The bit fields of leaf 1 are listed from the highest bit down and the compiler places them from the lowest up. |
| `MemoryPrinted` | The line of the memory map passes 64-bit fields to directives that read 32 bits: after "length" stands the upper half of the base, after "type" the lower half of the length (`MapInStep`). |

Seen in the sources and not given a run: `init_timer(10)` is commented as 1 Hz
and its divisor does not fit 16 bits; the number of the local APIC is masked to
four of its eight bits; after three failed reads stage 1 goes on ("TODO error");
without disk properties stage 1 looks for stage 3 on the first track; the
result of a load is printed by `copy_stage4` and dropped by `load_protected`,
and the part is jumped to all the same; a disk of 256 heads makes stage 3 divide
by 0. The last four are in the model of
`BootLayouts`, which states its properties for executions in which the first three
did not happen (`wrong`), and what `ChainEnds` makes of the fourth. Of the output: `cur_color` starts as 0, so that the first
message of stage 2 is black on black; rows from 25 on are not visible and
nothing scrolls; `mem.c` leaves the colour dark gray; `puts` of the later stages
does not wait for the serial port to have room, and text is lost; stage 5 prints
how many modules are left for the number of the one it executes; and `mem.c`
passes a structure to `%p`, of which one word is printed (`BufferShown` in `Printing`). Against the C standard, `number` pads with zeros
although a precision is given, prints a figure for 0 with precision 0, marks 0
with `0x`, and a negative precision given as `*` counts as 0; no call uses these.

## 7. What is assumed of the outside

Definitions marked external in `PROJECT.json` describe the floppy controller
(82077AA: bytes accepted when ready for them, a result offered byte by byte, an
interrupt at the end of a read, a seek and a recalibration, a sense command
without cause answered by one byte), the 8237 (auto-initialisation at the
terminal count), the two 8259 (priorities, in-service bits, end of interrupt),
the 8253, the 8042, the serial port (16550: the latch that turns two registers
into the divisor, a FIFO that is emptied when it is programmed, a byte too many
lost or in the last one's place), segment decoding, paging, and the BIOS: int 0x13 goes on
from one track, head and cylinder to the next within one call, may fail, and
may have written part of what it was asked for.

## 8. What is not modelled

* `write` of stages 3 and 4, all of `loader_protected/write.c`, `clear_screen`,
  `getpos`, `sleep_exit` and `memset`: nothing calls them.
* What is in a text: a letter stands for a word, and only lines, colours and
  lengths are kept where the screen or the port depends on them. The parsing of
  a directive is taken as done, character by character.
* The rest of the BIOS memory map: `mem.c` asks for its first area, prints it
  (`Printing`) and keeps nothing; `memory_layout` is used by nothing.
* The size of `printf`'s buffer, 1024 bytes: the text in `Printf` has no limit.
* The data rate and the motor, which `floppy_init` sets after the version: no
  property of the controller's commands depends on them.
* Commands of the floppy controller nothing calls: write, format, read id, lock,
  dump registers, drive status.
* That `wrmsr` is given only `eax`, `ecx` and `edx` being left over from
  `rdmsr`: a matter of the compiled code.
* Makefiles, and the order of sections within a part.

## 9. Plan

Done, in this order: `SectorLoad`, `Geometry`, `Floppy` with its invariant and
proofs; `Interrupts` and its proofs; `Layout`, `Gdt`, `BootChain`; `A20`;
`Paging` and its proofs; `Dma`; `Cpuid`; `Printf` with `Printing`; `Serial` with
`Ports`; `Screen` with `Stage2Tasks`; the proofs of `BootChain`, of the loading
of sectors, of `Ports`, of `Stage2Tasks` and of `Printf` and `Printing`.

Next, to extend: the bytes of the driver's commands, against where the
controller looks for each parameter, with the commands nothing calls yet.

Next, to prove: that the parsing of a directive, which `Printf` takes as done,
leaves the items it is given, once it is in the model.
