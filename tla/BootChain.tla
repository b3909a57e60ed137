----------------------------- MODULE BootChain -----------------------------
(***************************************************************************)
(* The chain of stages, from stage1/boot_asm.s to stage5/load.c: who loads *)
(* whom, where, and in which mode of the processor each stage runs.        *)
(*                                                                         *)
(* The stages overlay one another in memory (module Layout).  Memory is    *)
(* the set of regions that still hold what was put there: whatever is      *)
(* written over a region, in full or in part, takes it out of the set.     *)
(* The tasks of stage 2 that only print are left out, a20 is module A20's, *)
(* and a load by the floppy driver is one step (module SectorLoad).        *)
(***************************************************************************)
EXTENDS Layout, Gdt

VariablesEnd == 1304   \* bytes of the shared bss before the interrupt tables

CONSTANTS Sizes,        \* layouts of the build: functions from Parts to sizes
          Disks,        \* geometries of the boot disk, [heads, sectors]
          PowerOn,      \* what a byte of the disk properties may hold at first
          Residue,      \* and a bit of the descriptor table
          BiosFaults,   \* times a read by the BIOS may fail before it succeeds
          PropsFail,    \* TRUE: the BIOS may not tell the disk's properties
          DriverFails   \* TRUE: a load by the floppy driver may fail

ASSUME BootAssumption ==
         /\ \A sz \in Sizes : /\ sz \in [Parts -> Nat]
                             /\ sz["loader_protected"] \in 1..(LoaderSize - 1)   \* ASSERT
                             /\ sz["shared_bss"] >= VariablesEnd
         /\ Disks \subseteq [heads : 1..256, sectors : 1..63]
         /\ PowerOn \subseteq 0..255 /\ Residue \subseteq {0, 1} /\ BiosFaults \in Nat
         /\ PropsFail \in BOOLEAN /\ DriverFails \in BOOLEAN

(* What copy_kernel can name in its two bytes, and on the first track when *)
(* the number of heads reads as 0: the linker script checks none of it.    *)
ASSUME ImageAssumption ==
         \A sz \in Sizes, d \in Disks :
           /\ \A p \in {"shared", "stage2", "stage3"} : LoadCount(sz, p) < 256
           /\ FirstSectionIndex(sz, "stage2") < d.sectors
           /\ FirstSectionIndex(sz, "stage3") < IF d.heads = 256 THEN d.sectors ELSE 256

VARIABLES
  size, disk,          \* the layout, the disk
  pc, loading, tries,  \* place in the code; copy_kernel's part and its local
  present,             \* regions that hold what they are meant to hold
  max_head_number, max_sector_number,
  gdt, seg_cs, seg_ds, \* the table, and the selectors (their index) to load next
  cs, ds,              \* selectors loaded; 0 is a real-mode segment
  pe, lm,              \* protection, and paging with long mode, enabled
  wrong                \* what has gone wrong so far: "memory" at power-on, a
                       \* "read" of the BIOS, the "props", a "load" of the driver

machine == <<size, disk>>
image == <<loading, tries>>
props == <<max_head_number, max_sector_number>>
table == <<gdt, seg_cs, seg_ds>>
cpu   == <<cs, ds, pe, lm>>
vars  == <<size, disk, pc, loading, tries, present, max_head_number, max_sector_number,
           gdt, seg_cs, seg_ds, cs, ds, pe, lm, wrong>>

-----------------------------------------------------------------------------
(* Memory.                                                                 *)

Regions == (Parts \ {"shared_bss"})
           \union {"stage1", "stack", "drive_number", "gdt", "idt"}

StackBytes == 4096
Buffer     == <<4096, 4096 + 768>>   \* TRANSFER_BUFFER and the DMA count

(* gdt and the seg_ variables start the shared bss, the properties of the  *)
(* disk come last before the interrupt tables, which fill the end.         *)
Region(r) ==
    CASE r = "stage1"       -> <<Stage1At, Stage1At + Block>>
      [] r = "stack"        -> <<LoaderAt - StackBytes, LoaderAt>>
      [] r = "gdt"          -> <<SharedBssAt(size), SharedBssAt(size) + 64>>
      [] r = "drive_number" -> <<SharedBssAt(size) + VariablesEnd - 8, SharedBssAt(size) + VariablesEnd>>
      [] r = "idt"          -> <<SharedBssAt(size) + VariablesEnd, SharedEnd(size)>>
      [] OTHER              -> <<Start(size, r), End(size, r)>>

Surviving(interval) == {r \in present : Disjoint(Region(r), interval)}

(* What copy_kernel writes: whole sectors.                                 *)
SectorsOfExact(part) == <<Start(size, part), End(size, part)>>
SectorsOf(part) == <<Start(size, part), Start(size, part) + (Block * LoadCount(size, part))>>

(* What executes at each place, and from stage 3's tasks on, when faults    *)
(* and interrupts are taken, their entries in the shared part.             *)
Code(place) ==
    CASE place \in {"main_asm", "copy_kernel", "int13"} -> {"stage1"}
      [] place \in {"stage2_load", "disk_props"} -> {"stage2"}
      [] place \in {"stage3_start", "stage3_lret", "stage3_load"} -> {"stage3"}
      [] place = "copy_stage4" -> {"stage3", "shared", "idt"}
      [] place \in {"load_protected", "load_stage5"} -> {"loader_protected", "shared", "idt"}
      [] place = "reset_bss" -> {"loader_protected"}
      [] place = "stage4_load" -> {"stage4"}
      [] place \in {"stage5_start", "stage5_load"} -> {"stage5"}
      [] OTHER -> {}

(* The code of a place does what it says if that code is in memory.        *)
At(place) == pc = place /\ Code(place) \subseteq present

-----------------------------------------------------------------------------
Init ==
    /\ size \in Sizes /\ disk \in Disks
    /\ pc = "main_asm" /\ loading = "shared" /\ tries = 0
    /\ present = {"stage1"}
    /\ max_head_number \in PowerOn /\ max_sector_number \in PowerOn
    /\ wrong = IF max_head_number = 0 THEN {} ELSE {"memory"}
    /\ gdt = [i \in 1..3 |-> SegmentCreate(<<0, 0>>, <<0, 0>>, 0)]
    /\ seg_cs = 0 /\ seg_ds = 0 /\ cs = 0 /\ ds = 0
    /\ pe = FALSE /\ lm = FALSE

(* The stack is set up and the BIOS's drive number kept.                   *)
MainAsm ==
    /\ At("main_asm")
    /\ present' = present \union {"stack", "drive_number"}
    /\ pc' = "copy_kernel"
    /\ UNCHANGED <<machine, wrong, image, props, table, cpu>>

-----------------------------------------------------------------------------
(* copy_kernel.                                                            *)

(* The parameters index and count are bytes.                               *)
Index(part) == FirstSectionIndex(size, part) % 256
Count(part) == LoadCount(size, part) % 256

FirstTrackFromZero(index) == [c |-> 0, h |-> 0, s |-> index]
FirstTrack(index) == [c |-> 0, h |-> 0, s |-> (index + 1) % 64]
Chs(index) ==
    IF max_head_number = 0 THEN FirstTrack(index)
    ELSE [c |-> (index \div (max_head_number * max_sector_number)) % 256,
          h |-> (index \div max_sector_number) % max_head_number,
          s |-> ((index % max_sector_number) + 1) % 64]

(* The divisions fault when only the number of heads is not 0.             *)
CopyKernel ==
    /\ At("copy_kernel")
    /\ IF max_head_number # 0 /\ max_sector_number = 0
         THEN pc' = "fault" /\ UNCHANGED tries
         ELSE pc' = "int13" /\ tries' = 3
    /\ UNCHANGED <<machine, wrong, loading, present, props, table, cpu>>

OnDisk(a)  == a.h < disk.heads /\ a.s \in 1..disk.sectors
LbaOf(a)   == ((a.c * disk.heads + a.h) * disk.sectors) + (a.s - 1)

(* The part's first byte, and its last, are where they are meant to be.    *)
Complete(part) == /\ LbaOf(Chs(Index(part))) = FirstSectionIndex(size, part)
                  /\ Count(part) * Block >= size[part]

(* init goes on.                                                           *)
Return ==
    CASE loading = "shared" -> pc' = "copy_kernel" /\ loading' = "stage2"
      [] loading = "stage2" -> pc' = "stage2_load" /\ loading' = "stage3"
      [] loading = "stage3" -> pc' = "stage3_start" /\ UNCHANGED loading

(* int 0x13 goes on to the next track, head and cylinder by itself.        *)
ReadSucceeds ==
    /\ At("int13") /\ OnDisk(Chs(Index(loading)))
    /\ present' = Surviving(SectorsOf(loading))
                  \union {p \in {loading} : Complete(p)}
    /\ Return
    /\ UNCHANGED <<machine, wrong, tries, props, table, cpu>>

(* while (--tries && (ax & 0xFF00));                                       *)
TriesKept    == tries' = tries
TriesCounted == tries' = tries - 1

ReadFails ==
    /\ At("int13") /\ (OnDisk(Chs(Index(loading))) => 3 - tries < BiosFaults)
    /\ present' = Surviving(SectorsOf(loading))
    /\ TriesCounted
    /\ IF tries = 1 THEN Return /\ wrong' = wrong \union {"read"}
                    ELSE UNCHANGED <<pc, loading, wrong>>
    /\ UNCHANGED <<machine, props, table, cpu>>

-----------------------------------------------------------------------------
(* Stage 2.                                                                *)

(* gdt_setup: code, data and 64-bit code.                                  *)
LongCodeNotMarked(d) == [d EXCEPT !.code_sel = 1, !.op_size = 0]
LongCode(d) == [d EXCEPT !.code_sel = 1, !.mode_64_bit = 1, !.op_size = 0]

(* The last sector of the shared part goes on with zeros, into its bss.    *)
TableMemory ==
    IF "shared" \in present /\ Region("gdt")[2] <= SectorsOf("shared")[2] THEN {0} ELSE Residue

TableWith(bit) ==
    LET flat == SegmentCreate(<<0, 0>>, AllOnes, bit)
    IN  <<[flat EXCEPT !.code_sel = 1], flat, LongCode(flat)>>

GdtSetup ==
    /\ At("stage2_load")
    /\ \E bit \in TableMemory : gdt' = TableWith(bit)
    /\ seg_cs' = 1 /\ seg_ds' = 2
    /\ present' = present \union {"gdt"}
    /\ pc' = "disk_props"
    /\ UNCHANGED <<machine, wrong, image, props, cpu>>

(* max_head_number is the last head's number plus one, in a byte.          *)
HeadsOf == disk.heads % 256

DiskProps ==
    /\ At("disk_props")
    /\ \/ /\ max_sector_number' = disk.sectors /\ max_head_number' = HeadsOf
          /\ UNCHANGED wrong
       \/ PropsFail /\ wrong' = wrong \union {"props"} /\ UNCHANGED props
    /\ pc' = "copy_kernel"
    /\ UNCHANGED <<machine, image, present, table, cpu>>

-----------------------------------------------------------------------------
(* Stage 3 and the loader of stages 4 and 5.                               *)

(* cr0.PE is set, the data segments are loaded, still in 16-bit code.      *)
Stage3Start ==
    /\ At("stage3_start")
    /\ pe' = TRUE /\ ds' = seg_ds
    /\ pc' = "stage3_lret"
    /\ UNCHANGED <<machine, wrong, image, present, props, table, cs, lm>>

Stage3Lret ==
    /\ At("stage3_lret")
    /\ cs' = seg_cs
    /\ pc' = "stage3_load"
    /\ UNCHANGED <<machine, wrong, image, present, props, table, ds, pe, lm>>

(* What sectors are divided by.  By 0 the processor faults, and            *)
(* interrupt_panic prints and loops for ever.                              *)
Divisor == max_head_number * max_sector_number

(* memreset clears stage 3's bss, the tasks build the interrupt table.     *)
(* The sector floppy_test divides is the constant 0: a compiler may leave  *)
(* its divisions in or out.                                                *)
Stage3Load ==
    /\ At("stage3_load")
    /\ present' = Surviving(Region("stage3_bss")) \union {"stage3_bss", "idt"}
    /\ \/ pc' = "copy_stage4"
       \/ Divisor = 0 /\ pc' = "panic"
    /\ UNCHANGED <<machine, wrong, image, props, table, cpu>>

(* fpy_copy_bytes: through the transfer buffer, the part's bytes only.  An *)
(* error is printed or dropped, and the sequence goes on at next.          *)
Target(part) == <<Start(size, part), End(size, part)>>

CopyBytes(part, next) ==
    LET left == Surviving(Buffer) \intersect Surviving(Target(part))
    IN  /\ IF size[part] > 0 /\ Divisor = 0
             THEN pc' = "panic" /\ UNCHANGED <<present, wrong>>
             ELSE /\ \/ present' = left \union {part} /\ UNCHANGED wrong
                     \/ DriverFails /\ present' = left /\ wrong' = wrong \union {"load"}
                  /\ pc' = next
        /\ UNCHANGED <<machine, image, props, table, cpu>>

CopyStage4 == At("copy_stage4") /\ CopyBytes("loader_protected", "load_protected")
LoadStage4 == At("load_protected") /\ CopyBytes("stage4", "load_stage5")
LoadStage5 == At("load_stage5") /\ CopyBytes("stage5", "reset_bss")

(* From _stage_4_bss_start on; the tables of stage 4 will lie there.       *)
BssFromStage5 == <<Stage5At(size), End(size, "stage4_bss")>>
Bss           == Region("stage4_bss")

ResetBss ==
    /\ At("reset_bss")
    /\ present' = Surviving(Bss) \union {"stage4_bss"}
    /\ pc' = "stage4_load"
    /\ UNCHANGED <<machine, wrong, image, props, table, cpu>>

-----------------------------------------------------------------------------
(* Stages 4 and 5.                                                         *)

LongSelectorBeyond == 4
LongSelector == 3

(* setup_paging: the tables (module Paging), cr4.PAE, EFER.LME, cr0.PG.    *)
SetupPaging ==
    /\ At("stage4_load")
    /\ lm' = TRUE
    /\ seg_cs' = LongSelector /\ seg_ds' = 2
    /\ pc' = "stage5_start"
    /\ UNCHANGED <<machine, wrong, image, present, props, gdt, cs, ds, pe>>

Stage5Start ==
    /\ At("stage5_start")
    /\ cs' = seg_cs /\ ds' = seg_ds
    /\ pc' = "stage5_load"
    /\ UNCHANGED <<machine, wrong, image, present, props, table, pe, lm>>

-----------------------------------------------------------------------------
(* A jump to code that is not there: what executes is not the program's.   *)
Lost ==
    /\ ~(Code(pc) \subseteq present)
    /\ pc' = "lost"
    /\ UNCHANGED <<machine, wrong, image, present, props, table, cpu>>

-----------------------------------------------------------------------------
Next == \/ MainAsm \/ CopyKernel \/ ReadSucceeds \/ ReadFails
        \/ GdtSetup \/ DiskProps
        \/ Stage3Start \/ Stage3Lret \/ Stage3Load \/ CopyStage4
        \/ LoadStage4 \/ LoadStage5 \/ ResetBss
        \/ SetupPaging \/ Stage5Start \/ Lost

Spec == Init /\ [][Next]_vars

(* The processor executes.                                                 *)
FairSpec == Spec /\ WF_vars(Next)

-----------------------------------------------------------------------------
(* What the code that runs at each place is compiled for, and what it      *)
(* needs in memory: its own instructions, those it returns to, the data    *)
(* and tables it or the processor reads.                                   *)

Stage1Places == {"main_asm", "copy_kernel", "int13"}
Bits32 == {"stage3_load", "copy_stage4", "load_protected", "load_stage5", "reset_bss",
           "stage4_load", "stage5_start", "panic"}

CompiledFor == IF pc = "stage5_load" THEN 64 ELSE IF pc \in Bits32 THEN 32 ELSE 16

RunsIn == IF ~pe \/ cs = 0 THEN 16
          ELSE IF lm /\ gdt[cs].mode_64_bit = 1 THEN 64
          ELSE IF gdt[cs].op_size = 1 THEN 32 ELSE 16

Needed ==
    CASE pc = "main_asm" -> {"stage1"}
      [] pc \in {"copy_kernel", "int13"} ->
           {"stage1", "stack", "drive_number"}
           \union (IF loading = "shared" THEN {} ELSE {"shared"})
           \union (IF loading = "stage3" THEN {"gdt"} ELSE {})
      [] pc = "stage2_load" -> {"stage1", "stage2", "shared", "stack", "drive_number"}
      [] pc = "disk_props" -> {"stage1", "stage2", "shared", "stack", "drive_number", "gdt"}
      [] pc \in {"stage3_start", "stage3_lret", "stage3_load"} ->
           {"stage3", "shared", "stack", "drive_number", "gdt"}
      [] pc = "copy_stage4" ->
           {"stage3", "stage3_bss", "shared", "stack", "drive_number", "gdt", "idt"}
      [] pc = "load_protected" ->
           {"loader_protected", "shared", "stack", "drive_number", "gdt", "idt"}
      [] pc = "load_stage5" ->
           {"loader_protected", "shared", "stack", "drive_number", "gdt", "idt", "stage4"}
      [] pc = "reset_bss" ->
           {"loader_protected", "shared", "stack", "gdt", "idt", "stage4", "stage5"}
      [] pc \in {"stage4_load", "stage5_start"} ->
           {"stack", "gdt", "stage4", "stage5", "stage4_bss"}
      [] pc = "stage5_load" -> {"stack", "gdt", "stage5", "stage4_bss"}
      [] OTHER -> {}

(* Every variable keeps its type.                                          *)
TypeOK ==
    /\ size \in Sizes /\ disk \in Disks /\ wrong \subseteq {"memory", "read", "props", "load"}
    /\ pc \in Stage1Places \union Bits32
              \union {"stage2_load", "disk_props", "stage3_start", "stage3_lret",
                      "stage5_load", "fault", "lost"}
    /\ loading \in {"shared", "stage2", "stage3"} /\ tries \in 0..3
    /\ present \subseteq Regions
    /\ max_head_number \in 0..255 /\ max_sector_number \in 0..255
    /\ seg_cs \in 0..3 /\ seg_ds \in 0..3 /\ cs \in 0..3 /\ ds \in 0..3
    /\ pe \in BOOLEAN /\ lm \in BOOLEAN

(* At every step the stage that runs, what it returns to and the tables it *)
(* relies on are in memory, unless a read, a load or the disk's properties *)
(* failed: no stage loads, clears or transfers anything over them,         *)
(* although the stages share their memory, a read is tried again after it  *)
(* wrote some of its sectors, and whole sectors go beyond the part.        *)
NothingNeededIsOverwritten == wrong = {} => pc # "lost" /\ Needed \subseteq present

(* Whatever has gone wrong, a stage runs in the mode it is compiled for:   *)
(* the descriptors stage 2 writes, the selectors stages 2 and 4 leave and  *)
(* the control registers stages 3 and 4 set agree at each jump.  Stage 1   *)
(* divides by zero only if memory made it, stage 3 only on a disk whose    *)
(* heads do not fit a byte or whose properties were not told.              *)
RunsInItsMode ==
    /\ pc = "fault" => "memory" \in wrong
    /\ pc = "panic" => HeadsOf = 0 \/ "props" \in wrong
    /\ pc \notin {"fault", "lost"} => CompiledFor = RunsIn

(* Once stage 3 runs, code, data and stack segments cover all addresses,   *)
(* upwards: no bit gdt_segment_create leaves as it was makes a segment     *)
(* grow down, although nothing clears the table on purpose, if the shared  *)
(* part ends early enough in its last sector.                              *)
TableFollows == size["shared"] % Block \in 1..(Block - 96)

SegmentsAreFlat ==
    pe /\ wrong = {} /\ TableFollows => Flat(gdt[2]) /\ (cs # 0 => Flat(gdt[cs]))

(* Each of stage 1's reads asks the BIOS for the sectors it is meant to    *)
(* load, before and after the disk's properties are known, although a byte *)
(* may be too short for the number of heads.                               *)
ReadsNameTheirSectors ==
    pc = "int13" /\ wrong \intersect {"memory", "props"} = {} =>
      LET a == Chs(Index(loading))
      IN  OnDisk(a) /\ LbaOf(a) = FirstSectionIndex(size, loading)

(* The inductive invariant of the control: which part is being loaded, and *)
(* what table, selectors and modes each place finds.                       *)
Protected == {"stage3_lret", "stage5_load"} \union Bits32

LoadingOK ==
    /\ pc = "main_asm" => loading = "shared"
    /\ pc \notin Stage1Places \union {"fault", "lost"} => loading = "stage3"
    /\ pc = "int13" => tries \in 1..3

(* gdt_setup is over.                                                      *)
TableWritten == /\ pc \notin {"main_asm", "stage2_load", "lost"}
                /\ pc \in {"copy_kernel", "int13", "fault"} => loading = "stage3"

SelectorsOK ==
    TableWritten /\ pc # "fault" =>
      /\ \E bit \in {0, 1} : gdt = TableWith(bit)
      /\ seg_cs = IF pc \in {"stage5_start", "stage5_load"} THEN 3 ELSE 1
      /\ seg_ds = 2

CpuOK ==
    pc # "lost" =>
    /\ pe <=> pc \in Protected
    /\ lm <=> pc \in {"stage5_start", "stage5_load"}
    /\ cs = IF pc = "stage5_load" THEN 3 ELSE IF pc \in Bits32 THEN 1 ELSE 0

(* Stage 1 divides by 0 only if memory said so at power-on, and stage 3 *)
(* panics only when it divides by 0.                                       *)
DivisorOK ==
    /\ max_head_number # 0 /\ max_sector_number = 0 => "memory" \in wrong
    /\ pc = "fault" => "memory" \in wrong
    /\ pc = "panic" => Divisor = 0

Control == TypeOK /\ LoadingOK /\ SelectorsOK /\ CpuOK /\ DivisorOK

(* And of the memory and the disk, while nothing has gone wrong.           *)
PropsOK ==
    /\ "memory" \notin wrong /\ (pc = "disk_props" \/ (pc \notin {"fault", "lost"} /\ ~TableWritten)) =>
         max_head_number = 0
    /\ "props" \notin wrong /\ TableWritten /\ pc \notin {"disk_props", "fault"} =>
         max_head_number = HeadsOf /\ max_sector_number = disk.sectors

TableOK ==
    TableWritten /\ wrong = {} /\ TableFollows => gdt = TableWith(0)

IInv == Control /\ PropsOK /\ TableOK /\ NothingNeededIsOverwritten

(* The chain comes to an end, whatever fails: no read is repeated for      *)
(* ever.  With nothing wrong the end is stage 5, however often the BIOS's  *)
(* reads fail before they succeed, unless the number of heads is 0 in its  *)
(* byte: then it is the panic at stage 3's division.                       *)
ChainEnds ==
    <>[](/\ pc \in {"stage5_load", "panic", "fault", "lost"}
         /\ wrong = {} /\ HeadsOf # 0 => pc = "stage5_load"
         /\ wrong = {} /\ HeadsOf = 0 => pc = "panic")
=============================================================================
