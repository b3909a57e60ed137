----------------------------- MODULE BootProofs -----------------------------
(***************************************************************************)
(* Proofs about what module BootChain is built from: the layout of the     *)
(* linker script, for parts of any size, and the segment descriptors, for  *)
(* any base and limit.                                                     *)
(***************************************************************************)
EXTENDS BootChain, TLAPS

(* Alignment goes up, by less than the alignment.                          *)
LEMMA AlignBlock ==
  ASSUME NEW a \in Nat
  PROVE  /\ Align(a, Block) \in Nat
         /\ Align(a, Block) >= a /\ Align(a, Block) < a + Block
         /\ Align(a, Block) % Block = 0
  BY DEF Align, Block

LEMMA AlignObject ==
  ASSUME NEW a \in Nat
  PROVE  Align(a, 32) \in Nat /\ Align(a, 32) >= a
  BY DEF Align

LEMMA AlignPage ==
  ASSUME NEW a \in Nat
  PROVE  Align(a, Page) \in Nat /\ Align(a, Page) >= a
  BY DEF Align, Page

(* The parts the loader and the stages after it need together follow one   *)
(* another in memory, if the linker script's assertion holds: the loader,  *)
(* the shared part and its bss, stage 4, stage 5 and their bss.            *)
THEOREM MemoryOrder ==
  ASSUME NEW sz \in [Parts -> Nat], sz["loader_protected"] < LoaderSize
  PROVE  /\ End(sz, "loader_protected") <= Start(sz, "shared")
         /\ End(sz, "shared") <= Start(sz, "shared_bss")
         /\ End(sz, "shared_bss") <= Start(sz, "stage4")
         /\ End(sz, "stage4") <= Start(sz, "stage5")
         /\ End(sz, "stage5") <= Start(sz, "stage4_bss")
<1>1. \A p \in Parts : sz[p] \in Nat
  OBVIOUS
<1>2. /\ Start(sz, "loader_protected") = LoaderAt /\ Start(sz, "shared") = SharedAt
      /\ Start(sz, "shared_bss") = SharedBssAt(sz) /\ Start(sz, "stage4") = ContentStart(sz)
      /\ Start(sz, "stage5") = Stage5At(sz) /\ Start(sz, "stage4_bss") = Stage4BssAt(sz)
  BY DEF Start
<1>3. SharedBssAt(sz) \in Nat /\ SharedBssAt(sz) >= SharedAt + sz["shared"]
  BY <1>1, AlignObject DEF SharedBssAt, SharedAt, Parts
<1>4. ContentStart(sz) \in Nat /\ ContentStart(sz) >= SharedBssAt(sz) + sz["shared_bss"]
  BY <1>1, <1>3, AlignBlock DEF ContentStart, SharedEnd, Parts
<1>5. Stage5At(sz) \in Nat /\ Stage5At(sz) >= ContentStart(sz) + sz["stage4"]
  BY <1>1, <1>4, AlignObject DEF Stage5At, Parts
<1>6. Stage4BssAt(sz) >= Stage5At(sz) + sz["stage5"]
  BY <1>1, <1>5, AlignPage DEF Stage4BssAt, Parts
<1> QED
  BY <1>1, <1>2, <1>3, <1>4, <1>5, <1>6 DEF End, LoaderAt, SharedAt, LoaderSize, Parts

(* On the image each part that is read starts at a sector, and the sectors *)
(* it is read from end before the next part's first one.                   *)
THEOREM DiskOrder ==
  ASSUME NEW sz \in [Parts -> Nat]
  PROVE  /\ FirstSectionIndex(sz, "shared") = 1
         /\ FirstSectionIndex(sz, "shared") + LoadCount(sz, "shared")
              <= FirstSectionIndex(sz, "stage2")
         /\ FirstSectionIndex(sz, "stage2") + LoadCount(sz, "stage2")
              <= FirstSectionIndex(sz, "stage3")
         /\ FirstSectionIndex(sz, "stage3") + LoadCount(sz, "stage3")
              <= FirstSectionIndex(sz, "stage4")
<1> DEFINE at2 == Align(SharedEnd(sz), Block)
           at3 == Align(at2 + sz["stage2"], Block)
           at4 == Align(at3 + sz["stage3"], Block)
<1>1. \A p \in Parts : sz[p] \in Nat
  OBVIOUS
<1>2. /\ LoadAddr(sz, "shared") = SharedAt /\ LoadAddr(sz, "stage2") = at2
      /\ LoadAddr(sz, "stage3") = at3 /\ LoadAddr(sz, "stage4") = at4
  BY DEF LoadAddr
<1>3. SharedEnd(sz) \in Nat /\ SharedEnd(sz) >= SharedAt + sz["shared"]
  BY <1>1, AlignObject DEF SharedEnd, SharedBssAt, SharedAt, Parts
<1>4. at2 \in Nat /\ at2 >= SharedAt + sz["shared"] /\ at2 % Block = 0
  BY <1>1, <1>3, AlignBlock DEF SharedAt, Parts
<1>5. at3 \in Nat /\ at3 >= at2 + sz["stage2"] /\ at3 % Block = 0
  BY <1>1, <1>4, AlignBlock DEF Parts
<1>6. at4 \in Nat /\ at4 >= at3 + sz["stage3"] /\ at4 % Block = 0
  BY <1>1, <1>5, AlignBlock DEF Parts
<1>7. ASSUME NEW a \in Nat, NEW b \in Nat, NEW n \in Nat,
             a >= Stage1At, a % Block = 0, b % Block = 0, b >= a + n
      PROVE  ((a - Stage1At) \div Block) + ((511 + n) \div Block)
               <= (b - Stage1At) \div Block
  BY <1>7 DEF Stage1At, Block
<1> HIDE DEF at2, at3, at4
<1>8. FirstSectionIndex(sz, "shared") = 1
  BY <1>2 DEF FirstSectionIndex, SharedAt, Stage1At, Block
<1>9. FirstSectionIndex(sz, "shared") + LoadCount(sz, "shared")
        <= FirstSectionIndex(sz, "stage2")
  BY <1>1, <1>2, <1>4, <1>7 DEF FirstSectionIndex, LoadCount, SharedAt, Stage1At, Block, Parts
<1>10. FirstSectionIndex(sz, "stage2") + LoadCount(sz, "stage2")
         <= FirstSectionIndex(sz, "stage3")
  BY <1>1, <1>2, <1>4, <1>5, <1>7 DEF FirstSectionIndex, LoadCount, SharedAt, Stage1At, Parts
<1>11. FirstSectionIndex(sz, "stage3") + LoadCount(sz, "stage3")
         <= FirstSectionIndex(sz, "stage4")
  BY <1>1, <1>2, <1>4, <1>5, <1>6, <1>7
     DEF FirstSectionIndex, LoadCount, SharedAt, Stage1At, Parts
<1> QED BY <1>8, <1>9, <1>10, <1>11

-----------------------------------------------------------------------------
(* A 20-bit limit is put together again from its two fields.               *)
LEMMA Fields ==
  ASSUME NEW s \in Nat, s < 1048576
  PROVE  (((s \div 65536) % 16) * 65536) + (s % 65536) = s
<1>1. s \div 65536 \in Nat /\ s \div 65536 < 16
  BY SMT
<1>2. (s \div 65536) % 16 = s \div 65536
  BY <1>1, SMT
<1>3. ((s \div 65536) * 65536) + (s % 65536) = s
  BY SMT
<1> QED BY <1>2, <1>3, SMT

(* Shifting by 12 leaves the upper half and the page in the lower one.     *)
LEMMA Shift ==
  ASSUME NEW h \in Nat, h < 65536, NEW q \in 0..15
  PROVE  /\ (h * 16) + q \in Nat /\ (h * 16) + q < 1048576
         /\ ((h * 16) + q) \div 16 = h /\ ((h * 16) + q) % 16 = q
  BY SMT

(* A descriptor gdt_segment_create writes has the base it is given, and    *)
(* the limit it is given when that is in bytes, or is the last byte of a   *)
(* page; any other limit is rounded up to the last byte of its page.       *)
THEOREM DescriptorDecodes ==
  ASSUME NEW b1 \in Nat, NEW b2 \in Nat, NEW l1 \in Nat, NEW l2 \in Nat,
         b1 < 65536, b2 < 65536, l1 < 65536, l2 < 65536, NEW memory
  PROVE  LET d == SegmentCreate(<<b1, b2>>, <<l1, l2>>, memory)
         IN  /\ BaseOf(d) = <<b1, b2>>
             /\ LimitOf(d) = IF l1 = 0 THEN <<l1, l2>>
                             ELSE <<l1, ((l2 \div 4096) * 4096) + 4095>>
<1> DEFINE d == SegmentCreate(<<b1, b2>>, <<l1, l2>>, memory)
<1>1. BaseOf(d) = <<b1, b2>>
  <2>1. (b1 % 256) + (256 * (b1 \div 256)) = b1
    BY SMT
  <2>2. /\ d.base_address_1 = b2 /\ d.base_address_2 = b1 % 256
        /\ d.base_address_3 = b1 \div 256
    BY DEF SegmentCreate
  <2> HIDE DEF d
  <2> QED BY <2>1, <2>2 DEF BaseOf
<1>2. CASE l1 = 0
  <2>1. Stored(<<l1, l2>>) = l2 /\ Granularity(<<l1, l2>>) = 0
    BY <1>2 DEF Stored, Granularity
  <2>2. l2 % 65536 = l2 /\ (l2 \div 65536) % 16 = 0
    BY SMT
  <2>3. d.granularity = 0 /\ d.seg_limit_1 = l2 % Half /\ d.seg_limit_2 = (l2 \div Half) % 16
    BY <2>1 DEF SegmentCreate
  <2> HIDE DEF d
  <2>4. LimitOf(d) = <<0, l2>>
    BY <2>2, <2>3, SMT DEF LimitOf, Half
  <2> QED BY <1>1, <1>2, <2>4 DEF d
<1>3. CASE l1 # 0
  <2> DEFINE q == l2 \div 4096
             s == (l1 * 16) + q
  <2>1. q \in 0..15
    BY SMT
  <2> HIDE DEF q
  <2>2. s \in Nat /\ s < 1048576 /\ s \div 16 = l1 /\ s % 16 = q
    BY <2>1, Shift
  <2>3. Stored(<<l1, l2>>) = s /\ Granularity(<<l1, l2>>) = 1
    BY <1>3 DEF Stored, Granularity, q
  <2> HIDE DEF s
  <2>4. d.granularity = 1 /\ d.seg_limit_1 = s % Half /\ d.seg_limit_2 = (s \div Half) % 16
    BY <2>3 DEF SegmentCreate
  <2> HIDE DEF d
  <2>5. Raw(d) = s
    <3>1. (((s \div Half) % 16) * Half) + (s % Half) = s
      BY <2>2, Fields, SMT DEF Half
    <3> QED BY <2>4, <3>1 DEF Raw
  <2>6. LimitOf(d) = <<l1, (q * 4096) + 4095>>
    BY <2>2, <2>4, <2>5 DEF LimitOf
  <2> QED BY <1>1, <1>3, <2>6 DEF d, q
<1> QED BY <1>2, <1>3

-----------------------------------------------------------------------------
(* Memory, for a layout of the build.                                      *)

LEMMA Addresses ==
  ASSUME size \in Sizes
  PROVE  /\ \A p \in Parts : size[p] \in Nat
         /\ SharedBssAt(size) \in Nat /\ SharedBssAt(size) >= SharedAt + size["shared"]
         /\ SharedEnd(size) = SharedBssAt(size) + size["shared_bss"]
         /\ SharedEnd(size) >= SharedBssAt(size) + VariablesEnd
         /\ ContentStart(size) \in Nat /\ ContentStart(size) >= SharedEnd(size)
         /\ Stage5At(size) \in Nat /\ Stage5At(size) >= ContentStart(size) + size["stage4"]
         /\ Stage4BssAt(size) \in Nat
         /\ Stage4BssAt(size) >= Stage5At(size) + size["stage5"]
<1>1. /\ \A p \in Parts : size[p] \in Nat
      /\ size["shared_bss"] >= VariablesEnd
  BY BootAssumption
<1>2. SharedBssAt(size) \in Nat /\ SharedBssAt(size) >= SharedAt + size["shared"]
  BY <1>1, AlignObject DEF SharedBssAt, SharedAt, Parts
<1>3. /\ SharedEnd(size) = SharedBssAt(size) + size["shared_bss"]
      /\ SharedEnd(size) \in Nat /\ SharedEnd(size) >= SharedBssAt(size) + VariablesEnd
  BY <1>1, <1>2 DEF SharedEnd, VariablesEnd, Parts
<1>4. ContentStart(size) \in Nat /\ ContentStart(size) >= SharedEnd(size)
  BY <1>3, AlignBlock DEF ContentStart
<1>5. Stage5At(size) \in Nat /\ Stage5At(size) >= ContentStart(size) + size["stage4"]
  BY <1>1, <1>4, AlignObject DEF Stage5At, Parts
<1>6. Stage4BssAt(size) \in Nat /\ Stage4BssAt(size) >= Stage5At(size) + size["stage5"]
  BY <1>1, <1>5, AlignPage DEF Stage4BssAt, Parts
<1> QED BY <1>1, <1>2, <1>3, <1>4, <1>5, <1>6

LEMMA Places ==
  ASSUME size \in Sizes
  PROVE  /\ Region("stage1") = <<31744, 32256>> /\ Region("stack") = <<24576, 28672>>
         /\ Region("shared") = <<32256, 32256 + size["shared"]>>
         /\ Region("gdt") = <<SharedBssAt(size), SharedBssAt(size) + 64>>
         /\ Region("drive_number") = <<SharedBssAt(size) + 1296, SharedBssAt(size) + 1304>>
         /\ Region("idt") = <<SharedBssAt(size) + 1304, SharedEnd(size)>>
         /\ Region("loader_protected") = <<28672, 28672 + size["loader_protected"]>>
         /\ Region("stage3") = <<ContentStart(size), ContentStart(size) + size["stage3"]>>
         /\ Region("stage3_bss") = <<ContentStart(size) + size["stage3"],
                                     ContentStart(size) + size["stage3"] + size["stage3_bss"]>>
         /\ Region("stage4") = <<ContentStart(size), ContentStart(size) + size["stage4"]>>
         /\ Region("stage5") = <<Stage5At(size), Stage5At(size) + size["stage5"]>>
         /\ Region("stage4_bss") = <<Stage4BssAt(size), Stage4BssAt(size) + size["stage4_bss"]>>
  BY Addresses DEF Region, Start, End, Stage1At, SharedAt, LoaderAt, Block, StackBytes,
     VariablesEnd

(* What copy_kernel writes of a part: less than a sector beyond its end.   *)
LEMMA Written ==
  ASSUME size \in Sizes, NEW part \in {"shared", "stage2", "stage3"}
  PROVE  \E last \in Nat :
           /\ SectorsOf(part) = <<IF part = "shared" THEN 32256 ELSE ContentStart(size), last>>
           /\ part = "shared" => last <= 32256 + size["shared"] + 511
<1>1. part \in Parts /\ size[part] \in Nat /\ size["shared"] \in Nat
      /\ ContentStart(size) \in Nat
  BY Addresses DEF Parts
<1>2. Start(size, part) = IF part = "shared" THEN 32256 ELSE ContentStart(size)
  BY DEF Start, SharedAt
<1>3. /\ Block * LoadCount(size, part) \in Nat
      /\ Block * LoadCount(size, part) <= size[part] + 511
  BY <1>1 DEF LoadCount, Block
<1> QED BY <1>1, <1>2, <1>3 DEF SectorsOf

(* None of the loads, of the clearings and of the transfers touches what   *)
(* is needed after it.                                                     *)
LEMMA SharedSpares ==
  ASSUME size \in Sizes, NEW r \in {"stage1", "stack", "drive_number"}
  PROVE  Disjoint(Region(r), SectorsOf("shared"))
<1>1. PICK last \in Nat : /\ SectorsOf("shared") = <<32256, last>>
                         /\ last <= 32256 + size["shared"] + 511
  BY Written
<1> QED BY <1>1, Places, Addresses DEF Disjoint, SharedAt, Parts

LEMMA StageSpares ==
  ASSUME size \in Sizes, NEW part \in {"stage2", "stage3"},
         NEW r \in {"stage1", "stack", "drive_number", "shared", "gdt"}
  PROVE  Disjoint(Region(r), SectorsOf(part))
<1>1. PICK last \in Nat : SectorsOf(part) = <<ContentStart(size), last>>
  BY Written
<1> QED BY <1>1, Places, Addresses DEF Disjoint, SharedAt, VariablesEnd, Parts

LEMMA ClearingSpares ==
  ASSUME size \in Sizes
  PROVE  /\ \A r \in {"stage3", "shared", "stack", "drive_number", "gdt"} :
              Disjoint(Region(r), Region("stage3_bss"))
         /\ \A r \in {"stack", "gdt", "stage4", "stage5"} : Disjoint(Region(r), Bss)
  BY Places, Addresses DEF Disjoint, SharedAt, VariablesEnd, Parts, Bss

LEMMA TransferSpares ==
  ASSUME size \in Sizes,
         NEW r \in {"shared", "stack", "drive_number", "gdt", "idt", "loader_protected",
                    "stage4"}
  PROVE  Disjoint(Region(r), Buffer)
  BY Places, Addresses DEF Disjoint, SharedAt, VariablesEnd, Parts, Buffer

LEMMA LoadSpares ==
  ASSUME size \in Sizes
  PROVE  /\ \A r \in {"shared", "stack", "drive_number", "gdt", "idt"} :
              Disjoint(Region(r), Target("loader_protected"))
         /\ \A r \in {"shared", "stack", "drive_number", "gdt", "idt", "loader_protected"} :
              Disjoint(Region(r), Target("stage4"))
         /\ \A r \in {"shared", "stack", "gdt", "idt", "loader_protected", "stage4"} :
              Disjoint(Region(r), Target("stage5"))
<1>1. size["loader_protected"] \in Nat /\ size["loader_protected"] < 3584
  <2>1. PICK n \in 1..(LoaderSize - 1) : size["loader_protected"] = n
    BY BootAssumption
  <2>2. n \in Nat /\ n < 3584
    BY DEF LoaderSize
  <2> QED BY <2>1, <2>2
<1>2. /\ Target("loader_protected") = Region("loader_protected")
      /\ Target("stage4") = Region("stage4") /\ Target("stage5") = Region("stage5")
  BY DEF Target, Region
<1> QED BY <1>1, <1>2, Places, Addresses DEF Disjoint, SharedAt, VariablesEnd, Parts

-----------------------------------------------------------------------------
(* The control: what part is being loaded, and which table, selectors and  *)
(* modes each place finds.  Nothing here depends on the sizes of the parts *)
(* or on what went wrong.                                                  *)

USE DEF At, machine, image, props, table, cpu, Stage1Places, Bits32, Protected

LEMMA DiskType ==
  ASSUME disk \in Disks
  PROVE  /\ disk.heads \in 1..256 /\ disk.sectors \in 1..63
         /\ HeadsOf \in 0..255
  BY BootAssumption DEF HeadsOf

LEMMA InitControl == ASSUME Init PROVE Control
<1>1. TypeOK
  <2>1. pe = FALSE /\ lm = FALSE
    BY DEF Init
  <2>2. pe \in BOOLEAN /\ lm \in BOOLEAN
    BY <2>1
  <2>3. max_head_number \in 0..255 /\ max_sector_number \in 0..255
    BY BootAssumption DEF Init
  <2> QED BY <2>2, <2>3 DEF Init, TypeOK, Regions
<1>2. LoadingOK /\ SelectorsOK /\ CpuOK
  BY DEF Init, LoadingOK, SelectorsOK, TableWritten, CpuOK
<1>3. DivisorOK
  BY DEF Init, DivisorOK
<1> QED BY <1>1, <1>2, <1>3 DEF Control

(* What survives a write was there before.                                 *)
LEMMA Survivors == ASSUME NEW interval PROVE Surviving(interval) \subseteq present
  BY DEF Surviving

LEMMA MainAsmControl == ASSUME Control, MainAsm PROVE Control'
<1>1. /\ pc = "main_asm" /\ pc' = "copy_kernel"
      /\ present' = present \union {"stack", "drive_number"}
      /\ UNCHANGED <<size, disk, wrong, loading, tries, max_head_number, max_sector_number,
                     gdt, seg_cs, seg_ds, cs, ds, pe, lm>>
  BY DEF MainAsm
<1>2. TypeOK'
  BY <1>1 DEF Control, TypeOK, Regions
<1>3. LoadingOK' /\ SelectorsOK'
  BY <1>1 DEF Control, LoadingOK, SelectorsOK, TableWritten
<1>4. CpuOK' /\ DivisorOK'
  BY <1>1 DEF Control, CpuOK, DivisorOK
<1> QED BY <1>2, <1>3, <1>4 DEF Control

LEMMA CopyKernelControl == ASSUME Control, CopyKernel PROVE Control'
<1>1. /\ pc = "copy_kernel"
      /\ \/ max_head_number # 0 /\ max_sector_number = 0 /\ pc' = "fault" /\ tries' = tries
         \/ pc' = "int13" /\ tries' = 3
      /\ UNCHANGED <<size, disk, wrong, loading, present, max_head_number, max_sector_number,
                     gdt, seg_cs, seg_ds, cs, ds, pe, lm>>
  BY DEF CopyKernel
<1>2. TypeOK'
  BY <1>1 DEF Control, TypeOK
<1>3. LoadingOK' /\ SelectorsOK'
  BY <1>1 DEF Control, LoadingOK, SelectorsOK, TableWritten
<1>4. CpuOK' /\ DivisorOK'
  BY <1>1 DEF Control, CpuOK, DivisorOK
<1> QED BY <1>2, <1>3, <1>4 DEF Control

(* A read of stage 1 is over, or is tried again.                           *)
LEMMA ReadControl ==
  ASSUME Control, pc = "int13",
         Return \/ UNCHANGED <<pc, loading>>, pc' = pc => tries' \in 1..3, tries' \in 0..3,
         present' \subseteq Regions, wrong \subseteq wrong',
         wrong' \subseteq {"memory", "read", "props", "load"},
         UNCHANGED <<size, disk, max_head_number, max_sector_number,
                     gdt, seg_cs, seg_ds, cs, ds, pe, lm>>
  PROVE  Control'
<1>1. loading \in {"shared", "stage2", "stage3"}
  BY DEF Control, TypeOK
<1>2. \/ loading = "shared" /\ pc' = "copy_kernel" /\ loading' = "stage2"
      \/ loading = "stage2" /\ pc' = "stage2_load" /\ loading' = "stage3"
      \/ loading = "stage3" /\ pc' = "stage3_start" /\ loading' = loading
      \/ pc' = pc /\ loading' = loading
  BY <1>1 DEF Return
<1>3. TypeOK'
  BY <1>2 DEF Control, TypeOK
<1>4. LoadingOK' /\ SelectorsOK'
  BY <1>1, <1>2 DEF Control, LoadingOK, SelectorsOK, TableWritten
<1>5. CpuOK' /\ DivisorOK'
  BY <1>2 DEF Control, CpuOK, DivisorOK
<1> QED BY <1>3, <1>4, <1>5 DEF Control

LEMMA ReadSucceedsControl == ASSUME Control, ReadSucceeds PROVE Control'
<1>1. /\ pc = "int13" /\ Return /\ tries \in 1..3
      /\ present' = Surviving(SectorsOf(loading)) \union {p \in {loading} : Complete(p)}
      /\ UNCHANGED <<size, disk, wrong, tries, max_head_number, max_sector_number,
                     gdt, seg_cs, seg_ds, cs, ds, pe, lm>>
  BY DEF ReadSucceeds, Control, LoadingOK
<1>2. present' \subseteq Regions
  BY <1>1, Survivors DEF Control, TypeOK, Regions, Parts
<1>3. wrong' \subseteq {"memory", "read", "props", "load"}
  BY <1>1 DEF Control, TypeOK
<1> QED BY <1>1, <1>2, <1>3, ReadControl

LEMMA ReadFailsControl == ASSUME Control, ReadFails PROVE Control'
<1>1. /\ pc = "int13" /\ tries \in 1..3 /\ tries' = tries - 1
      /\ present' = Surviving(SectorsOf(loading))
      /\ \/ tries = 1 /\ Return /\ wrong' = wrong \union {"read"}
         \/ tries # 1 /\ UNCHANGED <<pc, loading, wrong>>
      /\ UNCHANGED <<size, disk, max_head_number, max_sector_number,
                     gdt, seg_cs, seg_ds, cs, ds, pe, lm>>
  BY DEF ReadFails, TriesCounted, Control, LoadingOK
<1>2. present' \subseteq Regions
  BY <1>1, Survivors DEF Control, TypeOK
<1>3. wrong \subseteq wrong' /\ wrong' \subseteq {"memory", "read", "props", "load"}
  BY <1>1 DEF Control, TypeOK
<1>4. Return => pc' \in {"copy_kernel", "stage2_load", "stage3_start"}
  <2>1. loading \in {"shared", "stage2", "stage3"}
    BY DEF Control, TypeOK
  <2> QED BY <2>1 DEF Return
<1>5. pc' = pc => tries' \in 1..3
  BY <1>1, <1>4
<1>6. tries' \in 0..3 /\ (Return \/ UNCHANGED <<pc, loading>>)
  BY <1>1
<1> QED BY <1>1, <1>2, <1>3, <1>5, <1>6, ReadControl

LEMMA GdtSetupControl == ASSUME Control, GdtSetup PROVE Control'
<1>1. TableMemory \subseteq {0, 1}
  BY BootAssumption DEF TableMemory
<1>2. /\ pc = "stage2_load" /\ pc' = "disk_props"
      /\ \E bit \in {0, 1} : gdt' = TableWith(bit)
      /\ seg_cs' = 1 /\ seg_ds' = 2
      /\ present' = present \union {"gdt"}
      /\ UNCHANGED <<size, disk, wrong, loading, tries, max_head_number, max_sector_number,
                     cs, ds, pe, lm>>
  BY <1>1 DEF GdtSetup
<1>3. TypeOK'
  BY <1>2 DEF Control, TypeOK, Regions
<1>4. LoadingOK' /\ SelectorsOK'
  BY <1>2 DEF Control, LoadingOK, SelectorsOK, TableWritten
<1>5. CpuOK' /\ DivisorOK'
  BY <1>2 DEF Control, CpuOK, DivisorOK
<1> QED BY <1>3, <1>4, <1>5 DEF Control

LEMMA DiskPropsControl == ASSUME Control, DiskProps PROVE Control'
<1>1. /\ pc = "disk_props" /\ pc' = "copy_kernel" /\ loading = "stage3"
      /\ \/ /\ max_sector_number' = disk.sectors /\ max_head_number' = HeadsOf
            /\ wrong' = wrong
         \/ wrong' = wrong \union {"props"} /\ UNCHANGED <<max_head_number, max_sector_number>>
      /\ UNCHANGED <<size, disk, loading, tries, present, gdt, seg_cs, seg_ds,
                     cs, ds, pe, lm>>
  BY DEF DiskProps, Control, LoadingOK
<1>2. disk.sectors \in 1..63 /\ HeadsOf \in 0..255
  BY DiskType DEF Control, TypeOK
<1>3. TypeOK'
  <2>1. max_head_number' \in 0..255 /\ max_sector_number' \in 0..255
    BY <1>1, <1>2 DEF Control, TypeOK
  <2>2. wrong' \subseteq {"memory", "read", "props", "load"}
    BY <1>1 DEF Control, TypeOK
  <2> QED BY <1>1, <2>1, <2>2 DEF Control, TypeOK
<1>4. LoadingOK' /\ SelectorsOK'
  BY <1>1 DEF Control, LoadingOK, SelectorsOK, TableWritten
<1>5. CpuOK' /\ DivisorOK'
  BY <1>1, <1>2 DEF Control, CpuOK, DivisorOK
<1> QED BY <1>3, <1>4, <1>5 DEF Control

LEMMA Stage3StartControl == ASSUME Control, Stage3Start PROVE Control'
<1>1. /\ pc = "stage3_start" /\ pc' = "stage3_lret" /\ pe' = TRUE /\ ds' = seg_ds
      /\ UNCHANGED <<size, disk, wrong, loading, tries, present, max_head_number,
                     max_sector_number, gdt, seg_cs, seg_ds, cs, lm>>
  BY DEF Stage3Start
<1>2. pe' \in BOOLEAN
  BY <1>1
<1>3. TypeOK'
  BY <1>1, <1>2 DEF Control, TypeOK
<1>4. LoadingOK' /\ SelectorsOK'
  BY <1>1 DEF Control, LoadingOK, SelectorsOK, TableWritten
<1>5. CpuOK' /\ DivisorOK'
  BY <1>1 DEF Control, CpuOK, DivisorOK
<1> QED BY <1>3, <1>4, <1>5 DEF Control

LEMMA Stage3LretControl == ASSUME Control, Stage3Lret PROVE Control'
<1>1. /\ pc = "stage3_lret" /\ pc' = "stage3_load" /\ cs' = seg_cs
      /\ UNCHANGED <<size, disk, wrong, loading, tries, present, max_head_number,
                     max_sector_number, gdt, seg_cs, seg_ds, ds, pe, lm>>
  BY DEF Stage3Lret
<1>2. seg_cs = 1
  BY <1>1 DEF Control, SelectorsOK, TableWritten
<1>3. TypeOK'
  BY <1>1, <1>2 DEF Control, TypeOK
<1>4. LoadingOK' /\ SelectorsOK'
  BY <1>1 DEF Control, LoadingOK, SelectorsOK, TableWritten
<1>5. CpuOK' /\ DivisorOK'
  BY <1>1, <1>2 DEF Control, CpuOK, DivisorOK
<1> QED BY <1>3, <1>4, <1>5 DEF Control

(* The loads and the clearings of stage 3 and the loader leave selectors   *)
(* and modes alone.                                                        *)
LEMMA LoadingControl ==
  ASSUME Control, pc \in Bits32 \ {"stage4_load", "stage5_start"},
         pc' \in Bits32 \ {"stage5_start"}, pc' = "panic" => Divisor = 0,
         present' \subseteq Regions, wrong \subseteq wrong',
         wrong' \subseteq {"memory", "read", "props", "load"},
         UNCHANGED <<size, disk, loading, tries, max_head_number, max_sector_number,
                     gdt, seg_cs, seg_ds, cs, ds, pe, lm>>
  PROVE  Control'
<1>1. TypeOK'
  BY DEF Control, TypeOK
<1>2. LoadingOK' /\ SelectorsOK'
  BY DEF Control, LoadingOK, SelectorsOK, TableWritten
<1>3. CpuOK'
  BY DEF Control, CpuOK
<1>4. DivisorOK'
  BY DEF Control, DivisorOK, Divisor
<1> QED BY <1>1, <1>2, <1>3, <1>4 DEF Control

LEMMA CopyBytesEffect ==
  ASSUME Control, NEW part \in Parts \ {"shared_bss"}, NEW next, CopyBytes(part, next)
  PROVE  /\ present' \subseteq Regions
         /\ wrong \subseteq wrong' /\ wrong' \subseteq {"memory", "read", "props", "load"}
         /\ (pc' = "panic" /\ Divisor = 0) \/ pc' = next
         /\ UNCHANGED <<size, disk, loading, tries, max_head_number, max_sector_number,
                        gdt, seg_cs, seg_ds, cs, ds, pe, lm>>
<1>1. Surviving(Buffer) \intersect Surviving(Target(part)) \subseteq present
  BY Survivors
<1> QED BY <1>1 DEF CopyBytes, Control, TypeOK, Regions

LEMMA LoadsControl ==
  ASSUME Control, CopyStage4 \/ LoadStage4 \/ LoadStage5
  PROVE  Control'
<1>1. /\ pc \in {"copy_stage4", "load_protected", "load_stage5"}
      /\ \E part \in {"loader_protected", "stage4", "stage5"},
           next \in {"load_protected", "load_stage5", "reset_bss"} : CopyBytes(part, next)
  BY DEF CopyStage4, LoadStage4, LoadStage5
<1>2. PICK part \in {"loader_protected", "stage4", "stage5"},
           next \in {"load_protected", "load_stage5", "reset_bss"} : CopyBytes(part, next)
  BY <1>1
<1>3. part \in Parts \ {"shared_bss"}
  BY DEF Parts
<1>4. /\ present' \subseteq Regions
      /\ wrong \subseteq wrong' /\ wrong' \subseteq {"memory", "read", "props", "load"}
      /\ (pc' = "panic" /\ Divisor = 0) \/ pc' = next
      /\ UNCHANGED <<size, disk, loading, tries, max_head_number, max_sector_number,
                     gdt, seg_cs, seg_ds, cs, ds, pe, lm>>
  BY <1>2, <1>3, CopyBytesEffect
<1> QED BY <1>1, <1>4, LoadingControl

LEMMA ClearingControl == ASSUME Control, Stage3Load \/ ResetBss PROVE Control'
<1>1. /\ pc \in {"stage3_load", "reset_bss"}
      /\ pc' \in {"copy_stage4", "stage4_load", "panic"} /\ (pc' = "panic" => Divisor = 0)
      /\ \E interval : present' \subseteq Surviving(interval)
                                          \union {"stage3_bss", "idt", "stage4_bss"}
      /\ wrong' = wrong
      /\ UNCHANGED <<size, disk, loading, tries, max_head_number, max_sector_number,
                     gdt, seg_cs, seg_ds, cs, ds, pe, lm>>
  BY DEF Stage3Load, ResetBss
<1>2. present' \subseteq Regions
  BY <1>1, Survivors DEF Control, TypeOK, Regions, Parts
<1>3. wrong' \subseteq {"memory", "read", "props", "load"}
  BY <1>1 DEF Control, TypeOK
<1> QED BY <1>1, <1>2, <1>3, LoadingControl

LEMMA SetupPagingControl == ASSUME Control, SetupPaging PROVE Control'
<1>1. /\ pc = "stage4_load" /\ pc' = "stage5_start" /\ lm' = TRUE
      /\ seg_cs' = 3 /\ seg_ds' = 2
      /\ UNCHANGED <<size, disk, wrong, loading, tries, present, max_head_number,
                     max_sector_number, gdt, cs, ds, pe>>
  BY DEF SetupPaging, LongSelector
<1>2. lm' \in BOOLEAN
  BY <1>1
<1>3. TypeOK'
  BY <1>1, <1>2 DEF Control, TypeOK
<1>4. LoadingOK' /\ SelectorsOK'
  BY <1>1 DEF Control, LoadingOK, SelectorsOK, TableWritten
<1>5. CpuOK' /\ DivisorOK'
  BY <1>1 DEF Control, CpuOK, DivisorOK
<1> QED BY <1>3, <1>4, <1>5 DEF Control

LEMMA Stage5StartControl == ASSUME Control, Stage5Start PROVE Control'
<1>1. /\ pc = "stage5_start" /\ pc' = "stage5_load" /\ cs' = seg_cs /\ ds' = seg_ds
      /\ UNCHANGED <<size, disk, wrong, loading, tries, present, max_head_number,
                     max_sector_number, gdt, seg_cs, seg_ds, pe, lm>>
  BY DEF Stage5Start
<1>2. seg_cs = 3 /\ seg_ds = 2
  BY <1>1 DEF Control, SelectorsOK, TableWritten
<1>3. TypeOK'
  BY <1>1, <1>2 DEF Control, TypeOK
<1>4. LoadingOK' /\ SelectorsOK'
  BY <1>1 DEF Control, LoadingOK, SelectorsOK, TableWritten
<1>5. CpuOK' /\ DivisorOK'
  BY <1>1, <1>2 DEF Control, CpuOK, DivisorOK
<1> QED BY <1>3, <1>4, <1>5 DEF Control

LEMMA LostControl == ASSUME Control, Lost PROVE Control'
<1>1. /\ pc' = "lost"
      /\ UNCHANGED <<size, disk, wrong, loading, tries, present, max_head_number,
                     max_sector_number, gdt, seg_cs, seg_ds, cs, ds, pe, lm>>
  BY DEF Lost
<1>2. TypeOK'
  BY <1>1 DEF Control, TypeOK
<1>3. LoadingOK' /\ SelectorsOK'
  BY <1>1 DEF LoadingOK, SelectorsOK, TableWritten
<1>4. CpuOK' /\ DivisorOK'
  BY <1>1 DEF Control, CpuOK, DivisorOK
<1> QED BY <1>2, <1>3, <1>4 DEF Control

LEMMA ControlStep == ASSUME Control, [Next]_vars PROVE Control'
<1>1. CASE Next
  BY <1>1, MainAsmControl, CopyKernelControl, ReadSucceedsControl, ReadFailsControl,
     GdtSetupControl, DiskPropsControl, Stage3StartControl, Stage3LretControl,
     ClearingControl, LoadsControl, SetupPagingControl, Stage5StartControl, LostControl
     DEF Next
<1>2. CASE UNCHANGED vars
  <2>1. UNCHANGED <<size, disk, pc, loading, tries, present, max_head_number,
                    max_sector_number, gdt, seg_cs, seg_ds, cs, ds, pe, lm, wrong>>
    BY <1>2 DEF vars
  <2>2. TypeOK'
    BY <2>1 DEF Control, TypeOK
  <2>3. LoadingOK' /\ SelectorsOK' /\ CpuOK' /\ DivisorOK'
    BY <2>1 DEF Control, LoadingOK, SelectorsOK, TableWritten, CpuOK, DivisorOK, Divisor
  <2> QED BY <2>2, <2>3 DEF Control
<1> QED BY <1>1, <1>2

(* The control never goes astray, whatever the layout and the disk and     *)
(* whatever fails.                                                         *)
THEOREM ControlInvariance == Spec => []Control
<1>1. Init => Control
  BY InitControl
<1>2. Control /\ [Next]_vars => Control'
  BY ControlStep
<1> QED BY <1>1, <1>2, PTL DEF Spec

(* What the descriptors of stage 2 make the processor do.                  *)
LEMMA TableModes ==
  ASSUME NEW bit
  PROVE  /\ TableWith(bit)[1].op_size = 1 /\ TableWith(bit)[1].mode_64_bit = 0
         /\ TableWith(bit)[3].mode_64_bit = 1
  BY DEF TableWith, SegmentCreate, LongCode

-----------------------------------------------------------------------------
(* The sectors stage 1 asks for.                                           *)

(* Quotient and remainder are what they are called.                        *)
LEMMA Division ==
  ASSUME NEW a \in Nat, NEW b \in Nat \ {0}
  PROVE  a \div b \in Nat /\ a % b \in 0..(b - 1) /\ a = b * (a \div b) + (a % b)
  OBVIOUS

LEMMA Quotient ==
  ASSUME NEW b \in Nat \ {0}, NEW q \in Nat, NEW r \in 0..(b - 1)
  PROVE  (b * q + r) \div b = q
  OBVIOUS

LEMMA Product ==
  ASSUME NEW a \in Nat, NEW b \in Nat, NEW c \in Nat
  PROVE  /\ a * b \in Nat /\ (a > 0 /\ b > 0 => a * b > 0)
         /\ a * b = b * a /\ (a * b) * c = a * (b * c) /\ a * (b + c) = a * b + a * c
  OBVIOUS

(* A cylinder, a head and a sector count up to the index they come from.   *)
LEMMA PositionCounts ==
  ASSUME NEW l \in Nat, NEW heads \in Nat \ {0}, NEW sectors \in Nat \ {0}
  PROVE  /\ l \div (heads * sectors) \in Nat /\ l \div (heads * sectors) <= l
         /\ (l \div sectors) % heads \in 0..(heads - 1) /\ l % sectors \in 0..(sectors - 1)
         /\ (((l \div (heads * sectors)) * heads + ((l \div sectors) % heads)) * sectors)
              + (l % sectors) = l
<1> DEFINE q == l \div sectors
           r == l % sectors
           c == q \div heads
           h == q % heads
<1>1. q \in Nat /\ r \in 0..(sectors - 1) /\ l = sectors * q + r
  BY Division
<1>2. c \in Nat /\ h \in 0..(heads - 1) /\ q = heads * c + h
  BY <1>1, Division
<1> HIDE DEF q, r, c, h
<1>3. heads * sectors \in Nat \ {0}
  BY Product
<1>4. l = (heads * sectors) * c + (sectors * h + r)
  BY <1>1, <1>2, Product
<1>5. sectors * h + r \in 0..(heads * sectors - 1)
  <2>1. sectors * (h + 1) <= sectors * heads
    BY <1>2
  <2> QED BY <1>1, <1>2, <1>3, <2>1, Product
<1>6. l \div (heads * sectors) = c
  BY <1>2, <1>3, <1>4, <1>5, Quotient
<1>7. c <= l
  <2>1. (heads * sectors) * c >= c
    BY <1>2, <1>3
  <2> QED BY <1>1, <1>2, <1>3, <1>4, <1>5, <2>1
<1>8. (c * heads + h) * sectors + r = l
  BY <1>1, <1>2, Product
<1> QED BY <1>1, <1>2, <1>6, <1>7, <1>8 DEF q, r, h

(* The sectors of the parts, for an image stage 1 can address.             *)
LEMMA Indices ==
  ASSUME size \in Sizes, disk \in Disks, NEW part \in {"shared", "stage2", "stage3"}
  PROVE  /\ FirstSectionIndex(size, part) \in 1..255
         /\ Index(part) = FirstSectionIndex(size, part)
         /\ Count(part) * Block >= size[part]
         /\ part # "stage3" \/ disk.heads = 256 => FirstSectionIndex(size, part) < disk.sectors
<1>1. /\ size \in [Parts -> Nat] /\ \A p \in Parts : size[p] \in Nat
      /\ disk.heads \in 1..256 /\ disk.sectors \in 1..63
  BY BootAssumption
<1>2. \A p \in {"shared", "stage2", "stage3"} :
         LoadCount(size, p) \in 0..255 /\ LoadCount(size, p) * Block >= size[p]
  <2>1. SUFFICES ASSUME NEW p \in {"shared", "stage2", "stage3"}
                 PROVE LoadCount(size, p) \in 0..255 /\ LoadCount(size, p) * Block >= size[p]
    OBVIOUS
  <2>2. size[p] \in Nat
    BY <1>1 DEF Parts
  <2>3. LoadCount(size, p) < 256
    BY ImageAssumption
  <2> QED BY <2>2, <2>3 DEF LoadCount, Block
<1>3. /\ LoadAddr(size, "shared") = SharedAt
      /\ LoadAddr(size, "stage2") = ContentStart(size)
      /\ LoadAddr(size, "stage3") = Align(ContentStart(size) + size["stage2"], Block)
  BY DEF LoadAddr, ContentStart
<1>4. ContentStart(size) \in Nat /\ ContentStart(size) >= SharedAt
  BY <1>1, Addresses DEF SharedAt, VariablesEnd, Parts
<1>5. LoadAddr(size, "stage3") \in Nat /\ LoadAddr(size, "stage3") >= SharedAt
  BY <1>1, <1>3, <1>4, AlignBlock DEF SharedAt, Parts
<1>6. \A p \in {"shared", "stage2", "stage3"} :
         FirstSectionIndex(size, p) \in Nat /\ FirstSectionIndex(size, p) >= 1
  BY <1>3, <1>4, <1>5 DEF FirstSectionIndex, SharedAt, Stage1At, Block
<1>7. /\ FirstSectionIndex(size, "stage2") < disk.sectors
      /\ disk.heads = 256 => FirstSectionIndex(size, "stage3") < disk.sectors
      /\ disk.heads # 256 => FirstSectionIndex(size, "stage3") < 256
  BY ImageAssumption
<1>8. FirstSectionIndex(size, "shared") = 1
  BY <1>1, DiskOrder
<1>9. \A p \in {"shared", "stage2", "stage3"} : FirstSectionIndex(size, p) <= 255
  <2>1. /\ FirstSectionIndex(size, "shared") <= 255
        /\ FirstSectionIndex(size, "stage2") <= 255
    BY <1>1, <1>6, <1>7, <1>8
  <2>2. FirstSectionIndex(size, "stage3") <= 255
    BY <1>1, <1>6, <1>7
  <2> QED BY <2>1, <2>2
<1>10. part # "stage3" \/ disk.heads = 256 => FirstSectionIndex(size, part) < disk.sectors
  BY <1>1, <1>6, <1>7, <1>8
<1> QED BY <1>2, <1>6, <1>9, <1>10 DEF Index, Count

(* Each read names the part's first sector, if the disk's properties are   *)
(* what they are or not yet known.                                         *)
LEMMA ReadsNamed ==
  ASSUME Control, PropsOK, pc = "int13", wrong \intersect {"memory", "props"} = {}
  PROVE  /\ OnDisk(Chs(Index(loading)))
         /\ LbaOf(Chs(Index(loading))) = FirstSectionIndex(size, loading)
<1> DEFINE i == FirstSectionIndex(size, loading)
<1>1. size \in Sizes /\ disk \in Disks /\ loading \in {"shared", "stage2", "stage3"}
  BY DEF Control, TypeOK
<1>2. /\ i \in 1..255 /\ Index(loading) = i
      /\ loading # "stage3" \/ disk.heads = 256 => i < disk.sectors
  BY <1>1, Indices
<1>3. disk.heads \in 1..256 /\ disk.sectors \in 1..63
  BY <1>1, DiskType
<1> HIDE DEF i
<1>4. CASE max_head_number = 0
  <2>1. i < disk.sectors
    <3>1. CASE loading = "stage3"
      <4>1. max_head_number = HeadsOf
        BY <3>1 DEF PropsOK, TableWritten
      <4>2. disk.heads = 256
        BY <1>3, <1>4, <4>1 DEF HeadsOf
      <4> QED BY <1>2, <4>2
    <3>2. CASE loading # "stage3"
      BY <1>2, <3>2
    <3> QED BY <3>1, <3>2
  <2>2. (i + 1) % 64 = i + 1
    BY <1>2, <1>3, <2>1
  <2>3. Chs(i) = [c |-> 0, h |-> 0, s |-> i + 1]
    BY <1>4, <2>2 DEF Chs, FirstTrack
  <2>4. OnDisk(Chs(i))
    BY <1>2, <1>3, <2>1, <2>3 DEF OnDisk
  <2>5. LbaOf(Chs(i)) = i
    <3>1. LbaOf(Chs(i)) = ((0 * disk.heads + 0) * disk.sectors) + ((i + 1) - 1)
      BY <2>3 DEF LbaOf
    <3>2. \A h, s \in Nat : (0 * h + 0) * s = 0
      OBVIOUS
    <3>3. disk.heads \in Nat /\ disk.sectors \in Nat /\ i \in Nat
      BY <1>2, <1>3
    <3>4. (0 * disk.heads + 0) * disk.sectors = 0
      BY <3>2, <3>3, Zenon
    <3>5. 0 + ((i + 1) - 1) = i
      BY <3>3
    <3> QED BY <3>1, <3>4, <3>5, Zenon
  <2> QED BY <1>2, <2>4, <2>5 DEF i
<1>5. CASE max_head_number # 0
  <2>1. loading = "stage3"
    BY <1>1, <1>5 DEF PropsOK, TableWritten
  <2>2. max_head_number = disk.heads /\ max_sector_number = disk.sectors
    BY <1>3, <1>5, <2>1 DEF PropsOK, HeadsOf
  <2> DEFINE cc == i \div (disk.heads * disk.sectors)
             hh == (i \div disk.sectors) % disk.heads
             rr == i % disk.sectors
  <2>3. /\ cc \in Nat /\ cc <= i /\ hh \in 0..(disk.heads - 1) /\ rr \in 0..(disk.sectors - 1)
        /\ ((cc * disk.heads + hh) * disk.sectors) + rr = i
    <3>1. i \in Nat /\ disk.heads \in Nat \ {0} /\ disk.sectors \in Nat \ {0}
      BY <1>2, <1>3
    <3> HIDE DEF cc, hh, rr
    <3>2. /\ cc = i \div (disk.heads * disk.sectors)
          /\ hh = (i \div disk.sectors) % disk.heads /\ rr = i % disk.sectors
      BY DEF cc, hh, rr
    <3>3. \A heads, sectors \in Nat \ {0} :
            /\ i \div (heads * sectors) \in Nat /\ i \div (heads * sectors) <= i
            /\ (i \div sectors) % heads \in 0..(heads - 1) /\ i % sectors \in 0..(sectors - 1)
            /\ (((i \div (heads * sectors)) * heads + ((i \div sectors) % heads)) * sectors)
                 + (i % sectors) = i
      BY <3>1, PositionCounts
    <3> QED BY <3>1, <3>2, <3>3, Zenon
  <2> HIDE DEF cc, hh, rr
  <2>4. cc % 256 = cc /\ (rr + 1) % 64 = rr + 1
    BY <1>2, <1>3, <2>3
  <2>5. Chs(i) = [c |-> cc, h |-> hh, s |-> rr + 1]
    BY <1>5, <2>2, <2>4 DEF Chs, cc, hh, rr
  <2>6. OnDisk(Chs(i))
    BY <1>3, <2>3, <2>5 DEF OnDisk
  <2>7. LbaOf(Chs(i)) = i
    <3>1. LbaOf(Chs(i)) = ((cc * disk.heads + hh) * disk.sectors) + ((rr + 1) - 1)
      BY <2>5 DEF LbaOf
    <3>2. (rr + 1) - 1 = rr
      BY <2>3
    <3> QED BY <2>3, <3>1, <3>2
  <2> QED BY <1>2, <2>6, <2>7 DEF i
<1> QED BY <1>4, <1>5

-----------------------------------------------------------------------------
(* The memory: what is needed next is there, while nothing has gone wrong. *)

LEMMA Kept ==
  ASSUME NEW r \in present, NEW interval, Disjoint(Region(r), interval)
  PROVE  r \in Surviving(interval)
  BY DEF Surviving

LEMMA InitMemory == ASSUME Init PROVE PropsOK /\ TableOK /\ NothingNeededIsOverwritten
  BY DEF Init, PropsOK, TableOK, NothingNeededIsOverwritten, TableWritten, Needed

LEMMA MainAsmMemory == ASSUME IInv, MainAsm PROVE IInv'
<1>1. /\ pc = "main_asm" /\ pc' = "copy_kernel" /\ loading = "shared"
      /\ present' = present \union {"stack", "drive_number"}
      /\ UNCHANGED <<size, disk, wrong, loading, max_head_number, max_sector_number, gdt>>
  BY DEF MainAsm, IInv, Control, LoadingOK
<1>2. PropsOK' /\ TableOK'
  BY <1>1 DEF IInv, PropsOK, TableOK, TableWritten, HeadsOf, TableFollows
<1>3. NothingNeededIsOverwritten'
  BY <1>1 DEF IInv, NothingNeededIsOverwritten, Needed
<1> QED BY <1>2, <1>3, MainAsmControl DEF IInv

LEMMA CopyKernelMemory == ASSUME IInv, CopyKernel PROVE IInv'
<1>1. /\ pc = "copy_kernel" /\ pc' \in {"int13", "fault"}
      /\ UNCHANGED <<size, disk, wrong, loading, present, max_head_number, max_sector_number,
                     gdt>>
  BY DEF CopyKernel
<1>2. PropsOK' /\ TableOK'
  BY <1>1 DEF IInv, PropsOK, TableOK, TableWritten, HeadsOf, TableFollows
<1>3. NothingNeededIsOverwritten'
  BY <1>1 DEF IInv, NothingNeededIsOverwritten, Needed
<1> QED BY <1>2, <1>3, CopyKernelControl DEF IInv

(* What stage 1 needs to go on survives the sectors it reads.              *)
LEMMA ReadSpares ==
  ASSUME IInv, pc = "int13", wrong = {}
  PROVE  /\ {"stage1", "stack", "drive_number"} \subseteq Surviving(SectorsOf(loading))
         /\ loading # "shared" => "shared" \in Surviving(SectorsOf(loading))
         /\ loading = "stage3" => "gdt" \in Surviving(SectorsOf(loading))
<1>1. /\ size \in Sizes /\ loading \in {"shared", "stage2", "stage3"}
      /\ {"stage1", "stack", "drive_number"} \subseteq present
      /\ loading # "shared" => "shared" \in present
      /\ loading = "stage3" => "gdt" \in present
  BY DEF IInv, Control, TypeOK, NothingNeededIsOverwritten, Needed
<1>2. CASE loading = "shared"
  BY <1>1, <1>2, SharedSpares, Kept
<1>3. CASE loading \in {"stage2", "stage3"}
  BY <1>1, <1>3, StageSpares, Kept
<1> QED BY <1>1, <1>2, <1>3

LEMMA ReturnFacts ==
  ASSUME loading \in {"shared", "stage2", "stage3"}, Return
  PROVE  \/ loading = "shared" /\ pc' = "copy_kernel" /\ loading' = "stage2"
         \/ loading = "stage2" /\ pc' = "stage2_load" /\ loading' = "stage3"
         \/ loading = "stage3" /\ pc' = "stage3_start" /\ loading' = "stage3"
  BY DEF Return

LEMMA ReadSucceedsMemory == ASSUME IInv, ReadSucceeds PROVE IInv'
<1>1. /\ pc = "int13" /\ Return /\ loading \in {"shared", "stage2", "stage3"}
      /\ size \in Sizes /\ disk \in Disks
      /\ present' = Surviving(SectorsOf(loading)) \union {p \in {loading} : Complete(p)}
      /\ UNCHANGED <<size, disk, wrong, max_head_number, max_sector_number, gdt>>
  BY DEF ReadSucceeds, IInv, Control, TypeOK
<1>2. \/ loading = "shared" /\ pc' = "copy_kernel" /\ loading' = "stage2"
      \/ loading = "stage2" /\ pc' = "stage2_load" /\ loading' = "stage3"
      \/ loading = "stage3" /\ pc' = "stage3_start" /\ loading' = "stage3"
  BY <1>1, ReturnFacts
<1>3. PropsOK' /\ TableOK'
  BY <1>1, <1>2 DEF IInv, PropsOK, TableOK, TableWritten, HeadsOf, TableFollows
<1>4. NothingNeededIsOverwritten'
  <2>1. SUFFICES ASSUME wrong = {} PROVE Needed' \subseteq present'
    BY <1>1, <1>2 DEF NothingNeededIsOverwritten
  <2>2. Complete(loading)
    BY <1>1, <2>1, ReadsNamed, Indices DEF Complete, IInv
  <2>3. loading \in present' /\ Surviving(SectorsOf(loading)) \subseteq present'
    BY <1>1, <2>2
  <2> QED BY <1>1, <1>2, <2>1, <2>3, ReadSpares DEF Needed
<1> QED BY <1>3, <1>4, ReadSucceedsControl DEF IInv

LEMMA ReadFailsMemory == ASSUME IInv, ReadFails PROVE IInv'
<1>1. /\ pc = "int13" /\ loading \in {"shared", "stage2", "stage3"}
      /\ present' = Surviving(SectorsOf(loading))
      /\ \/ Return /\ wrong' = wrong \union {"read"}
         \/ UNCHANGED <<pc, loading, wrong>>
      /\ UNCHANGED <<size, disk, max_head_number, max_sector_number, gdt>>
  BY DEF ReadFails, IInv, Control, TypeOK
<1>2. CASE Return /\ wrong' = wrong \union {"read"}
  <2>1. \/ loading = "shared" /\ pc' = "copy_kernel" /\ loading' = "stage2"
        \/ loading = "stage2" /\ pc' = "stage2_load" /\ loading' = "stage3"
        \/ loading = "stage3" /\ pc' = "stage3_start" /\ loading' = "stage3"
    BY <1>1, <1>2, ReturnFacts
  <2>2. wrong' # {} /\ wrong \subseteq wrong'
    BY <1>2
  <2>3. PropsOK'
    BY <1>1, <2>1, <2>2 DEF IInv, PropsOK, TableWritten, HeadsOf
  <2>4. TableOK' /\ NothingNeededIsOverwritten'
    BY <2>2 DEF TableOK, NothingNeededIsOverwritten
  <2> QED BY <2>3, <2>4, ReadFailsControl DEF IInv
<1>3. CASE UNCHANGED <<pc, loading, wrong>>
  <2>1. PropsOK' /\ TableOK'
    BY <1>1, <1>3 DEF IInv, PropsOK, TableOK, TableWritten, HeadsOf, TableFollows
  <2>2. NothingNeededIsOverwritten'
    BY <1>1, <1>3, ReadSpares DEF NothingNeededIsOverwritten, Needed
  <2> QED BY <2>1, <2>2, ReadFailsControl DEF IInv
<1> QED BY <1>1, <1>2, <1>3

(* While the shared part is there and its last sector goes on with zeros   *)
(* where the table will be, the table starts as zeros.                     *)
LEMMA ZeroedTable ==
  ASSUME size \in Sizes, TableFollows, "shared" \in present
  PROVE  TableMemory = {0}
<1>1. size["shared"] \in Nat
  BY Addresses DEF Parts
<1>2. Region("gdt") = <<SharedBssAt(size), SharedBssAt(size) + 64>>
  BY Places
<1>3. SectorsOf("shared")[2] = 32256 + (512 * ((511 + size["shared"]) \div 512))
  BY DEF SectorsOf, Start, LoadCount, SharedAt, Block
<1>4. SharedBssAt(size) = ((32256 + size["shared"] + 31) \div 32) * 32
  BY <1>1 DEF SharedBssAt, Align, SharedAt
<1>5. size["shared"] % 512 \in 1..416
  BY DEF TableFollows, Block
<1>6. SharedBssAt(size) + 64 <= SectorsOf("shared")[2]
  BY <1>1, <1>3, <1>4, <1>5
<1> QED BY <1>2, <1>6 DEF TableMemory

LEMMA GdtSetupMemory == ASSUME IInv, GdtSetup PROVE IInv'
<1>1. /\ pc = "stage2_load" /\ pc' = "disk_props" /\ loading = "stage3"
      /\ size \in Sizes
      /\ \E bit \in TableMemory : gdt' = TableWith(bit)
      /\ present' = present \union {"gdt"}
      /\ UNCHANGED <<size, disk, wrong, loading, max_head_number, max_sector_number>>
  BY DEF GdtSetup, IInv, Control, LoadingOK, TypeOK
<1>2. PropsOK'
  BY <1>1 DEF IInv, PropsOK, TableWritten
<1>3. NothingNeededIsOverwritten'
  BY <1>1 DEF IInv, NothingNeededIsOverwritten, Needed
<1>4. TableOK'
  <2>1. SUFFICES ASSUME wrong = {}, TableFollows PROVE gdt' = TableWith(0)
    BY <1>1 DEF TableOK, TableFollows
  <2>2. "shared" \in present
    BY <1>1, <2>1 DEF IInv, NothingNeededIsOverwritten, Needed
  <2>3. TableMemory = {0}
    BY <1>1, <2>1, <2>2, ZeroedTable
  <2> QED BY <1>1, <2>3
<1> QED BY <1>2, <1>3, <1>4, GdtSetupControl DEF IInv

LEMMA DiskPropsMemory == ASSUME IInv, DiskProps PROVE IInv'
<1>1. /\ pc = "disk_props" /\ pc' = "copy_kernel" /\ loading = "stage3"
      /\ \/ /\ max_sector_number' = disk.sectors /\ max_head_number' = HeadsOf
            /\ wrong' = wrong
         \/ wrong' = wrong \union {"props"}
      /\ UNCHANGED <<size, disk, loading, present, gdt>>
  BY DEF DiskProps, IInv, Control, LoadingOK
<1>2. PropsOK'
  BY <1>1 DEF PropsOK, TableWritten, HeadsOf
<1>3. wrong' = {} => wrong = {}
  BY <1>1
<1>4. TableOK'
  BY <1>1, <1>3 DEF IInv, TableOK, TableWritten, TableFollows
<1>5. NothingNeededIsOverwritten'
  BY <1>1, <1>3 DEF IInv, NothingNeededIsOverwritten, Needed
<1> QED BY <1>2, <1>4, <1>5, DiskPropsControl DEF IInv

(* The jumps: nothing is written.                                          *)
LEMMA JumpMemory ==
  ASSUME IInv, Stage3Start \/ Stage3Lret \/ SetupPaging \/ Stage5Start
  PROVE  IInv'
<1>1. /\ \/ pc = "stage3_start" /\ pc' = "stage3_lret"
         \/ pc = "stage3_lret" /\ pc' = "stage3_load"
         \/ pc = "stage4_load" /\ pc' = "stage5_start"
         \/ pc = "stage5_start" /\ pc' = "stage5_load"
      /\ UNCHANGED <<size, disk, wrong, loading, present, max_head_number, max_sector_number,
                     gdt>>
  BY DEF Stage3Start, Stage3Lret, SetupPaging, Stage5Start
<1>2. PropsOK'
  BY <1>1 DEF IInv, Control, LoadingOK, PropsOK, HeadsOf, TableWritten
<1>3. TableOK' /\ NothingNeededIsOverwritten'
  <2>1. TableOK'
    BY <1>1 DEF IInv, Control, LoadingOK, TableOK, TableWritten, TableFollows
  <2>2. NothingNeededIsOverwritten'
    BY <1>1 DEF IInv, NothingNeededIsOverwritten, Needed
  <2> QED BY <2>1, <2>2
<1>4. Control'
  BY Stage3StartControl, Stage3LretControl, SetupPagingControl, Stage5StartControl DEF IInv
<1> QED BY <1>2, <1>3, <1>4 DEF IInv

(* Once stage 1 is left nothing depends on the disk's properties, and only *)
(* what is present matters.                                                *)
LEMMA LateMemory ==
  ASSUME IInv, Control', pc \in Bits32, pc' \in Bits32,
         UNCHANGED <<size, disk, loading, max_head_number, max_sector_number, gdt>>,
         wrong \subseteq wrong', wrong' = {} => Needed' \subseteq present'
  PROVE  IInv'
<1>1. wrong' = {} => wrong = {}
  OBVIOUS
<1>2. PropsOK' /\ TableOK'
  BY <1>1 DEF IInv, Control, LoadingOK, PropsOK, HeadsOf, TableOK, TableWritten, TableFollows
<1> QED BY <1>2 DEF IInv, NothingNeededIsOverwritten

LEMMA Stage3LoadMemory == ASSUME IInv, Stage3Load PROVE IInv'
<1>1. /\ pc = "stage3_load" /\ pc' \in {"copy_stage4", "panic"} /\ size \in Sizes
      /\ present' = Surviving(Region("stage3_bss")) \union {"stage3_bss", "idt"}
      /\ UNCHANGED <<size, disk, loading, max_head_number, max_sector_number, gdt, wrong>>
  BY DEF Stage3Load, IInv, Control, TypeOK
<1>2. wrong = {} => {"stage3", "shared", "stack", "drive_number", "gdt"} \subseteq present
  BY <1>1 DEF IInv, NothingNeededIsOverwritten, Needed
<1>3. wrong = {} => {"stage3", "shared", "stack", "drive_number", "gdt"}
                      \subseteq Surviving(Region("stage3_bss"))
  BY <1>1, <1>2, ClearingSpares, Kept
<1>4. wrong' = {} => Needed' \subseteq present'
  BY <1>1, <1>3 DEF Needed
<1> QED BY <1>1, <1>4, ClearingControl, LateMemory DEF IInv

LEMMA ResetBssMemory == ASSUME IInv, ResetBss PROVE IInv'
<1>1. /\ pc = "reset_bss" /\ pc' = "stage4_load" /\ size \in Sizes
      /\ present' = Surviving(Bss) \union {"stage4_bss"}
      /\ UNCHANGED <<size, disk, loading, max_head_number, max_sector_number, gdt, wrong>>
  BY DEF ResetBss, IInv, Control, TypeOK
<1>2. wrong = {} => {"stack", "gdt", "stage4", "stage5"} \subseteq present
  BY <1>1 DEF IInv, NothingNeededIsOverwritten, Needed
<1>3. wrong = {} => {"stack", "gdt", "stage4", "stage5"} \subseteq Surviving(Bss)
  BY <1>1, <1>2, ClearingSpares, Kept
<1>4. wrong' = {} => Needed' \subseteq present'
  BY <1>1, <1>3 DEF Needed
<1> QED BY <1>1, <1>4, ClearingControl, LateMemory DEF IInv

(* A load by the driver goes through the transfer buffer to its place.     *)
LEMMA CopyBytesKeeps ==
  ASSUME size \in Sizes, NEW part, NEW next, CopyBytes(part, next), NEW r \in present,
         Disjoint(Region(r), Buffer), Disjoint(Region(r), Target(part))
  PROVE  r \in present'
  BY Kept DEF CopyBytes

LEMMA CopyBytesOutcome ==
  ASSUME NEW part, NEW next, CopyBytes(part, next)
  PROVE  /\ UNCHANGED <<size, disk, loading, max_head_number, max_sector_number, gdt>>
         /\ wrong \subseteq wrong' /\ (wrong' = {} => wrong = {})
         /\ pc' = "panic" \/ (pc' = next /\ (wrong' = {} => part \in present'))
  BY DEF CopyBytes

LEMMA CopyStage4Memory == ASSUME IInv, CopyStage4 PROVE IInv'
<1>1. /\ pc = "copy_stage4" /\ size \in Sizes
      /\ CopyBytes("loader_protected", "load_protected")
  BY DEF CopyStage4, IInv, Control, TypeOK
<1>2. wrong' = {} => {"shared", "stack", "drive_number", "gdt", "idt"} \subseteq present'
  <2>1. SUFFICES ASSUME wrong' = {}, NEW r \in {"shared", "stack", "drive_number", "gdt", "idt"}
                 PROVE r \in present'
    OBVIOUS
  <2>2. r \in present
    BY <1>1, <2>1, CopyBytesOutcome DEF IInv, NothingNeededIsOverwritten, Needed
  <2>3. Disjoint(Region(r), Buffer) /\ Disjoint(Region(r), Target("loader_protected"))
    BY <1>1, TransferSpares, LoadSpares
  <2> QED BY <1>1, <2>2, <2>3, CopyBytesKeeps
<1>3. wrong' = {} => Needed' \subseteq present'
  BY <1>1, <1>2, CopyBytesOutcome DEF Needed
<1>4. pc' \in Bits32
  BY <1>1, CopyBytesOutcome
<1> QED BY <1>1, <1>3, <1>4, CopyBytesOutcome, LoadsControl, LateMemory DEF IInv

LEMMA LoadStage4Memory == ASSUME IInv, LoadStage4 PROVE IInv'
<1>1. /\ pc = "load_protected" /\ size \in Sizes
      /\ CopyBytes("stage4", "load_stage5")
  BY DEF LoadStage4, IInv, Control, TypeOK
<1> DEFINE Others == {"shared", "stack", "drive_number", "gdt", "idt", "loader_protected"}
<1>2. wrong' = {} => Others \subseteq present'
  <2>1. SUFFICES ASSUME wrong' = {}, NEW r \in Others PROVE r \in present'
    OBVIOUS
  <2>2. r \in present
    BY <1>1, <2>1, CopyBytesOutcome DEF IInv, NothingNeededIsOverwritten, Needed
  <2>3. Disjoint(Region(r), Buffer) /\ Disjoint(Region(r), Target("stage4"))
    BY <1>1, TransferSpares, LoadSpares
  <2> QED BY <1>1, <2>2, <2>3, CopyBytesKeeps
<1>3. wrong' = {} => Needed' \subseteq present'
  BY <1>1, <1>2, CopyBytesOutcome DEF Needed
<1>4. pc' \in Bits32
  BY <1>1, CopyBytesOutcome
<1> QED BY <1>1, <1>3, <1>4, CopyBytesOutcome, LoadsControl, LateMemory DEF IInv

LEMMA LoadStage5Memory == ASSUME IInv, LoadStage5 PROVE IInv'
<1>1. /\ pc = "load_stage5" /\ size \in Sizes
      /\ CopyBytes("stage5", "reset_bss")
  BY DEF LoadStage5, IInv, Control, TypeOK
<1> DEFINE Others == {"shared", "stack", "gdt", "idt", "loader_protected", "stage4"}
<1>2. wrong' = {} => Others \subseteq present'
  <2>1. SUFFICES ASSUME wrong' = {}, NEW r \in Others PROVE r \in present'
    OBVIOUS
  <2>2. r \in present
    BY <1>1, <2>1, CopyBytesOutcome DEF IInv, NothingNeededIsOverwritten, Needed
  <2>3. Disjoint(Region(r), Buffer) /\ Disjoint(Region(r), Target("stage5"))
    BY <1>1, TransferSpares, LoadSpares
  <2> QED BY <1>1, <2>2, <2>3, CopyBytesKeeps
<1>3. wrong' = {} => Needed' \subseteq present'
  BY <1>1, <1>2, CopyBytesOutcome DEF Needed
<1>4. pc' \in Bits32
  BY <1>1, CopyBytesOutcome
<1> QED BY <1>1, <1>3, <1>4, CopyBytesOutcome, LoadsControl, LateMemory DEF IInv

(* While nothing has gone wrong the code of every place is in memory.      *)
LEMMA LostMemory == ASSUME IInv, Lost PROVE IInv'
<1>1. /\ pc' = "lost" /\ ~(Code(pc) \subseteq present) /\ UNCHANGED wrong
  BY DEF Lost
<1>2. Code(pc) \subseteq Needed
  BY DEF Code, Needed
<1>3. wrong' # {}
  BY <1>1, <1>2 DEF IInv, NothingNeededIsOverwritten
<1>4. PropsOK' /\ TableOK'
  BY <1>1 DEF PropsOK, TableOK, TableWritten
<1> QED BY <1>3, <1>4, LostControl DEF IInv, NothingNeededIsOverwritten

LEMMA StutterMemory == ASSUME IInv, UNCHANGED vars PROVE IInv'
<1>1. UNCHANGED <<size, disk, pc, loading, tries, present, max_head_number,
                  max_sector_number, gdt, seg_cs, seg_ds, cs, ds, pe, lm, wrong>>
  BY DEF vars
<1>2. PropsOK' /\ TableOK' /\ NothingNeededIsOverwritten'
  BY <1>1 DEF IInv, PropsOK, TableOK, TableWritten, HeadsOf, TableFollows,
     NothingNeededIsOverwritten, Needed
<1> QED BY <1>2, ControlStep DEF IInv

LEMMA MemoryStep == ASSUME IInv, [Next]_vars PROVE IInv'
  BY MainAsmMemory, CopyKernelMemory, ReadSucceedsMemory, ReadFailsMemory, GdtSetupMemory,
     DiskPropsMemory, JumpMemory, Stage3LoadMemory, CopyStage4Memory, LoadStage4Memory,
     LoadStage5Memory, ResetBssMemory, LostMemory, StutterMemory DEF Next

(* The inductive invariant of the chain of stages.                         *)
THEOREM Invariance == Spec => []IInv
<1>1. Init => IInv
  BY InitControl, InitMemory DEF IInv
<1>2. IInv /\ [Next]_vars => IInv'
  BY MemoryStep
<1> QED BY <1>1, <1>2, PTL DEF Spec

(* Every variable keeps its type.                                          *)
THEOREM TypeCorrectness == Spec => []TypeOK
<1>1. Control => TypeOK
  BY DEF Control
<1> QED BY <1>1, ControlInvariance, PTL

(* No stage loads, clears or transfers anything over what is needed after  *)
(* it, for every layout stage 1 can address, on every disk.                *)
THEOREM NothingOverwritten == Spec => []NothingNeededIsOverwritten
<1>1. IInv => NothingNeededIsOverwritten
  BY DEF IInv
<1> QED BY <1>1, Invariance, PTL

(* Stage 1 asks the BIOS for the sectors it is meant to load, with and     *)
(* without knowing the disk's properties.                                  *)
THEOREM RightSectors == Spec => []ReadsNameTheirSectors
<1>1. IInv => ReadsNameTheirSectors
  <2>1. SUFFICES ASSUME IInv, pc = "int13", wrong \intersect {"memory", "props"} = {}
                 PROVE LET a == Chs(Index(loading))
                       IN  OnDisk(a) /\ LbaOf(a) = FirstSectionIndex(size, loading)
    BY DEF ReadsNameTheirSectors
  <2> QED BY <2>1, ReadsNamed DEF IInv
<1> QED BY <1>1, Invariance, PTL

(* Each stage runs in the mode of the processor it is compiled for; stage  *)
(* 1 divides by zero only if memory made it, stage 3 only on a disk whose  *)
(* heads do not fit a byte or whose properties were not told.              *)
THEOREM Modes == Spec => []RunsInItsMode
<1>1. ASSUME IInv PROVE RunsInItsMode
  <2>1. Control
    BY <1>1 DEF IInv
  <2>2. pc = "fault" => "memory" \in wrong
    BY <2>1 DEF Control, DivisorOK
  <2>3. ASSUME pc = "panic", "props" \notin wrong PROVE HeadsOf = 0
    <3>1. loading = "stage3" /\ disk \in Disks
      BY <2>1, <2>3 DEF Control, LoadingOK, TypeOK
    <3>2. max_head_number = HeadsOf /\ max_sector_number = disk.sectors
      BY <1>1, <2>3, <3>1 DEF IInv, PropsOK, TableWritten
    <3>3. HeadsOf * disk.sectors = 0
      BY <2>1, <2>3, <3>2 DEF Control, DivisorOK, Divisor
    <3>4. HeadsOf \in Nat /\ disk.sectors \in Nat \ {0}
      BY <3>1, DiskType
    <3> QED BY <3>3, <3>4, Product
  <2>4. ASSUME pc = "stage5_load" PROVE CompiledFor = RunsIn
    <3>1. pe /\ lm /\ cs = 3 /\ \E bit \in {0, 1} : gdt = TableWith(bit)
      BY <2>1, <2>4 DEF Control, CpuOK, SelectorsOK, TableWritten, LoadingOK
    <3> QED BY <2>4, <3>1, TableModes DEF CompiledFor, RunsIn
  <2>5. ASSUME pc \in Bits32 PROVE CompiledFor = RunsIn
    <3>1. pe /\ cs = 1 /\ \E bit \in {0, 1} : gdt = TableWith(bit)
      BY <2>1, <2>5 DEF Control, CpuOK, SelectorsOK, TableWritten, LoadingOK
    <3> QED BY <2>5, <3>1, TableModes DEF CompiledFor, RunsIn
  <2>6. ASSUME pc \notin Bits32 \union {"stage5_load", "fault", "lost"}
        PROVE  CompiledFor = RunsIn
    <3>1. cs = 0
      BY <2>1, <2>6 DEF Control, CpuOK
    <3> QED BY <2>6, <3>1 DEF CompiledFor, RunsIn
  <2> QED BY <2>2, <2>3, <2>4, <2>5, <2>6 DEF RunsInItsMode
<1> QED BY <1>1, Invariance, PTL

(* A table begun as zeros makes every segment cover the address space.     *)
LEMMA FlatTable == \A i \in 1..3 : Flat(TableWith(0)[i])
<1> DEFINE flat == SegmentCreate(<<0, 0>>, AllOnes, 0)
<1>1. /\ BaseOf(flat) = <<0, 0>> /\ LimitOf(flat) = AllOnes
      /\ flat.direction_conforming = 0
  BY DescriptorDecodes DEF AllOnes, Half, SegmentCreate
<1>2. \A d : /\ d.base_address_1 = flat.base_address_1
             /\ d.base_address_2 = flat.base_address_2
             /\ d.base_address_3 = flat.base_address_3
             /\ d.seg_limit_1 = flat.seg_limit_1 /\ d.seg_limit_2 = flat.seg_limit_2
             /\ d.granularity = flat.granularity
             /\ d.direction_conforming = 0
             => Flat(d)
  BY <1>1 DEF Flat, BaseOf, LimitOf, Raw
<1>3. Flat(flat)
  BY <1>1, <1>2
<1>4. Flat([flat EXCEPT !.code_sel = 1])
  BY <1>1, <1>2 DEF SegmentCreate
<1>5. Flat(LongCode(flat))
  <2> DEFINE long == LongCode(flat)
  <2>1. /\ long.base_address_1 = flat.base_address_1
        /\ long.base_address_2 = flat.base_address_2
        /\ long.base_address_3 = flat.base_address_3
        /\ long.seg_limit_1 = flat.seg_limit_1 /\ long.seg_limit_2 = flat.seg_limit_2
    BY DEF SegmentCreate, LongCode
  <2>2. long.granularity = flat.granularity
        /\ long.direction_conforming = flat.direction_conforming
    BY DEF SegmentCreate, LongCode
  <2> HIDE DEF flat, long
  <2>3. Flat(long)
    BY <2>1, <2>2, <1>1, <1>2
  <2> QED BY <2>3 DEF long
<1>6. TableWith(0) = <<[flat EXCEPT !.code_sel = 1], flat, LongCode(flat)>>
  BY DEF TableWith
<1> HIDE DEF flat
<1> QED BY <1>3, <1>4, <1>5, <1>6

(* The segments stage 3 and its successors run with cover the whole        *)
(* address space, upwards, when the shared part's last sector clears the   *)
(* memory of the table.                                                    *)
THEOREM FlatSegments == Spec => []SegmentsAreFlat
<1>1. IInv => SegmentsAreFlat
  <2>1. SUFFICES ASSUME IInv, pe, wrong = {}, TableFollows
                 PROVE Flat(gdt[2]) /\ (cs # 0 => Flat(gdt[cs]))
    BY DEF SegmentsAreFlat
  <2>2. TableWritten /\ cs \in {0, 1, 3}
    <3>1. pc # "lost"
      BY <2>1 DEF IInv, NothingNeededIsOverwritten
    <3> QED BY <2>1, <3>1 DEF IInv, Control, CpuOK, TableWritten
  <2>3. gdt = TableWith(0)
    BY <2>1, <2>2 DEF IInv, TableOK
  <2> QED BY <2>2, <2>3, FlatTable
<1> QED BY <1>1, Invariance, PTL
=============================================================================
