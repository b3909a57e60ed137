------------------------------- MODULE Layout -------------------------------
(***************************************************************************)
(* Where the linker script puts the parts of the boot loader, on the disk  *)
(* image and in memory, for given sizes of the parts.  Parts that are      *)
(* never needed together share memory: stages 2, 3 and 4 are linked at the *)
(* same address, _content_start, and the loader of stages 4 and 5 lies     *)
(* below them, over stage 1.                                               *)
(*                                                                         *)
(* A layout is a function size from the parts to their sizes in bytes;     *)
(* "shared" is the section .data_shared.load.                              *)
(***************************************************************************)
EXTENDS Naturals

Parts   == {"shared", "shared_bss", "stage2", "stage3", "stage3_bss", "stage4", "stage5",
            "stage4_bss", "loader_protected"}

Block      == 512
Page       == 4096
Stage1At   == 31744   \* 0x7C00
SharedAt   == 32256   \* 0x7E00
LoaderAt   == 28672   \* 0x7000, and the top of the stack
LoaderSize == 3584    \* the size the script's ASSERT keeps .loader_protected below

Align(a, n) == ((a + (n - 1)) \div n) * n

(* Sections of the shared objects are aligned to 32 bytes by the compiler, *)
(* and so is that of stage 5.                                              *)
SharedBssAt(size) == Align(SharedAt + size["shared"], 32)
SharedEnd(size)   == SharedBssAt(size) + size["shared_bss"]
ContentStart(size) == Align(SharedEnd(size), Block)

Stage5At(size)    == Align(ContentStart(size) + size["stage4"], 32)
Stage4BssAt(size) == Align(Stage5At(size) + size["stage5"], Page)

(* Memory the part's own bytes occupy, and its end.                        *)
Start(size, part) ==
    CASE part = "shared"           -> SharedAt
      [] part = "shared_bss"       -> SharedBssAt(size)
      [] part \in {"stage2", "stage3", "stage4"} -> ContentStart(size)
      [] part = "stage3_bss"       -> ContentStart(size) + size["stage3"]
      [] part = "stage5"           -> Stage5At(size)
      [] part = "stage4_bss"       -> Stage4BssAt(size)
      [] part = "loader_protected" -> LoaderAt

End(size, part) == Start(size, part) + size[part]

(* Place on the disk image: each part starts a new sector after the one    *)
(* before it; the image starts at 0x7C00 with stage 1.                     *)
LoadAddr(size, part) ==
    LET after(a, p) == Align(a + size[p], Block)
        stage2 == Align(SharedEnd(size), Block)
        stage3 == after(stage2, "stage2")
        stage4 == after(stage3, "stage3")
        stage5 == after(stage4, "stage4")
    IN  CASE part = "shared" -> SharedAt
          [] part = "stage2" -> stage2
          [] part = "stage3" -> stage3
          [] part = "stage4" -> stage4
          [] part = "stage5" -> stage5
          [] part = "loader_protected" -> after(stage5, "stage5")

FirstSectionIndex(size, part) == (LoadAddr(size, part) - Stage1At) \div Block
LoadCount(size, part)         == (511 + size[part]) \div Block

(* Intervals of memory, [first, beyond first).                             *)
Disjoint(a, b) == a[2] <= b[1] \/ b[2] <= a[1] \/ a[1] = a[2] \/ b[1] = b[2]
=============================================================================
