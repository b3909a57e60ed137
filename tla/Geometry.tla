------------------------------ MODULE Geometry ------------------------------
(***************************************************************************)
(* How the loaders turn a sector index of the boot image into a position   *)
(* on the floppy disk (cylinder, head, sector), and which sector of the    *)
(* medium such a position names.  shared/floppy_read.h computes it for the *)
(* floppy controller, stage1/boot.c for the BIOS.                          *)
(***************************************************************************)
EXTENDS Integers

CONSTANTS Heads,      \* max_head_number
          Sectors     \* max_sector_number, the sectors of one track

ASSUME GeometryAssumption ==
         /\ Heads \in Nat \ {0}
         /\ Sectors \in Nat \ {0}

CylinderOf(lba) == lba \div (Heads * Sectors)
HeadOf(lba)     == (lba \div Sectors) % Heads
SectorOf(lba)   == (lba % Sectors) + 1

(* The place the medium stores the sector found at a given position: the   *)
(* tracks of a cylinder follow one another, sectors count from 1.          *)
PhysicalLba(c, h, s) == (c * Heads + h) * Sectors + (s - 1)
=============================================================================
