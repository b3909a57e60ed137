------------------------------ MODULE MCFloppy ------------------------------
(* Instances of Floppy for TLC, on a disk of 2 heads and 18 sectors.       *)
EXTENDS FloppyInvariant

(* The loader of the built image, which linker.ld places at sector 65; its *)
(* stage 5, at sector 60; and a part that starts with the last sector of   *)
(* cylinder 0, sector 35, and whose last block is not full.                *)
Parts == << [first |-> 65, bytes |-> 1528], [first |-> 60, bytes |-> 2560],
            [first |-> 35, bytes |-> 1000] >>

(* Sectors 34 and 35, then 35 and 36.                                      *)
CylinderEnd == << [first |-> 34, bytes |-> 1024], [first |-> 35, bytes |-> 1000] >>
=============================================================================
