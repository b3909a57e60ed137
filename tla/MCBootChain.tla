---------------------------- MODULE MCBootChain ----------------------------
(* Instances of BootChain for TLC.                                         *)
EXTENDS BootChain

(* The sizes of the built image.                                           *)
Built == [p \in Parts |->
            CASE p = "shared" -> 1138 [] p = "shared_bss" -> 5440
              [] p = "stage2" -> 8628 [] p = "stage3" -> 12312 [] p = "stage3_bss" -> 5
              [] p = "stage4" -> 2040 [] p = "stage5" -> 2368 [] p = "stage4_bss" -> 16385
              [] p = "loader_protected" -> 1528]

(* And some around it: a shared part that ends right at, right after and   *)
(* right before a sector, the largest loader the script accepts, stages    *)
(* longer than those they overlay, and stages 4 and 5 that end a page.     *)
Layouts == {[Built EXCEPT !["shared"] = s, !["loader_protected"] = l,
                          !["stage3"] = t, !["stage4"] = f, !["stage5"] = v] :
              s \in {1138, 1025, 1535, 1536}, l \in {1528, 3583},
              t \in {12312, 8192}, f \in {2040, 16000}, v \in {2368, 4096}}

(* A floppy disk, and a hard disk whose 256 heads do not fit a byte.       *)
Geometries == {[heads |-> 2, sectors |-> 18], [heads |-> 256, sectors |-> 63]}
=============================================================================
