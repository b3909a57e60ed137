-------------------------------- MODULE Gdt --------------------------------
(***************************************************************************)
(* The segment descriptors of stage2/gdt.c, and what the processor makes   *)
(* of one.  A 32-bit value is its two halves <<high, low>>; TLC's integers *)
(* are too short for it.                                                   *)
(***************************************************************************)
EXTENDS Naturals

Half  == 65536

(* limit >>= 12, or the limit itself when it is not above 0xFFFF.          *)
Granularity(limit) == IF limit[1] > 0 THEN 1 ELSE 0
Stored(limit) == IF limit[1] > 0 THEN (limit[1] * 16) + (limit[2] \div 4096) ELSE limit[2]

(* gdt_segment_create.  direction_conforming is not assigned: it keeps     *)
(* what memory holds.                                                      *)
SegmentCreate(base, limit, memory) ==
    [seg_limit_1 |-> Stored(limit) % Half, seg_limit_2 |-> (Stored(limit) \div Half) % 16,
     base_address_1 |-> base[2],
     base_address_2 |-> base[1] % 256, base_address_3 |-> base[1] \div 256,
     granularity |-> Granularity(limit),
     segment_present |-> 1, mode_64_bit |-> 0, op_size |-> 1, code_sel |-> 0,
     direction_conforming |-> memory]

(* The base and the last offset of a segment, as the processor decodes     *)
(* them: in units of 4096 bytes, all of the last one, or in bytes.         *)
BaseOf(d) == <<d.base_address_2 + (256 * d.base_address_3), d.base_address_1>>

Raw(d) == (d.seg_limit_2 * Half) + d.seg_limit_1
LimitOf(d) == IF d.granularity = 1
                THEN <<Raw(d) \div 16, ((Raw(d) % 16) * 4096) + 4095>>
                ELSE <<d.seg_limit_2, d.seg_limit_1>>

AllOnes == <<Half - 1, Half - 1>>

(* The whole address space, from 0 to 0xFFFFFFFF.                          *)
Flat(d) == /\ BaseOf(d) = <<0, 0>> /\ LimitOf(d) = AllOnes
           /\ d.code_sel = 0 => d.direction_conforming = 0
=============================================================================
