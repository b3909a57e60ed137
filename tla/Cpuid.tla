------------------------------- MODULE Cpuid -------------------------------
(***************************************************************************)
(* The three tasks of stage2/cpuid.c: each asks the processor for a leaf,  *)
(* reads the registers through a structure of bit fields and prints which  *)
(* features are there.  A register is the set of its bits that are 1.      *)
(***************************************************************************)
EXTENDS Naturals, Sequences

CONSTANTS Leaf1C, Leaf1D,         \* bits that differ between processors, in
          LeafX1C, LeafX1D,       \* ecx and edx of leaves 1 and 0x80000001
          ApicIds                 \* and numbers a processor may have

VARIABLES
  cpu,                            \* what the processor answers
  task,                           \* the task that is next
  max_cpuid, loc_apic_id, proc_features, cpuid_infos_extra_1c, cpuid_infos_extra_1d,
  printed                         \* features printed with a "Y", and with an "N"

vars == <<cpu, task, max_cpuid, loc_apic_id, proc_features, cpuid_infos_extra_1c,
          cpuid_infos_extra_1d, printed>>

-----------------------------------------------------------------------------
(* The structures of shared/cpuid.h: fields and their widths.              *)

One(names) == [k \in DOMAIN names |-> <<names[k], 1>>]

Pfeatures == One(<<
  "rdrand", "f16c", "avx", "osxsave", "xsave", "aes", "tsc_deadline", "popcnt", "movbe",
  "x2apic", "sse42", "sse41", "dca", "pcid", "_unused", "pdcm", "xtpr", "cmpxchg16b", "fma",
  "sdbg", "cnxt_id", "ssse3", "tm2", "eist", "smx", "vmx", "ds_cpl", "monitor", "dtes64",
  "pclmulqdq", "sse3", "_unused2",
  "pbe", "_unused3", "tm", "htt", "ss", "sse2", "sse", "fxsr", "mmx", "apci", "ds",
  "_unused4", "clfsh", "psn", "pse36", "pat", "cmov", "mca", "pge", "mtrr", "sep", "_unused5",
  "apic", "cx8", "mce", "pae", "msr", "tsc", "pse", "de", "vme", "fpu">>)

ExtraC == << <<"lahf_sahf_available", 1>>, <<"_unused1", 4>>, <<"lzcnt", 1>>,
             <<"_unused2", 2>>, <<"prefetchw", 1>>, <<"_unused3", 23>> >>

ExtraDShort ==
          << <<"_unused1", 11>>, <<"syscall_sysret_64", 1>>, <<"_unused2", 7>>,
             <<"exec_disable_bit", 1>>, <<"_unused3", 5>>, <<"has_1Gbit_pages", 1>>,
             <<"rtdscp_ia32_tsc_aux", 1>>, <<"_unused4", 1>>, <<"arch64_available", 1>>,
             <<"_unused5", 2>> >>
ExtraD == << <<"_unused1", 11>>, <<"syscall_sysret_64", 1>>, <<"_unused2", 8>>,
             <<"exec_disable_bit", 1>>, <<"_unused3", 5>>, <<"has_1Gbit_pages", 1>>,
             <<"rtdscp_ia32_tsc_aux", 1>>, <<"_unused4", 1>>, <<"arch64_available", 1>>,
             <<"_unused5", 2>> >>

(* The compiler places the fields from bit 0 on, one after another.        *)
Offset(struct) ==
    LET at[k \in 1..Len(struct)] == IF k = 1 THEN 0 ELSE at[k - 1] + struct[k - 1][2]
    IN  at

Used(struct) == {k \in DOMAIN struct :
                   struct[k][1] \notin {"_unused", "_unused1", "_unused2", "_unused3",
                                        "_unused4", "_unused5"}}

(* print_state for each field that is used.                                *)
States(struct, reg) == {<<struct[k][1], Offset(struct)[k] \in reg>> : k \in Used(struct)}

-----------------------------------------------------------------------------
Init ==
    /\ \E c1 \in SUBSET Leaf1C, d1 \in SUBSET Leaf1D, cx \in SUBSET LeafX1C,
          dx \in SUBSET LeafX1D, extended \in BOOLEAN, id \in ApicIds :
         cpu = [c1 |-> c1, d1 |-> d1, cx |-> cx, dx |-> dx, extended |-> extended, id |-> id]
    /\ task = "cpuid_0x80000000" /\ max_cpuid = FALSE /\ loc_apic_id = 0
    /\ proc_features = {} /\ cpuid_infos_extra_1c = {} /\ cpuid_infos_extra_1d = {}
    /\ printed = {}

(* max_cpuid only matters in that it reaches 0x80000001 or not.            *)
Cpuid0x80000000 ==
    /\ task = "cpuid_0x80000000"
    /\ max_cpuid' = cpu.extended
    /\ task' = "cpuid_0x80000001"
    /\ UNCHANGED <<cpu, loc_apic_id, proc_features, cpuid_infos_extra_1c,
                   cpuid_infos_extra_1d, printed>>

Cpuid0x80000001 ==
    /\ task = "cpuid_0x80000001"
    /\ IF max_cpuid
         THEN /\ cpuid_infos_extra_1c' = cpu.cx /\ cpuid_infos_extra_1d' = cpu.dx
              /\ printed' = States(ExtraC, cpu.cx) \union States(ExtraD, cpu.dx)
         ELSE UNCHANGED <<cpuid_infos_extra_1c, cpuid_infos_extra_1d, printed>>
    /\ task' = "cpuid_1"
    /\ UNCHANGED <<cpu, max_cpuid, loc_apic_id, proc_features>>

ApicId == cpu.id % 16

(* The structure covers ecx and edx, which follow each other in memory.    *)
Cpuid1 ==
    /\ task = "cpuid_1"
    /\ loc_apic_id' = ApicId
    /\ proc_features' = cpu.c1 \union {32 + b : b \in cpu.d1}
    /\ printed' = printed \union States(Pfeatures, proc_features')
    /\ task' = "done"
    /\ UNCHANGED <<cpu, max_cpuid, cpuid_infos_extra_1c, cpuid_infos_extra_1d>>

Next == Cpuid0x80000000 \/ Cpuid0x80000001 \/ Cpuid1

Spec == Init /\ [][Next]_vars

-----------------------------------------------------------------------------
(* Where the processor's manual has the features, by their names here.     *)

ManualC == <<
  "sse3", "pclmulqdq", "dtes64", "monitor", "ds_cpl", "vmx", "smx", "eist", "tm2", "ssse3",
  "cnxt_id", "sdbg", "fma", "cmpxchg16b", "xtpr", "pdcm", "-", "pcid", "dca", "sse41",
  "sse42", "x2apic", "movbe", "popcnt", "tsc_deadline", "aes", "xsave", "osxsave", "avx",
  "f16c", "rdrand", "-">>

ManualExtra == [lahf_sahf_available |-> <<"cx", 0>>, lzcnt |-> <<"cx", 5>>,
                prefetchw |-> <<"cx", 8>>, syscall_sysret_64 |-> <<"dx", 11>>,
                exec_disable_bit |-> <<"dx", 20>>, has_1Gbit_pages |-> <<"dx", 26>>,
                rtdscp_ia32_tsc_aux |-> <<"dx", 27>>, arch64_available |-> <<"dx", 29>>]

(* Every variable keeps its type.                                          *)
TypeOK ==
    /\ cpu \in [c1 : SUBSET Leaf1C, d1 : SUBSET Leaf1D, cx : SUBSET LeafX1C, dx : SUBSET LeafX1D,
               extended : BOOLEAN, id : ApicIds]
    /\ task \in {"cpuid_0x80000000", "cpuid_0x80000001", "cpuid_1", "done"}
    /\ max_cpuid \in BOOLEAN /\ loc_apic_id \in 0..15
    /\ proc_features \subseteq 0..63
    /\ cpuid_infos_extra_1c \subseteq 0..31 /\ cpuid_infos_extra_1d \subseteq 0..31

(* Of the extended features each is printed as the processor reports it,   *)
(* through the widths of the structures' gaps; none is printed when the    *)
(* processor does not have the leaf.                                       *)
ExtendedReported ==
    task \in {"cpuid_1", "done"} =>
      \A name \in DOMAIN ManualExtra :
        LET bit == ManualExtra[name]
        IN  \A y \in BOOLEAN :
              <<name, y>> \in printed <=> cpu.extended /\ y = (bit[2] \in cpu[bit[1]])

(* The inductive invariant.                                                *)
Reported ==
    /\ task \in {"cpuid_0x80000000", "cpuid_0x80000001"} => printed = {}
    /\ task = "cpuid_0x80000001" => max_cpuid = cpu.extended
    /\ ExtendedReported

(* And so are the features of leaf 1.                                      *)
FeaturesReported ==
    task = "done" =>
      \A b \in 0..31 : ManualC[b + 1] # "-" => <<ManualC[b + 1], b \in cpu.c1>> \in printed
=============================================================================
