------------------------------- MODULE Paging -------------------------------
(***************************************************************************)
(* The page tables of stage 4: cleared with the bss by the loader, filled  *)
(* by setup_paging, then put to use by the control registers.  A 1 GiB     *)
(* identity mapping in pages of 2 MiB is what stage 5 runs on.             *)
(*                                                                         *)
(* Addresses are numbers of pages of 4 KiB.  The fourth table, pt, is      *)
(* never linked to the others.                                             *)
(***************************************************************************)
EXTENDS Integers

CONSTANTS Pml4At, PdpAt, PdAt,  \* pages of the three tables
          Junk,                 \* entries the tables may hold before
          Indexes               \* those of a table that addresses are made of

ASSUME PagingAssumption ==
         /\ {Pml4At, PdpAt, PdAt} \subseteq Nat
         /\ Pml4At # PdpAt /\ Pml4At # PdAt /\ PdpAt # PdAt
         /\ Indexes \subseteq 0..511
         /\ Junk \subseteq [page : Nat, present : {0, 1}, writable : {0, 1},
                            huge_null : {0, 1}]

VARIABLES
  pc, i,           \* the place in the code, the local of the loop
  pml4, pdp, pd,   \* the tables
  cr3, pae, lme, pg

tables == <<pml4, pdp, pd>>
regs   == <<cr3, pae, lme, pg>>
vars   == <<pc, i, pml4, pdp, pd, cr3, pae, lme, pg>>

Slots == 0..511
Entry == [page : Nat, present : {0, 1}, writable : {0, 1}, huge_null : {0, 1}]

(* set_addr writes all of the entry; the bits are set after it.            *)
SetAddr(page) == [page |-> page, present |-> 0, writable |-> 0, huge_null |-> 0]
Zero          == SetAddr(0)
Link(page)    == [page |-> page, present |-> 1, writable |-> 1, huge_null |-> 0]
HugeUnmarked(page) == Link(page)
Huge(page)    == [page |-> page, present |-> 1, writable |-> 1, huge_null |-> 1]

Init ==
    /\ pc = "reset_bss" /\ i = 0
    /\ \E junk \in Junk : pml4 = [j \in Slots |-> junk] /\ pdp = pml4 /\ pd = pml4
    /\ cr3 = 0 /\ pae = FALSE /\ lme = FALSE /\ pg = FALSE

-----------------------------------------------------------------------------
Uncleared == pml4
Cleared == [j \in Slots |-> Zero]
ResetBss ==
    /\ pc = "reset_bss"
    /\ pml4' = Cleared /\ pdp' = Cleared /\ pd' = Cleared
    /\ pc' = "pml4"
    /\ UNCHANGED <<i, regs>>

LinkPdp ==
    /\ pc = "pml4"
    /\ pml4' = [pml4 EXCEPT ![0] = Link(PdpAt)]
    /\ pc' = "pdp"
    /\ UNCHANGED <<i, pdp, pd, regs>>

LinkPd ==
    /\ pc = "pdp"
    /\ pdp' = [pdp EXCEPT ![0] = Link(PdAt)]
    /\ pc' = "pd"
    /\ UNCHANGED <<i, pml4, pd, regs>>

(* for (int i = 0; i < 512; i++), 0x200000 bytes each                      *)
MoreByOne == i <= 512
More      == i < 512

FillPd ==
    /\ pc = "pd" /\ More
    /\ pd' = [pd EXCEPT ![i] = Huge(512 * i)]
    /\ i' = i + 1
    /\ UNCHANGED <<pc, pml4, pdp, regs>>

SetCr3 ==
    /\ pc = "pd" /\ ~More
    /\ cr3' = Pml4At
    /\ pc' = "cr4"
    /\ UNCHANGED <<i, tables, pae, lme, pg>>

SetPae ==
    /\ pc = "cr4"
    /\ pae' = TRUE
    /\ pc' = "msr"
    /\ UNCHANGED <<i, tables, cr3, lme, pg>>

SetLme ==
    /\ pc = "msr"
    /\ lme' = TRUE
    /\ pc' = "cr0"
    /\ UNCHANGED <<i, tables, cr3, pae, pg>>

EnablePaging ==
    /\ pc = "cr0"
    /\ pg' = TRUE
    /\ pc' = "done"
    /\ UNCHANGED <<i, tables, cr3, pae, lme>>

Next == \/ ResetBss \/ LinkPdp \/ LinkPd \/ FillPd
        \/ SetCr3 \/ SetPae \/ SetLme \/ EnablePaging

Spec == Init /\ [][Next]_vars

-----------------------------------------------------------------------------
(* The processor's walk for a virtual page, which is its four indexes.  A  *)
(* table it is led to that is none of the three is Elsewhere: any memory.  *)

Fault     == -1
Elsewhere == -2

Walk(v) ==
    LET e4 == pml4[v[1]]
        e3 == pdp[v[2]]
        e2 == pd[v[3]]
    IN  IF cr3 # Pml4At THEN Elsewhere
        ELSE IF e4.present = 0 THEN Fault
        ELSE IF e4.page # PdpAt THEN Elsewhere
        ELSE IF e3.present = 0 THEN Fault
        ELSE IF e3.page # PdAt \/ e3.huge_null = 1 THEN Elsewhere
        ELSE IF e2.present = 0 THEN Fault
        ELSE IF e2.huge_null = 0 THEN Elsewhere
        ELSE e2.page + v[4]

(* The page a virtual address below 1 GiB is identical to.                 *)
Page(v) == (512 * v[3]) + v[4]

Pages       == Indexes \X Indexes \X Indexes \X Indexes
BelowGiB(v) == v[1] = 0 /\ v[2] = 0

LongMode == pg /\ pae /\ lme

-----------------------------------------------------------------------------
(* The inductive invariant: which tables are filled at each place, as far  *)
(* as the loop has come, and which registers are set.                      *)

Linked(page) == [j \in Slots |-> IF j = 0 THEN Link(page) ELSE Zero]
Filled       == [j \in Slots |-> IF j < i THEN Huge(512 * j) ELSE Zero]

AfterReset == pc # "reset_bss"
AfterPml4  == pc \notin {"reset_bss", "pml4"}
AfterPdp   == pc \notin {"reset_bss", "pml4", "pdp"}
AfterPd    == pc \notin {"reset_bss", "pml4", "pdp", "pd"}

TablesOK ==
    /\ AfterReset => pml4 = IF AfterPml4 THEN Linked(PdpAt) ELSE Cleared
    /\ AfterReset => pdp = IF AfterPdp THEN Linked(PdAt) ELSE Cleared
    /\ AfterReset => pd = Filled
    /\ ~AfterPdp => i = 0
    /\ AfterPd => i = 512

RegsOK ==
    /\ AfterPd => cr3 = Pml4At
    /\ pc \in {"msr", "cr0", "done"} => pae
    /\ pc \in {"cr0", "done"} => lme
    /\ pg => pc = "done"

-----------------------------------------------------------------------------
(* Every variable keeps its type.                                          *)
TypeOK ==
    /\ pc \in {"reset_bss", "pml4", "pdp", "pd", "cr4", "msr", "cr0", "done"}
    /\ i \in 0..512
    /\ pml4 \in [Slots -> Entry] /\ pdp \in [Slots -> Entry] /\ pd \in [Slots -> Entry]
    /\ cr3 \in {0, Pml4At}
    /\ pae \in BOOLEAN /\ lme \in BOOLEAN /\ pg \in BOOLEAN

(* From the instruction that enables paging on, long mode is active and    *)
(* each address below 1 GiB is itself: the next instruction, the stack,    *)
(* the tables and the screen are where they were.                          *)
IdentityMapped ==
    pg => LongMode /\ \A v \in Pages : BelowGiB(v) => Walk(v) = Page(v)

(* And nothing else is mapped, whatever memory held before: the tables     *)
(* have only the entries setup_paging wrote.                               *)
NothingElseMapped == pg => \A v \in Pages : ~BelowGiB(v) => Walk(v) = Fault

IInv == TypeOK /\ TablesOK /\ RegsOK
=============================================================================
