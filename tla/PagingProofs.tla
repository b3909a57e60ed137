---------------------------- MODULE PagingProofs ----------------------------
(***************************************************************************)
(* Proofs about module Paging: the invariant IInv is inductive, and at     *)
(* the place where paging is enabled it determines the three tables, from  *)
(* which the walk of every address follows.                                *)
(***************************************************************************)
EXTENDS Paging, TLAPS

(* Every entry setup_paging writes is an entry.                            *)
LEMMA EntryTypes ==
  ASSUME NEW page \in Nat
  PROVE  /\ SetAddr(page) \in Entry /\ Link(page) \in Entry /\ Huge(page) \in Entry
         /\ Zero \in Entry
  BY DEF SetAddr, Link, Huge, Zero, Entry

(* Junk is made of entries.                                                *)
LEMMA JunkTypes == Junk \subseteq Entry
  BY PagingAssumption DEF Entry

(* Before the loader clears the tables nothing is known but their types.   *)
LEMMA InitInvariant == Init => IInv
<1> SUFFICES ASSUME Init PROVE IInv
  OBVIOUS
<1>1. TypeOK
  <2>1. PICK junk \in Junk : pml4 = [j \in Slots |-> junk] /\ pdp = pml4 /\ pd = pml4
    BY DEF Init
  <2>2. junk \in Entry
    BY <2>1, JunkTypes
  <2>3. pml4 \in [Slots -> Entry] /\ pdp \in [Slots -> Entry] /\ pd \in [Slots -> Entry]
    BY <2>1, <2>2
  <2>4. i \in 0..512 /\ cr3 \in {0, Pml4At}
    BY DEF Init
  <2>5. pae \in BOOLEAN /\ lme \in BOOLEAN /\ pg \in BOOLEAN
    BY DEF Init
  <2>6. pc \in {"reset_bss", "pml4", "pdp", "pd", "cr4", "msr", "cr0", "done"}
    BY DEF Init
  <2> QED BY <2>3, <2>4, <2>5, <2>6 DEF TypeOK
<1>2. TablesOK
  BY DEF Init, TablesOK, AfterReset, AfterPml4, AfterPdp, AfterPd
<1>3. RegsOK
  BY DEF Init, RegsOK, AfterPd
<1> QED BY <1>1, <1>2, <1>3 DEF IInv

-----------------------------------------------------------------------------
(* reset_bss clears the three tables: the loop has filled nothing yet.     *)
LEMMA ResetBssStep == ASSUME IInv, ResetBss PROVE IInv'
<1>0. TypeOK /\ TablesOK /\ RegsOK
  BY DEF IInv
<1>1. TypeOK'
  BY <1>0, EntryTypes DEF TypeOK, ResetBss, Cleared, regs
<1>2. TablesOK'
  <2>1. i = 0 /\ i' = 0
    BY <1>0 DEF TablesOK, AfterPdp, ResetBss
  <2>2. Filled' = Cleared
    BY <2>1 DEF Filled, Cleared, Slots
  <2> QED
    BY <2>1, <2>2 DEF TablesOK, ResetBss, Cleared, AfterReset, AfterPml4, AfterPdp, AfterPd
<1>3. RegsOK'
  BY <1>0 DEF RegsOK, ResetBss, regs, AfterPd
<1> QED BY <1>1, <1>2, <1>3 DEF IInv

(* The first entry of pml4 is linked to pdp.                               *)
LEMMA LinkPdpStep == ASSUME IInv, LinkPdp PROVE IInv'
<1>0. TypeOK /\ TablesOK /\ RegsOK
  BY DEF IInv
<1>1. TypeOK'
  <2>1. Link(PdpAt) \in Entry
    BY EntryTypes, PagingAssumption
  <2> QED BY <2>1, <1>0 DEF TypeOK, LinkPdp, regs
<1>2. TablesOK'
  <2>1. pml4 = Cleared /\ pdp = Cleared /\ pd = Filled /\ i = 0
    BY <1>0 DEF TablesOK, LinkPdp, AfterReset, AfterPml4, AfterPdp
  <2>2. pml4' = Linked(PdpAt)'
    BY <2>1 DEF LinkPdp, Linked, Cleared, Slots
  <2>3. pdp' = Cleared' /\ pd' = Filled'
    BY <2>1 DEF LinkPdp, Cleared, Filled
  <2> QED
    BY <2>1, <2>2, <2>3 DEF TablesOK, LinkPdp, AfterReset, AfterPml4, AfterPdp, AfterPd
<1>3. RegsOK'
  BY <1>0 DEF RegsOK, LinkPdp, regs, AfterPd
<1> QED BY <1>1, <1>2, <1>3 DEF IInv

(* The first entry of pdp is linked to pd.                                 *)
LEMMA LinkPdStep == ASSUME IInv, LinkPd PROVE IInv'
<1>0. TypeOK /\ TablesOK /\ RegsOK
  BY DEF IInv
<1>1. TypeOK'
  <2>1. Link(PdAt) \in Entry
    BY EntryTypes, PagingAssumption
  <2> QED BY <2>1, <1>0 DEF TypeOK, LinkPd, regs
<1>2. TablesOK'
  <2>1. pml4 = Linked(PdpAt) /\ pdp = Cleared /\ pd = Filled /\ i = 0
    BY <1>0 DEF TablesOK, LinkPd, AfterReset, AfterPml4, AfterPdp
  <2>2. pdp' = Linked(PdAt)'
    BY <2>1 DEF LinkPd, Linked, Cleared, Slots
  <2>3. pml4' = Linked(PdpAt)' /\ pd' = Filled'
    BY <2>1 DEF LinkPd, Linked, Filled
  <2> QED
    BY <2>1, <2>2, <2>3 DEF TablesOK, LinkPd, AfterReset, AfterPml4, AfterPdp, AfterPd
<1>3. RegsOK'
  BY <1>0 DEF RegsOK, LinkPd, regs, AfterPd
<1> QED BY <1>1, <1>2, <1>3 DEF IInv

(* The loop fills one more entry of pd.                                    *)
LEMMA FillPdStep == ASSUME IInv, FillPd PROVE IInv'
<1>0. TypeOK /\ TablesOK /\ RegsOK
  BY DEF IInv
<1>1. i \in 0..511 /\ i' = i + 1 /\ pc = "pd" /\ pc' = "pd"
  BY <1>0 DEF TypeOK, FillPd, More
<1>2. Huge(512 * i) \in Entry
  BY <1>1, EntryTypes
<1>3. TypeOK'
  <2>1. pd' \in [Slots -> Entry]
    BY <1>0, <1>2 DEF TypeOK, FillPd
  <2>2. i' \in 0..512
    BY <1>1
  <2> QED BY <1>0, <1>1, <2>1, <2>2 DEF TypeOK, FillPd, regs
<1>4. TablesOK'
  <2>1. pml4' = Linked(PdpAt)' /\ pdp' = Linked(PdAt)'
    BY <1>0, <1>1 DEF TablesOK, FillPd, AfterReset, AfterPml4, AfterPdp, Linked
  <2>2. pd = Filled
    BY <1>0, <1>1 DEF TablesOK, AfterReset
  <2>3. pd' = Filled'
    <3>1. ASSUME NEW j \in Slots
          PROVE  pd'[j] = IF j < i + 1 THEN Huge(512 * j) ELSE Zero
      <4>1. CASE j = i
        <5>1. pd'[i] = Huge(512 * i)
          BY <2>2, <4>1 DEF FillPd, Filled
        <5>2. i < i + 1
          BY <1>1
        <5> QED BY <4>1, <5>1, <5>2, Zenon
      <4>2. CASE j # i
        <5>1. pd'[j] = pd[j]
          BY <2>2, <4>2 DEF FillPd, Filled
        <5>2. pd[j] = IF j < i THEN Huge(512 * j) ELSE Zero
          BY <2>2 DEF Filled
        <5>3. j < i + 1 <=> j < i
          BY <1>1, <4>2 DEF Slots
        <5> QED BY <5>1, <5>2, <5>3
      <4> QED BY <4>1, <4>2
    <3>2. pd' = [j \in Slots |-> pd'[j]]
      BY <2>2 DEF FillPd, Filled
    <3> QED BY <1>1, <3>1, <3>2 DEF Filled
  <2> QED
    BY <1>1, <2>1, <2>3 DEF TablesOK, AfterReset, AfterPml4, AfterPdp, AfterPd
<1>5. RegsOK'
  BY <1>0 DEF RegsOK, FillPd, regs, AfterPd
<1> QED BY <1>3, <1>4, <1>5 DEF IInv

(* The registers are set when the loop is over: the tables stay as filled. *)
LEMMA RegistersStep ==
  ASSUME IInv, SetCr3 \/ SetPae \/ SetLme \/ EnablePaging PROVE IInv'
<1>0. TypeOK /\ TablesOK /\ RegsOK
  BY DEF IInv
<1>1. UNCHANGED <<i, tables>>
  BY DEF SetCr3, SetPae, SetLme, EnablePaging
<1>2. i = 512
  BY <1>0 DEF TypeOK, TablesOK, AfterPd, SetCr3, SetPae, SetLme, EnablePaging, More
<1>3. TypeOK'
  BY <1>0, <1>1 DEF TypeOK, tables, SetCr3, SetPae, SetLme, EnablePaging
<1>4. TablesOK'
  <2>1. pml4 = Linked(PdpAt) /\ pdp = Linked(PdAt) /\ pd = Filled
    BY <1>0 DEF TablesOK, AfterReset, AfterPml4, AfterPdp, SetCr3, SetPae, SetLme, EnablePaging
  <2>2. pml4' = Linked(PdpAt)' /\ pdp' = Linked(PdAt)' /\ pd' = Filled'
    BY <1>1, <2>1 DEF tables, Linked, Filled
  <2>3. AfterPdp' /\ AfterPml4'
    BY DEF AfterPdp, AfterPml4, SetCr3, SetPae, SetLme, EnablePaging
  <2> QED BY <1>1, <1>2, <2>2, <2>3 DEF TablesOK
<1>5. RegsOK'
  BY <1>0 DEF RegsOK, AfterPd, SetCr3, SetPae, SetLme, EnablePaging
<1> QED BY <1>3, <1>4, <1>5 DEF IInv

-----------------------------------------------------------------------------
(* Every step keeps the invariant.                                         *)
LEMMA NextInvariant == IInv /\ [Next]_vars => IInv'
<1> SUFFICES ASSUME IInv, [Next]_vars PROVE IInv'
  OBVIOUS
<1>1. CASE ResetBss
  BY <1>1, ResetBssStep
<1>2. CASE LinkPdp
  BY <1>2, LinkPdpStep
<1>3. CASE LinkPd
  BY <1>3, LinkPdStep
<1>4. CASE FillPd
  BY <1>4, FillPdStep
<1>5. CASE SetCr3 \/ SetPae \/ SetLme \/ EnablePaging
  BY <1>5, RegistersStep
<1>6. CASE UNCHANGED vars
  BY <1>6 DEF vars, IInv, TypeOK, TablesOK, RegsOK, Filled, Linked, Cleared, AfterReset,
              AfterPml4, AfterPdp, AfterPd
<1> QED BY <1>1, <1>2, <1>3, <1>4, <1>5, <1>6 DEF Next

(* The tables and registers of stage 4 satisfy the inductive invariant in  *)
(* every state, wherever the tables lie and whatever memory held before.   *)
THEOREM Invariance == Spec => []IInv
<1>1. IInv /\ [Next]_vars => IInv'
  BY NextInvariant
<1> QED BY InitInvariant, <1>1, PTL DEF Spec

(* Every variable keeps its type.                                          *)
THEOREM TypeCorrectness == Spec => []TypeOK
<1>1. IInv => TypeOK
  BY DEF IInv
<1> QED BY Invariance, <1>1, PTL

-----------------------------------------------------------------------------
(* With paging on, the tables are complete.                                *)
LEMMA WhenEnabled ==
  ASSUME IInv, pg
  PROVE  /\ pml4 = Linked(PdpAt) /\ pdp = Linked(PdAt)
         /\ pd = [j \in Slots |-> Huge(512 * j)]
         /\ cr3 = Pml4At /\ LongMode
<1>1. pc = "done"
  BY DEF IInv, RegsOK
<1>2. i = 512 /\ pd = Filled
  BY <1>1 DEF IInv, TablesOK, AfterPd, AfterReset
<1>3. pd = [j \in Slots |-> Huge(512 * j)]
  BY <1>2 DEF Filled, Slots
<1>4. pml4 = Linked(PdpAt) /\ pdp = Linked(PdAt)
  BY <1>1 DEF IInv, TablesOK, AfterReset, AfterPml4, AfterPdp
<1>5. cr3 = Pml4At /\ LongMode
  BY <1>1 DEF IInv, RegsOK, AfterPd, LongMode
<1> QED BY <1>3, <1>4, <1>5

(* Whatever the pages, below 1 GiB the walk leads to the same address.     *)
THEOREM Identity == Spec => []IdentityMapped
<1>1. IInv => IdentityMapped
  <2> SUFFICES ASSUME IInv, pg,
                      NEW v \in Pages, BelowGiB(v)
               PROVE  LongMode /\ Walk(v) = Page(v)
    BY WhenEnabled DEF IdentityMapped
  <2>1. v[1] = 0 /\ v[2] = 0 /\ v[3] \in Slots /\ v[4] \in Slots
    BY PagingAssumption DEF Pages, BelowGiB, Slots
  <2>2. pml4[v[1]] = Link(PdpAt) /\ pdp[v[2]] = Link(PdAt)
    <3>1. \A page : Linked(page)[0] = Link(page)
      BY DEF Linked, Slots
    <3> QED BY <2>1, <3>1, WhenEnabled
  <2>3. pd[v[3]] = Huge(512 * v[3])
    BY <2>1, WhenEnabled
  <2>4. Walk(v) = (512 * v[3]) + v[4]
    BY <2>1, <2>2, <2>3, WhenEnabled DEF Walk, Link, Huge, SetAddr
  <2> QED BY <2>4, WhenEnabled DEF Page
<1> QED BY Invariance, <1>1, PTL

(* And every other address faults.                                         *)
THEOREM NothingElse == Spec => []NothingElseMapped
<1>1. IInv => NothingElseMapped
  <2> SUFFICES ASSUME IInv, pg,
                      NEW v \in Pages, ~BelowGiB(v)
               PROVE  Walk(v) = Fault
    BY DEF NothingElseMapped
  <2>1. v[1] \in Slots /\ v[2] \in Slots /\ (v[1] # 0 \/ v[2] # 0)
    BY PagingAssumption DEF Pages, BelowGiB, Slots
  <2>2. CASE v[1] # 0
    <3>1. pml4[v[1]] = Zero
      BY <2>1, <2>2, WhenEnabled DEF Linked
    <3> QED BY <3>1, WhenEnabled DEF Walk, Zero, SetAddr
  <2>3. CASE v[1] = 0 /\ v[2] # 0
    <3>1. pml4[v[1]] = Link(PdpAt) /\ pdp[v[2]] = Zero
      BY <2>1, <2>3, WhenEnabled DEF Linked
    <3> QED BY <3>1, WhenEnabled DEF Walk, Zero, Link, SetAddr
  <2> QED BY <2>1, <2>2, <2>3
<1> QED BY Invariance, <1>1, PTL
=============================================================================
