---------------------------- MODULE FloppyProofs ----------------------------
EXTENDS FloppyInvariant, SequenceTheorems, TLAPS

-----------------------------------------------------------------------------
(* The translation of a sector index to a position on the disk loses       *)
(* nothing: the medium's own numbering leads back to the same sector.      *)

(* Quotient and remainder are determined by their defining property.       *)
LEMMA DivMod == ASSUME NEW a \in Nat, NEW b \in Nat \ {0}
  PROVE /\ a \div b \in Nat /\ a % b \in 0..(b - 1)
        /\ a = b * (a \div b) + (a % b)
  OBVIOUS

LEMMA DivUnique == ASSUME NEW b \in Nat \ {0}, NEW q \in Nat, NEW r \in 0..(b - 1)
  PROVE (b * q + r) \div b = q
  OBVIOUS

LEMMA Products == ASSUME NEW a \in Nat, NEW b \in Nat, NEW c \in Nat
  PROVE /\ a * b \in Nat
        /\ (a * b) * c = a * (b * c) /\ a * b = b * a
        /\ a * (b + c) = a * b + a * c
        /\ (a > 0 /\ b > 0 => a * b > 0)
  OBVIOUS

(* fpy_cmd_seek and fpy_cmd_read_sector get a position whose sector on the *)
(* medium is the one fpy_copy_bytes is at, for every disk geometry.        *)
THEOREM RoundTrip == ASSUME NEW l \in Nat
  PROVE PhysicalLba(CylinderOf(l), HeadOf(l), SectorOf(l)) = l
<1>1. Heads \in Nat \ {0} /\ Sectors \in Nat \ {0}
  BY GeometryAssumption
<1> DEFINE q == l \div Sectors
           r == l % Sectors
           c == q \div Heads
           h == q % Heads
<1>2. q \in Nat /\ r \in 0..(Sectors - 1) /\ l = Sectors * q + r
  BY <1>1, DivMod
<1>3. c \in Nat /\ h \in 0..(Heads - 1) /\ q = Heads * c + h
  BY <1>1, <1>2, DivMod
<1> HIDE DEF q, r, c, h
<1>4. Heads * Sectors \in Nat \ {0}
  BY <1>1, Products
<1>5. l = (Heads * Sectors) * c + (Sectors * h + r)
  BY <1>1, <1>2, <1>3, Products
<1>6. Sectors * h + r \in 0..(Heads * Sectors - 1)
  <2>1. h + 1 <= Heads
    BY <1>1, <1>3
  <2>2. Sectors * (h + 1) <= Sectors * Heads
    BY <1>1, <1>3, <2>1
  <2>3. Sectors * h + Sectors <= Heads * Sectors
    BY <2>2, <1>1, <1>3
  <2> QED BY <1>1, <1>2, <1>3, <1>4, <2>3
<1>7. l \div (Heads * Sectors) = c
  BY <1>3, <1>4, <1>5, <1>6, DivUnique
<1>8. CylinderOf(l) = c /\ HeadOf(l) = h /\ SectorOf(l) = r + 1
  BY <1>7 DEF CylinderOf, HeadOf, SectorOf, q, r, c, h
<1>9. PhysicalLba(c, h, r + 1) = (c * Heads + h) * Sectors + r
  BY <1>1, <1>2, <1>3 DEF PhysicalLba
<1>10. c * Heads + h = q
  BY <1>1, <1>3
<1> QED BY <1>1, <1>2, <1>8, <1>9, <1>10

(* The position names a track of the disk and a sector of that track.      *)
THEOREM OnDisk == ASSUME NEW l \in Nat
  PROVE /\ CylinderOf(l) \in Nat /\ HeadOf(l) \in 0..(Heads - 1)
        /\ SectorOf(l) \in 1..Sectors
<1>1. Heads \in Nat \ {0} /\ Sectors \in Nat \ {0}
  BY GeometryAssumption
<1>2. Heads * Sectors \in Nat \ {0}
  BY <1>1, Products
<1>3. CylinderOf(l) \in Nat
  BY <1>2, DivMod DEF CylinderOf
<1>4. HeadOf(l) \in 0..(Heads - 1)
  BY <1>1, DivMod DEF HeadOf
<1>5. SectorOf(l) \in 1..Sectors
  BY <1>1, DivMod DEF SectorOf
<1> QED BY <1>3, <1>4, <1>5

-----------------------------------------------------------------------------
(* Definitions that only name places in the code are always expanded.      *)
USE DEF Calm, Masked, InRead, InSeek, InRecalibrate, IsrSends, IsrDrains, IsrReads,
        Sending, Reading

(* The tables of the driver and of the boot sequence.                      *)

(* How many bytes each command and its result have.                        *)
LEMMA Sizes ==
    /\ CommandSize["version"] = 1 /\ CommandSize["specify"] = 3
    /\ CommandSize["configure"] = 4 /\ CommandSize["recalibrate"] = 2
    /\ CommandSize["seek"] = 3 /\ CommandSize["read"] = 9 /\ CommandSize["sense"] = 1
    /\ Checked["version"] = 1 /\ Checked["read"] = 3 /\ Checked["sense"] = 1
    /\ ResultSize["version"] = 1 /\ ResultSize["read"] = 7 /\ ResultSize["sense"] = 2
    /\ OfferedSize["version"] = 1 /\ OfferedSize["read"] = 7 /\ OfferedSize["sense"] = 2
    /\ OfferedSize["invalid"] = 1
  BY DEF CommandSize, Checked, ResultSize, OfferedSize

(* Where the driver goes after a command's last byte.                      *)
LEMMA After == ASSUME NEW c \in Commands
  PROVE /\ AfterSend(c) \in {"poll_result", "wait", "drain"}
        /\ AfterDrain(c) \in {"poll_result", "wait", "ok"}
  BY DEF AfterSend, AfterDrain

(* The address of the sector a task is at is made of integers.             *)
LEMMA AddressType == ASSUME ProgTypeOK
  PROVE Address \in [c : Int, h : Int, s : Int, eot : Int]
<1>1. sector \in Nat /\ Sectors \in Nat
  BY GeometryAssumption DEF ProgTypeOK
<1> QED BY <1>1, OnDisk DEF Address

(* The sector a copy's read addresses is the one it is at.                 *)
LEMMA AddressedSector == ASSUME TypeOK PROVE Lba(Address) = sector
<1>1. sector \in Nat
  BY DEF TypeOK, ProgTypeOK
<1> QED BY <1>1, RoundTrip DEF Lba, Address

(* What a read may leave in the transfer buffer.                           *)
LEMMA Stream == ASSUME NEW a \in [c : Int, h : Int, s : Int, eot : Int], NEW i \in 0..2
  PROVE /\ Streamed(a, i) \in Load!HalfSectors
        /\ i < 2 => Streamed(a, i) = Load!HalfSector(Lba(a), i)
<1>1. Heads \in Nat /\ Sectors \in Nat
  BY GeometryAssumption
<1>2. Following(a) \in [c : Int, h : Int, s : Int, eot : Int]
  <2>1. /\ a.c \in Int /\ a.h \in Int /\ a.s \in Int /\ a.eot \in Int
        /\ [a EXCEPT !.s = @ + 1] = [c |-> a.c, h |-> a.h, s |-> a.s + 1, eot |-> a.eot]
    OBVIOUS
  <2> QED BY <2>1, <1>1 DEF Following
<1>3. \A b \in [c : Int, h : Int, s : Int, eot : Int] : Lba(b) \in Int
  BY <1>1 DEF Lba, PhysicalLba
<1>4. \A l \in Int, half \in {0, 1} : Load!HalfSector(l, half) \in Load!HalfSectors
  BY DEF Load!HalfSector, Load!HalfSectors
<1>5. CASE i < 2
  BY <1>3, <1>4, <1>5 DEF Streamed
<1>6. CASE i = 2
  BY <1>2, <1>3, <1>4, <1>6 DEF Streamed
<1> QED BY <1>5, <1>6

(* n half-sectors of the addressed sector arrive at the start of the       *)
(* buffer.                                                                 *)
LEMMA ArriveFacts == ASSUME TypeOK, auto, cursor = 0, NEW n \in 0..3, Arrive(n)
  PROVE /\ DmaTypeOK'
        /\ auto' /\ cursor' = (IF n = 3 THEN 0 ELSE n)
        /\ n >= 2 => \A half \in 0..1 : buf'[half] = Load!HalfSector(Lba(arg), half)
<1>1. /\ arg \in [c : Int, h : Int, s : Int, eot : Int]
      /\ buf \in [0..2 -> Load!HalfSectors] /\ auto \in BOOLEAN
  BY DEF TypeOK, FdcTypeOK, DmaTypeOK, Halves
<1>2. \A i \in 0..2 : i - cursor = i
  OBVIOUS
<1>3. buf' = [i \in 0..2 |-> IF i >= cursor /\ i < cursor + n THEN Streamed(arg, i - cursor) ELSE buf[i]]
  BY DEF Arrive, Halves
<1>4. \A i \in 0..2 : buf'[i] = IF i < n THEN Streamed(arg, i) ELSE buf[i]
  BY <1>2, <1>3
<1>5. buf' \in [0..2 -> Load!HalfSectors]
  BY <1>1, <1>2, <1>3, Stream
<1>6. auto' = auto
  BY DEF Arrive
<1>7. cursor' = (IF n = 3 THEN 0 ELSE n)
  BY DEF Arrive, CursorAfter, Halves
<1>8. n >= 2 => \A half \in 0..1 : buf'[half] = Load!HalfSector(Lba(arg), half)
  BY <1>1, <1>4, Stream
<1>9. DmaTypeOK'
  BY <1>1, <1>5, <1>6, <1>7 DEF DmaTypeOK, Halves
<1> QED BY <1>6, <1>7, <1>8, <1>9

(* Which task has which job.                                               *)
LEMMA JobAt == ASSUME NEW t \in Nat \ {0}
  PROVE /\ (Job(t) = "floppy_init" <=> t = 1)
        /\ (Job(t) = "floppy_dma" <=> t = 2)
        /\ (Job(t) = "floppy_dma_setup_read" <=> t = 3)
        /\ (Job(t) = "floppy_test" <=> t \in {4, 5})
        /\ (Job(t) = "copy" <=> t >= 6)
<1>1. Len(Prologue) = 5
  BY DEF Prologue
<1>2. /\ Prologue[1] = "floppy_init" /\ Prologue[2] = "floppy_dma"
      /\ Prologue[3] = "floppy_dma_setup_read"
      /\ Prologue[4] = "floppy_test" /\ Prologue[5] = "floppy_test"
  BY DEF Prologue
<1>3. CASE t > 5
  BY <1>1, <1>3 DEF Job
<1>4. CASE t <= 5
  <2>1. t \in {1, 2, 3, 4, 5}
    BY <1>4
  <2> QED BY <2>1, <1>1, <1>2, <1>4 DEF Job
<1> QED BY <1>3, <1>4

(* The boot sequence has five tasks before the copies, one copy per request*)
(* and no other task.                                                      *)
LEMMA TaskFacts ==
  /\ LastTask \in Nat \ {0} /\ LastTask = 5 + Len(Requests)
  /\ TypeOK => /\ task \in Nat \ {0}
               /\ pc["main"] # "stopped" => task <= LastTask
<1>1. Len(Prologue) = 5 /\ Len(Requests) \in Nat
  BY DriverAssumption DEF Prologue
<1>2. LastTask \in Nat \ {0} /\ LastTask = 5 + Len(Requests)
  BY <1>1 DEF LastTask
<1> QED BY <1>2 DEF TypeOK, ProgTypeOK

(* Which job issues which command.                                         *)
LEMMA ScriptFacts == ASSUME ScriptOK, pc["main"] \notin {"task", "loop", "stopped"}
  PROVE /\ Job(task) \in {"floppy_init", "floppy_test", "copy"}
        /\ (cmd["main"] = "version" => Job(task) = "floppy_init" /\ step = 1)
        /\ (cmd["main"] = "specify" => Job(task) = "floppy_init" /\ step = 2)
        /\ (cmd["main"] = "configure" => Job(task) = "floppy_init" /\ step = 3)
        /\ (cmd["main"] = "recalibrate" => Job(task) = "floppy_init" /\ step \in {4, 5})
        /\ (cmd["main"] = "seek" => Job(task) = "copy" /\ step = 1)
        /\ (cmd["main"] = "read" => \/ Job(task) = "copy" /\ step = 2
                                    \/ Job(task) = "floppy_test" /\ step = 1)
<1>1. step \in 1..Len(Script(Job(task))) /\ cmd["main"] = Script(Job(task))[step]
  BY DEF ScriptOK
<1>2. CASE Job(task) = "floppy_init"
  <2>1. Script(Job(task)) = <<"version", "specify", "configure", "recalibrate", "recalibrate">>
    BY <1>2 DEF Script
  <2>2. step \in {1, 2, 3, 4, 5}
    BY <1>1, <2>1
  <2> QED BY <1>1, <1>2, <2>1, <2>2
<1>3. CASE Job(task) = "floppy_test"
  <2>1. Script(Job(task)) = <<"read">>
    BY <1>3 DEF Script
  <2>2. step = 1
    BY <1>1, <2>1
  <2> QED BY <1>1, <1>3, <2>1, <2>2
<1>4. CASE Job(task) = "copy"
  <2>1. Script(Job(task)) = <<"seek", "read">>
    BY <1>4 DEF Script
  <2>2. step \in {1, 2}
    BY <1>1, <2>1
  <2> QED BY <1>1, <1>4, <2>1, <2>2
<1>5. CASE Job(task) \notin {"floppy_init", "floppy_test", "copy"}
  <2>1. Script(Job(task)) = << >>
    BY <1>5 DEF Script
  <2> QED BY <1>1, <2>1
<1> QED BY <1>2, <1>3, <1>4, <1>5

(* A copy serves a request that exists.                                    *)
LEMMA ReqFacts == ASSUME TypeOK, Job(task) = "copy", pc["main"] # "stopped"
  PROVE /\ task >= 6 /\ Req \in 1..Len(Requests)
        /\ Requests[Req].first \in Nat /\ Requests[Req].bytes \in Nat
<1>1. task \in Nat \ {0} /\ task <= 5 + Len(Requests) /\ task >= 6
  BY TaskFacts, JobAt
<1>2. Len(Prologue) = 5 /\ Len(Requests) \in Nat
  BY DriverAssumption DEF Prologue
<1>3. Req \in 1..Len(Requests)
  BY <1>1, <1>2 DEF Req
<1>4. Requests \in Seq([first : Nat, bytes : Nat \ {0}])
  BY DriverAssumption
<1>5. Requests[Req] \in [first : Nat, bytes : Nat \ {0}]
  BY <1>3, <1>4, ElementOfSeq
<1> QED BY <1>1, <1>3, <1>5

(* What the start of a command by main changes.                            *)
LEMMA IssueFacts == ASSUME TypeOK, NEW c \in Commands \ {"sense"}, Issue("main", c)
  PROVE /\ ThreadTypeOK'
        /\ pc'["main"] = (IF c = "version" THEN "poll" ELSE "status")
        /\ pc'["isr"] = pc["isr"]
        /\ cmd'["main"] = c
        /\ sent'["main"] = 0 /\ sent'["isr"] = sent["isr"]
        /\ taken'["main"] = 0 /\ taken'["isr"] = taken["isr"]
        /\ handleState' = (IF c = "read" THEN 1 ELSE handleState)
<1>1. /\ pc \in [Threads -> MainLabels \union IsrLabels]
      /\ pc["main"] \in MainLabels /\ pc["isr"] \in IsrLabels
      /\ cmd \in [Threads -> Commands] /\ cmd["main"] # "sense" /\ cmd["isr"] = "sense"
      /\ sent \in [Threads -> Nat] /\ taken \in [Threads -> Nat]
  BY DEF TypeOK, ThreadTypeOK
<1>2. pc' = [pc EXCEPT !["main"] = IF c = "version" THEN "poll" ELSE "status"]
  BY DEF Issue, Goto
<1>3. /\ pc'["main"] = (IF c = "version" THEN "poll" ELSE "status")
      /\ pc'["isr"] = pc["isr"]
      /\ pc' \in [Threads -> MainLabels \union IsrLabels]
      /\ pc'["main"] \in MainLabels /\ pc'["isr"] \in IsrLabels
  BY <1>1, <1>2 DEF Threads, MainLabels, IsrLabels
<1>4. cmd' = [cmd EXCEPT !["main"] = c]
  BY DEF Issue
<1>5. cmd'["main"] = c /\ cmd'["isr"] = "sense" /\ cmd' \in [Threads -> Commands]
  BY <1>1, <1>4 DEF Threads
<1>6. sent' = [sent EXCEPT !["main"] = 0] /\ taken' = [taken EXCEPT !["main"] = 0]
  BY DEF Issue
<1>7. /\ sent'["main"] = 0 /\ sent'["isr"] = sent["isr"] /\ sent' \in [Threads -> Nat]
      /\ taken'["main"] = 0 /\ taken'["isr"] = taken["isr"] /\ taken' \in [Threads -> Nat]
  BY <1>1, <1>6 DEF Threads
<1>8. handleState' = (IF c = "read" THEN 1 ELSE handleState)
  BY DEF Issue, HandleStateFor
<1>9. ThreadTypeOK'
  BY <1>3, <1>5, <1>7 DEF ThreadTypeOK
<1> QED BY <1>3, <1>5, <1>7, <1>8, <1>9

(* What the end of a task changes.                                         *)
LEMMA FinishFacts == ASSUME TypeOK, Finish, UNCHANGED <<step, sector, count, block, cmd, sent, taken>>,
                            pc["main"] # "stopped"
  PROVE /\ ProgTypeOK' /\ ThreadTypeOK'
        /\ task \in Nat \ {0} /\ task' = task + 1 /\ Job(task') # "floppy_init"
        /\ pc'["main"] \in {"task", "stopped"}
        /\ pc'["isr"] = pc["isr"]
<1>1. task \in Nat \ {0} /\ task <= LastTask /\ LastTask \in Nat \ {0}
  BY TaskFacts
<1>2. task' = task + 1 /\ pc' = [pc EXCEPT !["main"] = IF task = LastTask THEN "stopped" ELSE "task"]
  BY DEF Finish, Goto
<1>3. task' \in Nat \ {0} /\ task' # 1 /\ task' \in 1..(LastTask + 1)
  BY <1>1, <1>2
<1>4. Job(task') # "floppy_init"
  BY <1>3, JobAt
<1>5. /\ pc \in [Threads -> MainLabels \union IsrLabels]
      /\ pc["main"] \in MainLabels /\ pc["isr"] \in IsrLabels
  BY DEF TypeOK, ThreadTypeOK
<1>6. /\ pc'["main"] = (IF task = LastTask THEN "stopped" ELSE "task")
      /\ pc'["isr"] = pc["isr"]
      /\ pc' \in [Threads -> MainLabels \union IsrLabels]
      /\ pc'["main"] \in MainLabels /\ pc'["isr"] \in IsrLabels
  BY <1>2, <1>5 DEF Threads, MainLabels, IsrLabels
<1>7. ThreadTypeOK'
  BY <1>6 DEF TypeOK, ThreadTypeOK
<1>8. (pc'["main"] = "stopped") <=> (task' = LastTask + 1)
  BY <1>1, <1>2, <1>6
<1>9. ProgTypeOK'
  BY <1>3, <1>8 DEF TypeOK, ProgTypeOK
<1> QED BY <1>1, <1>2, <1>4, <1>6, <1>7, <1>9
-----------------------------------------------------------------------------

(* The boot sequence looks at the status register before a command: when   *)
(* the check passes, no result is pending and no command has begun.        *)
LEMMA CheckStatusMain == ASSUME IInv, CheckStatus("main") PROVE IInv'
<1>1. /\ pc["main"] = "status"
      /\ pc["isr"] = "idle"
      /\ ~irr
      /\ ~inService
  BY DEF IInv, TypeOK, IrqTypeOK, ThreadTypeOK, ScriptOK, CheckStatus, At, Runs,
     Deliverable
<1>2. sent["main"] = 0 /\ taken["main"] = 0
  BY <1>1 DEF IInv, AnswerOK
<1>3. cmd["main"] \in Commands \ {"sense"}
  BY DEF IInv, TypeOK, ThreadTypeOK, Threads
<1>4. /\ pc'["isr"] = pc["isr"]
      /\ pc'["main"] = IF Ready THEN "spin" ELSE "error"
      /\ pc' \in [Threads -> MainLabels \union IsrLabels]
  BY <1>1 DEF IInv, TypeOK, ThreadTypeOK, CheckStatus, Goto, Threads, MainLabels,
     IsrLabels
<1>5. UNCHANGED <<task, step, sector, count, block, cmd, sent, taken, irqReceived,
                  handleState, waited, rqm, phase, op, got, arg, out, flaw, seeking,
                  senseDue, line, irr, inService, auto, cursor, buf, dest, outcome>>
  BY DEF CheckStatus, prog, flags, fdc, irq, dma, result
<1>6. TypeOK'
  <2>1. FlagsTypeOK' /\ FdcTypeOK' /\ IrqTypeOK' /\ DmaTypeOK' /\ ResultTypeOK'
    BY <1>5 DEF IInv, TypeOK, FlagsTypeOK, FdcTypeOK, IrqTypeOK, DmaTypeOK,
       ResultTypeOK
  <2>2. ProgTypeOK'
    BY <1>1, <1>4, <1>5 DEF IInv, TypeOK, ProgTypeOK, MainLabels, IsrLabels
  <2>3. ThreadTypeOK'
    BY <1>1, <1>4, <1>5 DEF IInv, TypeOK, ThreadTypeOK, MainLabels, IsrLabels
  <2> QED BY <2>1, <2>2, <2>3 DEF TypeOK
<1>7. ChannelOK'
  BY <1>5 DEF IInv, ChannelOK
<1>8. ScriptOK'
  BY <1>1, <1>4, <1>5 DEF IInv, ScriptOK
<1>9. InterruptsOK'
  BY <1>1, <1>4, <1>5 DEF IInv, InterruptsOK, MovingOK, Ready
<1>10. SendingOK'
  BY <1>1, <1>2, <1>3, <1>4, <1>5, Sizes DEF IInv, TypeOK, FdcTypeOK, SendingOK,
     AnswerOK, ReceivingOK, Ready, Commands
<1>11. ReceivingOK'
  BY <1>1, <1>4, <1>5 DEF IInv, ReceivingOK
<1>12. MovingOK'
  BY <1>1, <1>4, <1>5 DEF IInv, MovingOK
<1>13. FlagOK'
  BY <1>1, <1>4, <1>5 DEF IInv, FlagOK
<1>14. AnswerOK'
  BY <1>1, <1>4, <1>5 DEF IInv, AnswerOK
<1>15. UnfinishedOK'
  BY <1>1, <1>4, <1>5 DEF IInv, UnfinishedOK, Ready
<1>16. TransferOK'
  BY <1>1, <1>4, <1>5 DEF IInv, TransferOK, Address, Fetched
<1> QED BY <1>6, <1>7, <1>8, <1>9, <1>10, <1>11, <1>12, <1>13, <1>14, <1>15, <1>16 DEF IInv

(* The boot sequence sees mrq set before a byte.                           *)
LEMMA SpinMain == ASSUME IInv, Spin("main") PROVE IInv'
<1>1. /\ pc["main"] = "spin"
      /\ pc["isr"] = "idle"
      /\ ~irr
      /\ ~inService
      /\ rqm
  BY DEF IInv, TypeOK, IrqTypeOK, ThreadTypeOK, ScriptOK, Spin, At, Runs, Deliverable
<1>2. /\ pc'["isr"] = pc["isr"]
      /\ pc'["main"] = "poll"
      /\ pc' \in [Threads -> MainLabels \union IsrLabels]
  BY <1>1 DEF IInv, TypeOK, ThreadTypeOK, Spin, Goto, Threads, MainLabels, IsrLabels
<1>3. UNCHANGED <<task, step, sector, count, block, cmd, sent, taken, irqReceived,
                  handleState, waited, rqm, phase, op, got, arg, out, flaw, seeking,
                  senseDue, line, irr, inService, auto, cursor, buf, dest, outcome>>
  BY DEF Spin, prog, flags, fdc, irq, dma, result
<1>4. TypeOK'
  <2>1. FlagsTypeOK' /\ FdcTypeOK' /\ IrqTypeOK' /\ DmaTypeOK' /\ ResultTypeOK'
    BY <1>3 DEF IInv, TypeOK, FlagsTypeOK, FdcTypeOK, IrqTypeOK, DmaTypeOK,
       ResultTypeOK
  <2>2. ProgTypeOK'
    BY <1>1, <1>2, <1>3 DEF IInv, TypeOK, ProgTypeOK, MainLabels, IsrLabels
  <2>3. ThreadTypeOK'
    BY <1>1, <1>2, <1>3 DEF IInv, TypeOK, ThreadTypeOK, MainLabels, IsrLabels
  <2> QED BY <2>1, <2>2, <2>3 DEF TypeOK
<1>5. ChannelOK'
  BY <1>3 DEF IInv, ChannelOK
<1>6. ScriptOK'
  BY <1>1, <1>2, <1>3 DEF IInv, ScriptOK
<1>7. InterruptsOK'
  BY <1>1, <1>2, <1>3 DEF IInv, InterruptsOK
<1>8. SendingOK'
  BY <1>1, <1>2, <1>3 DEF IInv, SendingOK
<1>9. ReceivingOK'
  BY <1>1, <1>2, <1>3 DEF IInv, ReceivingOK
<1>10. MovingOK'
  BY <1>1, <1>2, <1>3 DEF IInv, MovingOK
<1>11. FlagOK'
  BY <1>1, <1>2, <1>3 DEF IInv, FlagOK
<1>12. AnswerOK'
  BY <1>1, <1>2, <1>3 DEF IInv, AnswerOK
<1>13. UnfinishedOK'
  BY <1>1, <1>2, <1>3 DEF IInv, UnfinishedOK
<1>14. TransferOK'
  BY <1>1, <1>2, <1>3 DEF IInv, TransferOK, Address, Fetched
<1> QED BY <1>4, <1>5, <1>6, <1>7, <1>8, <1>9, <1>10, <1>11, <1>12, <1>13, <1>14 DEF IInv

(* mrq, once seen, is still set when the byte is about to be written.      *)
LEMMA PollMain == ASSUME IInv, Poll("main") PROVE IInv'
<1>1. /\ pc["main"] = "poll"
      /\ pc["isr"] = "idle"
      /\ ~irr
      /\ ~inService
  BY DEF IInv, TypeOK, IrqTypeOK, ThreadTypeOK, ScriptOK, Poll, At, Runs, Deliverable
<1>2. rqm
  BY <1>1 DEF IInv, SendingOK
<1>3. /\ pc'["isr"] = pc["isr"]
      /\ pc'["main"] = "put"
      /\ pc' \in [Threads -> MainLabels \union IsrLabels]
  BY <1>1, <1>2 DEF IInv, TypeOK, ThreadTypeOK, Poll, Goto, Threads, MainLabels,
     IsrLabels
<1>4. UNCHANGED <<task, step, sector, count, block, cmd, sent, taken, irqReceived,
                  handleState, waited, rqm, phase, op, got, arg, out, flaw, seeking,
                  senseDue, line, irr, inService, auto, cursor, buf, dest, outcome>>
  BY DEF Poll, prog, flags, fdc, irq, dma, result
<1>5. TypeOK'
  <2>1. FlagsTypeOK' /\ FdcTypeOK' /\ IrqTypeOK' /\ DmaTypeOK' /\ ResultTypeOK'
    BY <1>4 DEF IInv, TypeOK, FlagsTypeOK, FdcTypeOK, IrqTypeOK, DmaTypeOK,
       ResultTypeOK
  <2>2. ProgTypeOK'
    BY <1>1, <1>3, <1>4 DEF IInv, TypeOK, ProgTypeOK, MainLabels, IsrLabels
  <2>3. ThreadTypeOK'
    BY <1>1, <1>3, <1>4 DEF IInv, TypeOK, ThreadTypeOK, MainLabels, IsrLabels
  <2> QED BY <2>1, <2>2, <2>3 DEF TypeOK
<1>6. ChannelOK'
  BY <1>4 DEF IInv, ChannelOK
<1>7. ScriptOK'
  BY <1>1, <1>3, <1>4 DEF IInv, ScriptOK
<1>8. InterruptsOK'
  BY <1>1, <1>3, <1>4 DEF IInv, InterruptsOK
<1>9. SendingOK'
  BY <1>1, <1>3, <1>4 DEF IInv, SendingOK
<1>10. ReceivingOK'
  BY <1>1, <1>3, <1>4 DEF IInv, ReceivingOK
<1>11. MovingOK'
  BY <1>1, <1>3, <1>4 DEF IInv, MovingOK
<1>12. FlagOK'
  BY <1>1, <1>3, <1>4 DEF IInv, FlagOK
<1>13. AnswerOK'
  BY <1>1, <1>3, <1>4 DEF IInv, AnswerOK
<1>14. UnfinishedOK'
  BY <1>1, <1>3, <1>4 DEF IInv, UnfinishedOK
<1>15. TransferOK'
  BY <1>1, <1>3, <1>4 DEF IInv, TransferOK, Address, Fetched
<1> QED BY <1>5, <1>6, <1>7, <1>8, <1>9, <1>10, <1>11, <1>12, <1>13, <1>14, <1>15 DEF IInv

(* A byte the boot sequence writes is the next one of its own command.     *)
LEMMA PutMain == ASSUME IInv, Put("main") PROVE IInv'
<1>1. /\ pc["main"] = "put"
      /\ pc["isr"] = "idle"
      /\ ~irr
      /\ ~inService
  BY DEF IInv, TypeOK, IrqTypeOK, ThreadTypeOK, ScriptOK, Put, At, Runs, Deliverable
<1>2. /\ phase = "command" /\ rqm
      /\ got = sent["main"] /\ got < CommandSize[cmd["main"]]
      /\ (got > 0 => op = cmd["main"])
  BY <1>1 DEF IInv, SendingOK
<1>3. cmd["main"] \in Commands \ {"sense"} /\ got \in Nat
  BY DEF IInv, TypeOK, ThreadTypeOK, FdcTypeOK, Threads
<1>4. /\ rqm' = FALSE
      /\ got' = got + 1
      /\ op' = cmd["main"]
  BY <1>1, <1>2, <1>3 DEF Put
<1>5. /\ rqm' \in BOOLEAN
      /\ op' \in Commands /\ got' \in Nat
  <2>1. rqm' \in BOOLEAN
    BY <1>4, <1>3
  <2>2. op' \in Commands /\ got' \in Nat
    BY <1>4, <1>3
  <2> QED BY <2>1, <2>2
<1>6. arg' = IF got = 0 /\ cmd["main"] \in {"seek", "read"} THEN Address ELSE arg
  BY <1>1, <1>4, <1>5 DEF Put
<1>7. Address \in [c : Int, h : Int, s : Int, eot : Int]
  BY AddressType DEF IInv, TypeOK
<1>8. arg' \in [c : Int, h : Int, s : Int, eot : Int]
  BY <1>6, <1>7 DEF IInv, TypeOK, FdcTypeOK
<1>9. cmd["main"] = "recalibrate" => Job(task) = "floppy_init"
  BY <1>1, ScriptFacts DEF IInv
<1>10. /\ pc' = [pc EXCEPT !["main"] = IF sent["main"] + 1 < CommandSize[cmd["main"]]
                                     THEN "spin" ELSE AfterSend(cmd["main"])]
       /\ sent' = [sent EXCEPT !["main"] = @ + 1]
  BY DEF Put, Goto
<1>11. /\ pc \in [Threads -> MainLabels \union IsrLabels]
       /\ sent \in [Threads -> Nat]
       /\ AfterSend(cmd["main"]) \in {"poll_result", "wait", "drain"}
  BY <1>3, After DEF IInv, TypeOK, ThreadTypeOK
<1>12. /\ pc'["isr"] = pc["isr"]
       /\ pc'["main"] = IF sent["main"] + 1 < CommandSize[cmd["main"]]
                            THEN "spin" ELSE AfterSend(cmd["main"])
       /\ sent'["isr"] = sent["isr"]
       /\ sent'["main"] = sent["main"] + 1
       /\ pc' \in [Threads -> MainLabels \union IsrLabels]
       /\ sent' \in [Threads -> Nat]
  <2>1. pc'["isr"] = pc["isr"]
    BY <1>10, <1>11 DEF Threads, MainLabels, IsrLabels
  <2>2. pc'["main"] = IF sent["main"] + 1 < CommandSize[cmd["main"]]
                          THEN "spin" ELSE AfterSend(cmd["main"])
    BY <1>10, <1>11 DEF Threads, MainLabels, IsrLabels
  <2>3. sent'["isr"] = sent["isr"]
    BY <1>10, <1>11 DEF Threads, MainLabels, IsrLabels
  <2>4. sent'["main"] = sent["main"] + 1
    BY <1>10, <1>11 DEF Threads, MainLabels, IsrLabels
  <2>5. pc' \in [Threads -> MainLabels \union IsrLabels]
    BY <1>10, <1>11 DEF Threads, MainLabels, IsrLabels
  <2>6. sent' \in [Threads -> Nat]
    BY <1>10, <1>11 DEF Threads, MainLabels, IsrLabels
  <2> QED BY <2>1, <2>2, <2>3, <2>4, <2>5, <2>6
<1>13. UNCHANGED <<task, step, sector, count, block, cmd, taken, irqReceived,
                   handleState, waited, phase, out, flaw, seeking, senseDue, line,
                   irr, inService, auto, cursor, buf, dest, outcome>>
  BY DEF Put, prog, flags, irq, dma, result
<1>14. TypeOK'
  <2>1. FlagsTypeOK' /\ IrqTypeOK' /\ DmaTypeOK' /\ ResultTypeOK'
    BY <1>13 DEF IInv, TypeOK, FlagsTypeOK, IrqTypeOK, DmaTypeOK, ResultTypeOK
  <2>2. ProgTypeOK'
    BY <1>1, <1>7, <1>9, <1>10, <1>11, <1>12, <1>13 DEF IInv, TypeOK, ProgTypeOK,
       MainLabels, IsrLabels
  <2>3. ThreadTypeOK'
    BY <1>1, <1>2, <1>3, <1>9, <1>10, <1>11, <1>12, <1>13 DEF IInv, TypeOK,
       ThreadTypeOK, MainLabels, IsrLabels
  <2>4. FdcTypeOK'
    BY <1>5, <1>8, <1>13 DEF IInv, TypeOK, FdcTypeOK
  <2> QED BY <2>1, <2>2, <2>3, <2>4 DEF TypeOK
<1>15. ChannelOK'
  BY <1>13 DEF IInv, ChannelOK
<1>16. ScriptOK'
  BY <1>1, <1>10, <1>12, <1>13, Sizes DEF AfterSend, ScriptOK, IInv
<1>17. InterruptsOK'
  BY <1>1, <1>10, <1>12, <1>13, Sizes DEF AfterSend, InterruptsOK, IInv
<1>18. SendingOK'
  BY <1>1, <1>2, <1>3, <1>4, <1>5, <1>9, <1>10, <1>11, <1>12, <1>13, Sizes DEF
     AfterSend, SendingOK
<1>19. ReceivingOK'
  BY <1>1, <1>2, <1>3, <1>4, <1>5, <1>7, <1>9, <1>10, <1>11, <1>12, <1>13, Sizes DEF
     AfterSend, ReceivingOK, Commands
<1>20. MovingOK'
  BY <1>1, <1>4, <1>5, <1>10, <1>12, <1>13, Sizes DEF AfterSend, MovingOK,
     InterruptsOK, IInv
<1>21. FlagOK'
  BY <1>1, <1>2, <1>3, <1>4, <1>5, <1>7, <1>9, <1>10, <1>11, <1>12, <1>13, Sizes DEF
     IInv, FlagOK, InterruptsOK, AfterSend
<1>22. AnswerOK'
  BY <1>1, <1>2, <1>3, <1>4, <1>5, <1>7, <1>9, <1>10, <1>11, <1>12, <1>13, Sizes DEF
     AfterSend, AnswerOK, InterruptsOK, IInv
<1>23. UnfinishedOK'
  BY <1>1, <1>4, <1>5, <1>10, <1>12, <1>13, Sizes DEF AfterSend, UnfinishedOK, IInv
<1>24. TransferOK'
  BY <1>1, <1>2, <1>3, <1>4, <1>5, <1>6, <1>7, <1>8, <1>9, <1>10, <1>11, <1>12,
     <1>13, Sizes DEF AfterSend, TransferOK, IInv, Address, Fetched
<1> QED BY <1>14, <1>15, <1>16, <1>17, <1>18, <1>19, <1>20, <1>21, <1>22, <1>23, <1>24 DEF IInv

(* mrq comes back after the last byte of a command of the boot sequence.   *)
LEMMA DrainMain == ASSUME IInv, Drain("main") PROVE IInv'
<1>1. /\ pc["main"] = "drain"
      /\ pc["isr"] = "idle"
      /\ ~irr
      /\ ~inService
      /\ rqm
  BY DEF IInv, TypeOK, IrqTypeOK, ThreadTypeOK, ScriptOK, Drain, At, Runs,
     Deliverable
<1>2. cmd["main"] \in Commands \ {"sense"}
  BY DEF IInv, TypeOK, ThreadTypeOK, Threads
<1>3. AfterDrain(cmd["main"]) \in {"poll_result", "wait", "ok"}
  BY <1>2, After
<1>4. /\ pc'["isr"] = pc["isr"]
      /\ pc'["main"] = AfterDrain(cmd["main"])
      /\ pc' \in [Threads -> MainLabels \union IsrLabels]
  BY <1>1, <1>2, <1>3 DEF IInv, TypeOK, ThreadTypeOK, Drain, Goto, Threads,
     MainLabels, IsrLabels
<1>5. UNCHANGED <<task, step, sector, count, block, cmd, sent, taken, irqReceived,
                  handleState, waited, rqm, phase, op, got, arg, out, flaw, seeking,
                  senseDue, line, irr, inService, auto, cursor, buf, dest, outcome>>
  BY DEF Drain, prog, flags, fdc, irq, dma, result
<1>6. TypeOK'
  <2>1. FlagsTypeOK' /\ FdcTypeOK' /\ IrqTypeOK' /\ DmaTypeOK' /\ ResultTypeOK'
    BY <1>5 DEF IInv, TypeOK, FlagsTypeOK, FdcTypeOK, IrqTypeOK, DmaTypeOK,
       ResultTypeOK
  <2>2. ProgTypeOK'
    BY <1>1, <1>2, <1>3, <1>4, <1>5 DEF IInv, TypeOK, ProgTypeOK, MainLabels,
       IsrLabels
  <2>3. ThreadTypeOK'
    BY <1>1, <1>2, <1>3, <1>4, <1>5 DEF IInv, TypeOK, ThreadTypeOK, MainLabels,
       IsrLabels
  <2> QED BY <2>1, <2>2, <2>3 DEF TypeOK
<1>7. ChannelOK'
  BY <1>5 DEF IInv, ChannelOK
<1>8. ScriptOK'
  BY <1>1, <1>2, <1>3, <1>4, <1>5 DEF IInv, ScriptOK, AfterDrain, Commands, AnswerOK
<1>9. InterruptsOK'
  BY <1>1, <1>4, <1>5 DEF IInv, InterruptsOK, AfterDrain, Commands, AnswerOK
<1>10. SendingOK'
  BY <1>1, <1>4, <1>5 DEF IInv, SendingOK, AfterDrain, Commands, AnswerOK
<1>11. ReceivingOK'
  BY <1>1, <1>4, <1>5 DEF IInv, ReceivingOK, AfterDrain, Commands, AnswerOK
<1>12. MovingOK'
  BY <1>1, <1>4, <1>5 DEF IInv, MovingOK, AfterDrain, Commands, AnswerOK
<1>13. FlagOK'
  BY <1>1, <1>4, <1>5 DEF IInv, FlagOK, AfterDrain, Commands, AnswerOK
<1>14. AnswerOK'
  BY <1>1, <1>4, <1>5 DEF IInv, AnswerOK, AfterDrain, Commands, ReceivingOK
<1>15. UnfinishedOK'
  BY <1>1, <1>4, <1>5 DEF IInv, UnfinishedOK, AfterDrain, Commands, AnswerOK
<1>16. TransferOK'
  BY <1>1, <1>4, <1>5 DEF IInv, TransferOK, AfterDrain, Commands, AnswerOK, Fetched,
     Address
<1> QED BY <1>6, <1>7, <1>8, <1>9, <1>10, <1>11, <1>12, <1>13, <1>14, <1>15, <1>16 DEF IInv

(* The boot sequence waits for a result byte; a timeout counts as a bad    *)
(* byte.                                                                   *)
LEMMA PollResultMain == ASSUME IInv, PollResult("main") PROVE IInv'
<1>1. /\ pc["main"] = "poll_result"
      /\ pc["isr"] = "idle"
      /\ ~irr
      /\ ~inService
  BY DEF IInv, TypeOK, IrqTypeOK, ThreadTypeOK, ScriptOK, PollResult, At, Runs,
     Deliverable
<1>2. taken' = IF rqm THEN taken ELSE [taken EXCEPT !["main"] = @ + 1]
  BY DEF PollResult, Obtained
<1>3. /\ taken'["isr"] = taken["isr"]
      /\ taken'["main"] = IF rqm THEN taken["main"] ELSE taken["main"] + 1
  BY <1>1, <1>2 DEF IInv, TypeOK, ThreadTypeOK, Threads
<1>4. /\ cmd["main"] \in {"version", "read"}
      /\ taken["main"] \in Nat
      /\ (cmd["main"] = "version" => taken["main"] = 0)
  BY <1>1, <1>2, <1>3 DEF IInv, ScriptOK, AnswerOK, TypeOK, ThreadTypeOK, Threads
<1>5. /\ (cmd["main"] = "read" => Job(task) # "floppy_init")
      /\ flaw \in 0..3
  BY <1>1, ScriptFacts DEF IInv, TypeOK, FdcTypeOK
<1>6. /\ pc'["isr"] = pc["isr"]
      /\ (rqm => pc'["main"] = "get")
      /\ (~rqm /\ cmd["main"] = "version" => pc'["main"] = "error")
      /\ (~rqm /\ cmd["main"] = "read" /\ taken["main"] < 3 => pc'["main"] = "error")
      /\ (~rqm /\ cmd["main"] = "read" /\ taken["main"] >= 3 =>
            pc'["main"] = IF taken["main"] + 1 = 7 THEN "ok" ELSE "poll_result")
      /\ pc' \in [Threads -> MainLabels \union IsrLabels]
      /\ taken' \in [Threads -> Nat]
  <2>1. pc'["isr"] = pc["isr"]
    BY <1>1, Sizes, After DEF IInv, TypeOK, ThreadTypeOK, PollResult, Goto, Threads,
       MainLabels, IsrLabels, Obtained
  <2>2. (rqm => pc'["main"] = "get")
    BY <1>1, Sizes, After DEF IInv, TypeOK, ThreadTypeOK, PollResult, Goto, Threads,
       MainLabels, IsrLabels, Obtained
  <2>3. (~rqm /\ cmd["main"] = "version" => pc'["main"] = "error")
    BY <1>1, <1>4, <1>5, Sizes, After DEF IInv, TypeOK, ThreadTypeOK, PollResult,
       Goto, Threads, MainLabels, IsrLabels, Obtained
  <2>4. (~rqm /\ cmd["main"] = "read" /\ taken["main"] < 3 => pc'["main"] = "error")
    BY <1>1, <1>2, <1>3, Sizes, After DEF IInv, TypeOK, ThreadTypeOK, PollResult,
       Goto, Threads, MainLabels, IsrLabels, Obtained
  <2>5. (~rqm /\ cmd["main"] = "read" /\ taken["main"] >= 3 =>
           pc'["main"] = IF taken["main"] + 1 = 7 THEN "ok" ELSE "poll_result")
    BY <1>1, <1>2, <1>3, Sizes, After DEF IInv, TypeOK, ThreadTypeOK, PollResult,
       Goto, Threads, MainLabels, IsrLabels, Obtained
  <2>6. pc' \in [Threads -> MainLabels \union IsrLabels]
    BY <1>1, Sizes, After DEF IInv, TypeOK, ThreadTypeOK, PollResult, Goto, Threads,
       MainLabels, IsrLabels, Obtained
  <2>7. taken' \in [Threads -> Nat]
    BY <1>1, <1>2, <1>3, Sizes, After DEF IInv, TypeOK, ThreadTypeOK, PollResult,
       Goto, Threads, MainLabels, IsrLabels, Obtained
  <2> QED BY <2>1, <2>2, <2>3, <2>4, <2>5, <2>6, <2>7
<1>7. UNCHANGED <<task, step, sector, count, block, cmd, sent, irqReceived,
                  handleState, waited, rqm, phase, op, got, arg, out, flaw, seeking,
                  senseDue, line, irr, inService, auto, cursor, buf, dest, outcome>>
  BY DEF PollResult, prog, flags, fdc, irq, dma, result, Obtained
<1>8. TypeOK'
  <2>1. FlagsTypeOK' /\ FdcTypeOK' /\ IrqTypeOK' /\ DmaTypeOK' /\ ResultTypeOK'
    BY <1>7 DEF IInv, TypeOK, FlagsTypeOK, FdcTypeOK, IrqTypeOK, DmaTypeOK,
       ResultTypeOK
  <2>2. ProgTypeOK'
    BY <1>1, <1>4, <1>5, <1>6, <1>7 DEF IInv, TypeOK, ProgTypeOK, MainLabels,
       IsrLabels
  <2>3. ThreadTypeOK'
    BY <1>1, <1>2, <1>3, <1>4, <1>5, <1>6, <1>7 DEF IInv, TypeOK, ThreadTypeOK,
       MainLabels, IsrLabels
  <2> QED BY <2>1, <2>2, <2>3 DEF TypeOK
<1>9. ChannelOK'
  BY <1>7 DEF IInv, ChannelOK
<1>10. ScriptOK'
  BY <1>1, <1>2, <1>3, <1>4, <1>5, <1>6, <1>7 DEF IInv, ScriptOK
<1>11. InterruptsOK'
  BY <1>1, <1>6, <1>7 DEF IInv, InterruptsOK
<1>12. SendingOK'
  BY <1>1, <1>4, <1>5, <1>6, <1>7 DEF IInv, SendingOK
<1>13. ReceivingOK'
  BY <1>1, <1>6, <1>7 DEF IInv, ReceivingOK
<1>14. MovingOK'
  BY <1>1, <1>4, <1>5, <1>6, <1>7 DEF IInv, MovingOK
<1>15. FlagOK'
  BY <1>1, <1>4, <1>5, <1>6, <1>7 DEF IInv, FlagOK
<1>16. AnswerOK'
  BY <1>1, <1>2, <1>3, <1>4, <1>5, <1>6, <1>7 DEF IInv, AnswerOK
<1>17. UnfinishedOK'
  BY <1>1, <1>2, <1>3, <1>4, <1>5, <1>6, <1>7 DEF IInv, UnfinishedOK
<1>18. TransferOK'
  BY <1>1, <1>2, <1>3, <1>4, <1>5, <1>6, <1>7 DEF IInv, TransferOK, Address, Fetched
<1> QED BY <1>8, <1>9, <1>10, <1>11, <1>12, <1>13, <1>14, <1>15, <1>16, <1>17, <1>18 DEF IInv

(* A result byte the boot sequence checks is the one it takes it for.      *)
LEMMA GetMain == ASSUME IInv, Get("main") PROVE IInv'
<1>1. /\ pc["main"] = "get"
      /\ pc["isr"] = "idle"
      /\ ~irr
      /\ ~inService
  BY DEF IInv, TypeOK, IrqTypeOK, ThreadTypeOK, ScriptOK, Get, At, Runs, Deliverable
<1>2. /\ cmd["main"] \in {"version", "read"}
      /\ taken["main"] \in Nat
      /\ (cmd["main"] = "version" => taken["main"] = 0)
  BY <1>1 DEF IInv, ScriptOK, AnswerOK, TypeOK, ThreadTypeOK, Threads
<1>3. /\ (cmd["main"] = "read" => Job(task) # "floppy_init")
      /\ flaw \in 0..3
  BY <1>1, ScriptFacts DEF IInv, TypeOK, FdcTypeOK
<1>4. cmd["main"] = "read" /\ taken["main"] < 3 => /\ InStep("main") /\ op = "read"
                                                    /\ out = taken["main"]
  BY <1>1 DEF IInv, AnswerOK, InStep
<1>5. (InStep("main") => pc' = [pc EXCEPT !["main"] =
              IF flaw = out + 1 /\ taken["main"] < Checked[cmd["main"]] THEN "error"
              ELSE IF taken["main"] + 1 = ResultSize[cmd["main"]] THEN "ok"
              ELSE "poll_result"])
  BY DEF Get, Obtained, Goto
<1>6. taken' = [taken EXCEPT !["main"] = @ + 1]
  BY DEF Get, Obtained
<1>7. /\ taken'["isr"] = taken["isr"]
      /\ taken'["main"] = taken["main"] + 1
  BY <1>6 DEF IInv, TypeOK, ThreadTypeOK, Threads
<1>8. /\ (rqm /\ phase = "result" => rqm' = FALSE /\ out' = out + 1)
      /\ (~(rqm /\ phase = "result") => rqm' = rqm /\ out' = out)
  BY DEF Get
<1>9. line' \in BOOLEAN
  BY DEF Get, IInv, TypeOK, IrqTypeOK
<1>10. out \in Nat
  BY DEF IInv, TypeOK, FdcTypeOK
<1>11. out' \in Nat
  BY <1>10, <1>8
<1>12. rqm' \in BOOLEAN
  BY <1>8 DEF IInv, TypeOK, FdcTypeOK
<1>13. /\ pc'["isr"] = pc["isr"]
       /\ (cmd["main"] = "version" => pc'["main"] \in {"error", "ok"})
       /\ (cmd["main"] = "read" /\ taken["main"] < 3 =>
              pc'["main"] = IF flaw = taken["main"] + 1 THEN "error" ELSE "poll_result")
       /\ (cmd["main"] = "read" /\ taken["main"] >= 3 =>
              pc'["main"] = IF taken["main"] + 1 = 7 THEN "ok" ELSE "poll_result")
       /\ pc' \in [Threads -> MainLabels \union IsrLabels]
       /\ taken' \in [Threads -> Nat]
  <2>1. pc'["isr"] = pc["isr"]
    BY <1>1, <1>5, Sizes, After DEF IInv, TypeOK, ThreadTypeOK, Get, Goto, Threads,
       MainLabels, IsrLabels, Obtained, InStep
  <2>2. (cmd["main"] = "version" => pc'["main"] \in {"error", "ok"})
    BY <1>1, <1>2, <1>3, <1>4, <1>5, Sizes, After DEF IInv, TypeOK, ThreadTypeOK,
       Get, Goto, Threads, MainLabels, IsrLabels, Obtained, InStep
  <2>3. (cmd["main"] = "read" /\ taken["main"] < 3 =>
            pc'["main"] = IF flaw = taken["main"] + 1 THEN "error" ELSE "poll_result")
    BY <1>1, <1>2, <1>3, <1>4, <1>5, <1>6, <1>7, Sizes, After DEF IInv, TypeOK,
       ThreadTypeOK, Get, Goto, Threads, MainLabels, IsrLabels, Obtained, InStep
  <2>4. (cmd["main"] = "read" /\ taken["main"] >= 3 =>
            pc'["main"] = IF taken["main"] + 1 = 7 THEN "ok" ELSE "poll_result")
    BY <1>1, <1>5, <1>6, <1>7, Sizes, After DEF IInv, TypeOK, ThreadTypeOK, Get,
       Goto, Threads, MainLabels, IsrLabels, Obtained, InStep
  <2>5. pc' \in [Threads -> MainLabels \union IsrLabels]
    BY <1>1, <1>5, Sizes, After DEF IInv, TypeOK, ThreadTypeOK, Get, Goto, Threads,
       MainLabels, IsrLabels, Obtained, InStep
  <2>6. taken' \in [Threads -> Nat]
    BY <1>1, <1>6, <1>7, Sizes, After DEF IInv, TypeOK, ThreadTypeOK, Get, Goto,
       Threads, MainLabels, IsrLabels, Obtained, InStep
  <2> QED BY <2>1, <2>2, <2>3, <2>4, <2>5, <2>6
<1>14. UNCHANGED <<task, step, sector, count, block, cmd, sent, irqReceived,
                   handleState, waited, phase, op, got, arg, flaw, seeking,
                   senseDue, irr, inService, auto, cursor, buf, dest, outcome>>
  BY DEF Get, prog, flags, dma, result, Obtained
<1>15. TypeOK'
  <2>1. FlagsTypeOK' /\ DmaTypeOK' /\ ResultTypeOK'
    BY <1>14 DEF IInv, TypeOK, FlagsTypeOK, DmaTypeOK, ResultTypeOK
  <2>2. ProgTypeOK'
    BY <1>1, <1>2, <1>3, <1>4, <1>5, <1>10, <1>13, <1>14 DEF IInv, TypeOK,
       ProgTypeOK, MainLabels, IsrLabels
  <2>3. ThreadTypeOK'
    BY <1>1, <1>2, <1>3, <1>4, <1>5, <1>6, <1>7, <1>13, <1>14 DEF IInv, TypeOK,
       ThreadTypeOK, MainLabels, IsrLabels
  <2>4. FdcTypeOK'
    BY <1>11, <1>12, <1>14 DEF IInv, TypeOK, FdcTypeOK
  <2>5. IrqTypeOK'
    BY <1>1, <1>9, <1>14 DEF IInv, TypeOK, IrqTypeOK
  <2> QED BY <2>1, <2>2, <2>3, <2>4, <2>5 DEF TypeOK
<1>16. ChannelOK'
  BY <1>14 DEF IInv, ChannelOK
<1>17. ScriptOK'
  BY <1>1, <1>2, <1>3, <1>4, <1>5, <1>6, <1>7, <1>13, <1>14 DEF IInv, ScriptOK
<1>18. InterruptsOK'
  BY <1>1, <1>5, <1>13, <1>14 DEF IInv, InterruptsOK
<1>19. SendingOK'
  BY <1>1, <1>2, <1>3, <1>4, <1>5, <1>8, <1>12, <1>13, <1>14 DEF IInv, SendingOK
<1>20. ReceivingOK'
  BY <1>1, <1>5, <1>8, <1>12, <1>13, <1>14 DEF IInv, ReceivingOK
<1>21. MovingOK'
  BY <1>1, <1>2, <1>3, <1>4, <1>5, <1>8, <1>12, <1>13, <1>14 DEF IInv, MovingOK
<1>22. FlagOK'
  BY <1>1, <1>2, <1>3, <1>4, <1>5, <1>13, <1>14 DEF IInv, FlagOK
<1>23. AnswerOK'
  BY <1>1, <1>2, <1>3, <1>4, <1>5, <1>6, <1>7, <1>8, <1>10, <1>11, <1>12, <1>13,
     <1>14 DEF IInv, AnswerOK
<1>24. UnfinishedOK'
  BY <1>1, <1>2, <1>3, <1>4, <1>5, <1>6, <1>7, <1>8, <1>10, <1>11, <1>13, <1>14 DEF
     IInv, UnfinishedOK
<1>25. TransferOK'
  BY <1>1, <1>2, <1>3, <1>4, <1>5, <1>6, <1>7, <1>13, <1>14 DEF IInv, TransferOK,
     Address, Fetched
<1> QED BY <1>15, <1>16, <1>17, <1>18, <1>19, <1>20, <1>21, <1>22, <1>23, <1>24, <1>25 DEF IInv

(* fpy_wait_irq loads the flag.                                            *)
LEMMA WaitIrqStep == ASSUME IInv, WaitIrq PROVE IInv'
<1>1. /\ pc["main"] = "wait"
      /\ pc["isr"] = "idle"
      /\ ~irr
      /\ ~inService
  BY DEF IInv, TypeOK, IrqTypeOK, ThreadTypeOK, ScriptOK, WaitIrq, At, Runs,
     Deliverable
<1>2. cmd["main"] \in {"recalibrate", "read"}
  BY <1>1 DEF IInv, ScriptOK
<1>3. waited' = irqReceived
  BY DEF WaitIrq
<1>4. /\ pc'["isr"] = pc["isr"]
      /\ pc'["main"] = IF irqReceived = 0 THEN "hang" ELSE "clear"
      /\ pc' \in [Threads -> MainLabels \union IsrLabels]
  BY <1>1 DEF IInv, TypeOK, ThreadTypeOK, WaitIrq, Goto, Threads, MainLabels,
     IsrLabels
<1>5. UNCHANGED <<task, step, sector, count, block, cmd, sent, taken, irqReceived,
                  handleState, rqm, phase, op, got, arg, out, flaw, seeking,
                  senseDue, line, irr, inService, auto, cursor, buf, dest, outcome>>
  BY DEF WaitIrq, prog, fdc, irq, dma, result
<1>6. TypeOK'
  <2>1. FdcTypeOK' /\ IrqTypeOK' /\ DmaTypeOK' /\ ResultTypeOK'
    BY <1>5 DEF IInv, TypeOK, FdcTypeOK, IrqTypeOK, DmaTypeOK, ResultTypeOK
  <2>2. ProgTypeOK'
    BY <1>1, <1>4, <1>5 DEF IInv, TypeOK, ProgTypeOK, MainLabels, IsrLabels
  <2>3. ThreadTypeOK'
    BY <1>1, <1>4, <1>5 DEF IInv, TypeOK, ThreadTypeOK, MainLabels, IsrLabels
  <2>4. FlagsTypeOK'
    BY <1>1, <1>3, <1>5 DEF IInv, TypeOK, FlagsTypeOK
  <2> QED BY <2>1, <2>2, <2>3, <2>4 DEF TypeOK
<1>7. ChannelOK'
  BY <1>5 DEF IInv, ChannelOK
<1>8. ScriptOK'
  BY <1>1, <1>4, <1>5 DEF IInv, ScriptOK
<1>9. InterruptsOK'
  BY <1>1, <1>4, <1>5 DEF IInv, InterruptsOK, FlagOK
<1>10. SendingOK'
  BY <1>1, <1>4, <1>5 DEF IInv, SendingOK
<1>11. ReceivingOK'
  BY <1>1, <1>4, <1>5 DEF IInv, ReceivingOK, AnswerOK, FlagOK
<1>12. MovingOK'
  BY <1>1, <1>4, <1>5 DEF IInv, MovingOK
<1>13. FlagOK'
  BY <1>1, <1>4, <1>5 DEF IInv, FlagOK
<1>14. AnswerOK'
  BY <1>1, <1>4, <1>5 DEF IInv, AnswerOK
<1>15. UnfinishedOK'
  BY <1>1, <1>4, <1>5 DEF IInv, UnfinishedOK
<1>16. TransferOK'
  BY <1>1, <1>4, <1>5 DEF IInv, TransferOK, Address, Fetched
<1> QED BY <1>6, <1>7, <1>8, <1>9, <1>10, <1>11, <1>12, <1>13, <1>14, <1>15, <1>16 DEF IInv

(* fpy_wait_irq clears the flag after the interrupt it stands for.         *)
LEMMA ClearIrqStep == ASSUME IInv, ClearIrq PROVE IInv'
<1>1. /\ pc["main"] = "clear"
      /\ pc["isr"] = "idle"
      /\ ~irr
      /\ ~inService
  BY DEF IInv, TypeOK, IrqTypeOK, ThreadTypeOK, ScriptOK, ClearIrq, At, Runs,
     Deliverable
<1>2. cmd["main"] \in {"recalibrate", "read"}
  BY <1>1 DEF IInv, ScriptOK
<1>3. irqReceived' = 0
  BY DEF ClearIrq
<1>4. (cmd["main"] = "read" => Job(task) # "floppy_init")
  BY <1>1, ScriptFacts DEF IInv
<1>5. /\ pc'["isr"] = pc["isr"]
      /\ pc'["main"] = IF cmd["main"] = "read" THEN "poll_result"
               ELSE IF waited = Err THEN "error" ELSE "ok"
      /\ pc' \in [Threads -> MainLabels \union IsrLabels]
  BY <1>1 DEF IInv, TypeOK, ThreadTypeOK, ClearIrq, Goto, Threads, MainLabels,
     IsrLabels
<1>6. UNCHANGED <<task, step, sector, count, block, cmd, sent, taken, handleState,
                  waited, rqm, phase, op, got, arg, out, flaw, seeking, senseDue,
                  line, irr, inService, auto, cursor, buf, dest, outcome>>
  BY DEF ClearIrq, prog, fdc, irq, dma, result
<1>7. TypeOK'
  <2>1. FdcTypeOK' /\ IrqTypeOK' /\ DmaTypeOK' /\ ResultTypeOK'
    BY <1>6 DEF IInv, TypeOK, FdcTypeOK, IrqTypeOK, DmaTypeOK, ResultTypeOK
  <2>2. ProgTypeOK'
    BY <1>1, <1>5, <1>6 DEF IInv, TypeOK, ProgTypeOK, MainLabels, IsrLabels
  <2>3. ThreadTypeOK'
    BY <1>1, <1>5, <1>6 DEF IInv, TypeOK, ThreadTypeOK, MainLabels, IsrLabels
  <2>4. FlagsTypeOK'
    BY <1>1, <1>3, <1>6 DEF IInv, TypeOK, FlagsTypeOK
  <2> QED BY <2>1, <2>2, <2>3, <2>4 DEF TypeOK
<1>8. ChannelOK'
  BY <1>6 DEF IInv, ChannelOK
<1>9. ScriptOK'
  BY <1>1, <1>5, <1>6 DEF IInv, ScriptOK
<1>10. InterruptsOK'
  BY <1>1, <1>5, <1>6 DEF IInv, InterruptsOK
<1>11. SendingOK'
  BY <1>1, <1>5, <1>6 DEF IInv, SendingOK
<1>12. ReceivingOK'
  BY <1>1, <1>5, <1>6 DEF IInv, ReceivingOK
<1>13. MovingOK'
  BY <1>1, <1>2, <1>4, <1>5, <1>6 DEF IInv, MovingOK
<1>14. FlagOK'
  BY <1>1, <1>3, <1>5, <1>6 DEF IInv, FlagOK
<1>15. AnswerOK'
  BY <1>1, <1>5, <1>6 DEF IInv, AnswerOK
<1>16. UnfinishedOK'
  BY <1>1, <1>5, <1>6 DEF IInv, UnfinishedOK
<1>17. TransferOK'
  BY <1>1, <1>5, <1>6 DEF IInv, TransferOK, Address, Fetched
<1> QED BY <1>7, <1>8, <1>9, <1>10, <1>11, <1>12, <1>13, <1>14, <1>15, <1>16, <1>17 DEF IInv

(* The handler finds the controller ready for its sense command.           *)
LEMMA CheckStatusIsr == ASSUME IInv, CheckStatus("isr") PROVE IInv'
<1>1. pc["isr"] = "status"
  BY DEF IInv, TypeOK, IrqTypeOK, ThreadTypeOK, ScriptOK, CheckStatus, At, Runs,
     Deliverable
<1>2. /\ InRecalibrate({"wait", "hang"}) \/ InSeek({"drain", "ok"}) \/ InRead({"drain"})
      /\ ~seeking
  BY <1>1 DEF IInv, InterruptsOK
<1>3. sent["isr"] = 0 /\ taken["isr"] = 0
  BY <1>1 DEF IInv, AnswerOK
<1>4. cmd["isr"] = "sense"
  BY DEF IInv, TypeOK, ThreadTypeOK
<1>5. /\ pc'["main"] = pc["main"]
      /\ pc'["isr"] = IF Ready THEN "spin" ELSE "error"
      /\ pc' \in [Threads -> MainLabels \union IsrLabels]
  BY <1>1 DEF IInv, TypeOK, ThreadTypeOK, CheckStatus, Goto, Threads, MainLabels,
     IsrLabels
<1>6. UNCHANGED <<task, step, sector, count, block, cmd, sent, taken, irqReceived,
                  handleState, waited, rqm, phase, op, got, arg, out, flaw, seeking,
                  senseDue, line, irr, inService, auto, cursor, buf, dest, outcome>>
  BY DEF CheckStatus, prog, flags, fdc, irq, dma, result
<1>7. TypeOK'
  <2>1. FlagsTypeOK' /\ FdcTypeOK' /\ IrqTypeOK' /\ DmaTypeOK' /\ ResultTypeOK'
    BY <1>6 DEF IInv, TypeOK, FlagsTypeOK, FdcTypeOK, IrqTypeOK, DmaTypeOK,
       ResultTypeOK
  <2>2. ProgTypeOK'
    BY <1>1, <1>5, <1>6 DEF IInv, TypeOK, ProgTypeOK, MainLabels, IsrLabels
  <2>3. ThreadTypeOK'
    BY <1>1, <1>5, <1>6 DEF IInv, TypeOK, ThreadTypeOK, MainLabels, IsrLabels
  <2> QED BY <2>1, <2>2, <2>3 DEF TypeOK
<1>8. ChannelOK'
  BY <1>6 DEF IInv, ChannelOK
<1>9. ScriptOK'
  BY <1>1, <1>5, <1>6 DEF IInv, ScriptOK
<1>10. InterruptsOK'
  BY <1>1, <1>5, <1>6 DEF IInv, InterruptsOK
<1>11. SendingOK'
  BY <1>1, <1>2, <1>3, <1>4, <1>5, <1>6, Sizes DEF IInv, TypeOK, FdcTypeOK,
     SendingOK, AnswerOK, ReceivingOK, Ready, Commands
<1>12. ReceivingOK'
  BY <1>1, <1>5, <1>6 DEF IInv, ReceivingOK
<1>13. MovingOK'
  BY <1>1, <1>5, <1>6 DEF IInv, MovingOK
<1>14. FlagOK'
  BY <1>1, <1>5, <1>6 DEF IInv, FlagOK
<1>15. AnswerOK'
  BY <1>1, <1>5, <1>6 DEF IInv, AnswerOK
<1>16. UnfinishedOK'
  BY <1>1, <1>5, <1>6 DEF IInv, UnfinishedOK, Ready
<1>17. TransferOK'
  BY <1>1, <1>5, <1>6 DEF IInv, TransferOK, Address, Fetched
<1> QED BY <1>7, <1>8, <1>9, <1>10, <1>11, <1>12, <1>13, <1>14, <1>15, <1>16, <1>17 DEF IInv

(* The handler sees mrq set before its only byte.                          *)
LEMMA SpinIsr == ASSUME IInv, Spin("isr") PROVE IInv'
<1>1. /\ pc["isr"] = "spin"
      /\ rqm
  BY DEF IInv, TypeOK, IrqTypeOK, ThreadTypeOK, ScriptOK, Spin, At, Runs, Deliverable
<1>2. /\ InRecalibrate({"wait", "hang"}) \/ InSeek({"drain", "ok"})
      /\ ~seeking
  BY <1>1 DEF IInv, InterruptsOK, SendingOK
<1>3. /\ pc'["main"] = pc["main"]
      /\ pc'["isr"] = "poll"
      /\ pc' \in [Threads -> MainLabels \union IsrLabels]
  BY <1>1 DEF IInv, TypeOK, ThreadTypeOK, Spin, Goto, Threads, MainLabels, IsrLabels
<1>4. UNCHANGED <<task, step, sector, count, block, cmd, sent, taken, irqReceived,
                  handleState, waited, rqm, phase, op, got, arg, out, flaw, seeking,
                  senseDue, line, irr, inService, auto, cursor, buf, dest, outcome>>
  BY DEF Spin, prog, flags, fdc, irq, dma, result
<1>5. TypeOK'
  <2>1. FlagsTypeOK' /\ FdcTypeOK' /\ IrqTypeOK' /\ DmaTypeOK' /\ ResultTypeOK'
    BY <1>4 DEF IInv, TypeOK, FlagsTypeOK, FdcTypeOK, IrqTypeOK, DmaTypeOK,
       ResultTypeOK
  <2>2. ProgTypeOK'
    BY <1>1, <1>3, <1>4 DEF IInv, TypeOK, ProgTypeOK, MainLabels, IsrLabels
  <2>3. ThreadTypeOK'
    BY <1>1, <1>3, <1>4 DEF IInv, TypeOK, ThreadTypeOK, MainLabels, IsrLabels
  <2> QED BY <2>1, <2>2, <2>3 DEF TypeOK
<1>6. ChannelOK'
  BY <1>4 DEF IInv, ChannelOK
<1>7. ScriptOK'
  BY <1>1, <1>3, <1>4 DEF IInv, ScriptOK
<1>8. InterruptsOK'
  BY <1>1, <1>3, <1>4 DEF IInv, InterruptsOK
<1>9. SendingOK'
  BY <1>1, <1>3, <1>4 DEF IInv, SendingOK
<1>10. ReceivingOK'
  BY <1>1, <1>3, <1>4 DEF IInv, ReceivingOK
<1>11. MovingOK'
  BY <1>1, <1>3, <1>4 DEF IInv, MovingOK
<1>12. FlagOK'
  BY <1>1, <1>3, <1>4 DEF IInv, FlagOK
<1>13. AnswerOK'
  BY <1>1, <1>3, <1>4 DEF IInv, AnswerOK
<1>14. UnfinishedOK'
  BY <1>1, <1>3, <1>4 DEF IInv, UnfinishedOK
<1>15. TransferOK'
  BY <1>1, <1>3, <1>4 DEF IInv, TransferOK, Address, Fetched
<1> QED BY <1>5, <1>6, <1>7, <1>8, <1>9, <1>10, <1>11, <1>12, <1>13, <1>14, <1>15 DEF IInv

(* mrq is still set when the handler is about to write.                    *)
LEMMA PollIsr == ASSUME IInv, Poll("isr") PROVE IInv'
<1>1. pc["isr"] = "poll"
  BY DEF IInv, TypeOK, IrqTypeOK, ThreadTypeOK, ScriptOK, Poll, At, Runs, Deliverable
<1>2. /\ InRecalibrate({"wait", "hang"}) \/ InSeek({"drain", "ok"})
      /\ ~seeking
  BY <1>1 DEF IInv, InterruptsOK, SendingOK
<1>3. rqm
  BY <1>1 DEF IInv, SendingOK
<1>4. /\ pc'["main"] = pc["main"]
      /\ pc'["isr"] = "put"
      /\ pc' \in [Threads -> MainLabels \union IsrLabels]
  BY <1>1, <1>2, <1>3 DEF IInv, TypeOK, ThreadTypeOK, Poll, Goto, Threads,
     MainLabels, IsrLabels
<1>5. UNCHANGED <<task, step, sector, count, block, cmd, sent, taken, irqReceived,
                  handleState, waited, rqm, phase, op, got, arg, out, flaw, seeking,
                  senseDue, line, irr, inService, auto, cursor, buf, dest, outcome>>
  BY DEF Poll, prog, flags, fdc, irq, dma, result
<1>6. TypeOK'
  <2>1. FlagsTypeOK' /\ FdcTypeOK' /\ IrqTypeOK' /\ DmaTypeOK' /\ ResultTypeOK'
    BY <1>5 DEF IInv, TypeOK, FlagsTypeOK, FdcTypeOK, IrqTypeOK, DmaTypeOK,
       ResultTypeOK
  <2>2. ProgTypeOK'
    BY <1>1, <1>4, <1>5 DEF IInv, TypeOK, ProgTypeOK, MainLabels, IsrLabels
  <2>3. ThreadTypeOK'
    BY <1>1, <1>4, <1>5 DEF IInv, TypeOK, ThreadTypeOK, MainLabels, IsrLabels
  <2> QED BY <2>1, <2>2, <2>3 DEF TypeOK
<1>7. ChannelOK'
  BY <1>5 DEF IInv, ChannelOK
<1>8. ScriptOK'
  BY <1>1, <1>4, <1>5 DEF IInv, ScriptOK
<1>9. InterruptsOK'
  BY <1>1, <1>4, <1>5 DEF IInv, InterruptsOK
<1>10. SendingOK'
  BY <1>1, <1>4, <1>5 DEF IInv, SendingOK
<1>11. ReceivingOK'
  BY <1>1, <1>4, <1>5 DEF IInv, ReceivingOK
<1>12. MovingOK'
  BY <1>1, <1>4, <1>5 DEF IInv, MovingOK
<1>13. FlagOK'
  BY <1>1, <1>4, <1>5 DEF IInv, FlagOK
<1>14. AnswerOK'
  BY <1>1, <1>4, <1>5 DEF IInv, AnswerOK
<1>15. UnfinishedOK'
  BY <1>1, <1>4, <1>5 DEF IInv, UnfinishedOK
<1>16. TransferOK'
  BY <1>1, <1>4, <1>5 DEF IInv, TransferOK, Address, Fetched
<1> QED BY <1>6, <1>7, <1>8, <1>9, <1>10, <1>11, <1>12, <1>13, <1>14, <1>15, <1>16 DEF IInv

(* The handler writes its sense command to an idle controller.             *)
LEMMA PutIsr == ASSUME IInv, Put("isr") PROVE IInv'
<1>1. pc["isr"] = "put"
  BY DEF IInv, TypeOK, IrqTypeOK, ThreadTypeOK, ScriptOK, Put, At, Runs, Deliverable
<1>2. /\ InRecalibrate({"wait", "hang"}) \/ InSeek({"drain", "ok"})
      /\ ~seeking
  BY <1>1 DEF IInv, InterruptsOK, SendingOK
<1>3. /\ phase = "command" /\ rqm
      /\ got = 0 /\ sent["isr"] = 0
  BY <1>1 DEF IInv, SendingOK
<1>4. cmd["isr"] = "sense"
  BY DEF IInv, TypeOK, ThreadTypeOK
<1>5. /\ rqm' = FALSE
      /\ got' = 1
      /\ op' = "sense"
      /\ arg' = arg
  BY <1>1, <1>2, <1>3, <1>4 DEF Put
<1>6. /\ rqm' \in BOOLEAN
      /\ op' \in Commands /\ got' \in Nat
  <2>1. rqm' \in BOOLEAN
    BY <1>5 DEF Commands
  <2>2. op' \in Commands /\ got' \in Nat
    BY <1>5 DEF Commands
  <2> QED BY <2>1, <2>2
<1>7. /\ pc' = [pc EXCEPT !["isr"] = "drain"]
      /\ sent' = [sent EXCEPT !["isr"] = @ + 1]
  BY <1>3, <1>4, Sizes DEF Put, Goto, AfterSend
<1>8. /\ pc \in [Threads -> MainLabels \union IsrLabels]
      /\ sent \in [Threads -> Nat]
  BY DEF IInv, TypeOK, ThreadTypeOK
<1>9. /\ pc'["main"] = pc["main"]
      /\ pc'["isr"] = "drain"
      /\ sent'["main"] = sent["main"]
      /\ pc' \in [Threads -> MainLabels \union IsrLabels]
      /\ sent' \in [Threads -> Nat]
  <2>1. pc'["main"] = pc["main"]
    BY <1>7, <1>8 DEF Threads, MainLabels, IsrLabels
  <2>2. pc'["isr"] = "drain"
    BY <1>7, <1>8 DEF Threads, MainLabels, IsrLabels
  <2>3. sent'["main"] = sent["main"]
    BY <1>7, <1>8 DEF Threads, MainLabels, IsrLabels
  <2>4. pc' \in [Threads -> MainLabels \union IsrLabels]
    BY <1>7, <1>8 DEF Threads, MainLabels, IsrLabels
  <2>5. sent' \in [Threads -> Nat]
    BY <1>7, <1>8 DEF Threads, MainLabels, IsrLabels
  <2> QED BY <2>1, <2>2, <2>3, <2>4, <2>5
<1>10. UNCHANGED <<task, step, sector, count, block, cmd, taken, irqReceived,
                   handleState, waited, phase, out, flaw, seeking, senseDue, line,
                   irr, inService, auto, cursor, buf, dest, outcome>>
  BY DEF Put, prog, flags, irq, dma, result
<1>11. TypeOK'
  <2>1. FlagsTypeOK' /\ IrqTypeOK' /\ DmaTypeOK' /\ ResultTypeOK'
    BY <1>10 DEF IInv, TypeOK, FlagsTypeOK, IrqTypeOK, DmaTypeOK, ResultTypeOK
  <2>2. ProgTypeOK'
    BY <1>1, <1>7, <1>9, <1>10 DEF IInv, TypeOK, ProgTypeOK, MainLabels, IsrLabels
  <2>3. ThreadTypeOK'
    BY <1>1, <1>7, <1>9, <1>10 DEF IInv, TypeOK, ThreadTypeOK, MainLabels, IsrLabels
  <2>4. FdcTypeOK'
    BY <1>5, <1>6, <1>10 DEF IInv, TypeOK, FdcTypeOK
  <2> QED BY <2>1, <2>2, <2>3, <2>4 DEF TypeOK
<1>12. ChannelOK'
  BY <1>10 DEF IInv, ChannelOK
<1>13. ScriptOK'
  BY <1>1, <1>7, <1>9, <1>10 DEF IInv, ScriptOK
<1>14. InterruptsOK'
  BY <1>1, <1>7, <1>9, <1>10 DEF IInv, InterruptsOK
<1>15. SendingOK'
  BY <1>1, <1>5, <1>6, <1>7, <1>9, <1>10 DEF IInv, SendingOK
<1>16. ReceivingOK'
  BY <1>1, <1>2, <1>3, <1>4, <1>5, <1>6, <1>7, <1>8, <1>9, <1>10 DEF IInv,
     ReceivingOK
<1>17. MovingOK'
  BY <1>1, <1>2, <1>3, <1>4, <1>5, <1>6, <1>7, <1>8, <1>9, <1>10 DEF IInv, MovingOK
<1>18. FlagOK'
  BY <1>1, <1>5, <1>6, <1>7, <1>9, <1>10 DEF IInv, FlagOK
<1>19. AnswerOK'
  BY <1>1, <1>2, <1>3, <1>4, <1>5, <1>6, <1>7, <1>8, <1>9, <1>10 DEF IInv, AnswerOK
<1>20. UnfinishedOK'
  BY <1>1, <1>5, <1>6, <1>7, <1>9, <1>10 DEF IInv, UnfinishedOK
<1>21. TransferOK'
  BY <1>1, <1>5, <1>6, <1>7, <1>9, <1>10 DEF IInv, TransferOK, Address, Fetched
<1> QED BY <1>11, <1>12, <1>13, <1>14, <1>15, <1>16, <1>17, <1>18, <1>19, <1>20, <1>21 DEF IInv

(* The sense command is answered.                                          *)
LEMMA DrainIsr == ASSUME IInv, Drain("isr") PROVE IInv'
<1>1. /\ pc["isr"] = "drain"
      /\ rqm
  BY DEF IInv, TypeOK, IrqTypeOK, ThreadTypeOK, ScriptOK, Drain, At, Runs,
     Deliverable
<1>2. /\ InRecalibrate({"wait", "hang"}) \/ InSeek({"drain", "ok"})
      /\ ~seeking
  BY <1>1 DEF IInv, InterruptsOK, SendingOK
<1>3. cmd["isr"] = "sense"
  BY DEF IInv, TypeOK, ThreadTypeOK
<1>4. AfterDrain(cmd["isr"]) = "poll_result"
  BY <1>3 DEF AfterDrain
<1>5. /\ pc'["main"] = pc["main"]
      /\ pc'["isr"] = "poll_result"
      /\ pc' \in [Threads -> MainLabels \union IsrLabels]
  BY <1>1, <1>2, <1>3, <1>4 DEF IInv, TypeOK, ThreadTypeOK, Drain, Goto, Threads,
     MainLabels, IsrLabels
<1>6. UNCHANGED <<task, step, sector, count, block, cmd, sent, taken, irqReceived,
                  handleState, waited, rqm, phase, op, got, arg, out, flaw, seeking,
                  senseDue, line, irr, inService, auto, cursor, buf, dest, outcome>>
  BY DEF Drain, prog, flags, fdc, irq, dma, result
<1>7. TypeOK'
  <2>1. FlagsTypeOK' /\ FdcTypeOK' /\ IrqTypeOK' /\ DmaTypeOK' /\ ResultTypeOK'
    BY <1>6 DEF IInv, TypeOK, FlagsTypeOK, FdcTypeOK, IrqTypeOK, DmaTypeOK,
       ResultTypeOK
  <2>2. ProgTypeOK'
    BY <1>1, <1>5, <1>6 DEF IInv, TypeOK, ProgTypeOK, MainLabels, IsrLabels
  <2>3. ThreadTypeOK'
    BY <1>1, <1>5, <1>6 DEF IInv, TypeOK, ThreadTypeOK, MainLabels, IsrLabels
  <2> QED BY <2>1, <2>2, <2>3 DEF TypeOK
<1>8. ChannelOK'
  BY <1>6 DEF IInv, ChannelOK
<1>9. ScriptOK'
  BY <1>1, <1>5, <1>6 DEF IInv, ScriptOK
<1>10. InterruptsOK'
  BY <1>1, <1>5, <1>6 DEF IInv, InterruptsOK
<1>11. SendingOK'
  BY <1>1, <1>5, <1>6 DEF IInv, SendingOK
<1>12. ReceivingOK'
  BY <1>1, <1>5, <1>6 DEF IInv, ReceivingOK
<1>13. MovingOK'
  BY <1>1, <1>5, <1>6 DEF IInv, MovingOK
<1>14. FlagOK'
  BY <1>1, <1>5, <1>6 DEF IInv, FlagOK
<1>15. AnswerOK'
  BY <1>1, <1>5, <1>6 DEF IInv, AnswerOK
<1>16. UnfinishedOK'
  BY <1>1, <1>5, <1>6 DEF IInv, UnfinishedOK
<1>17. TransferOK'
  BY <1>1, <1>5, <1>6 DEF IInv, TransferOK, Address, Fetched
<1> QED BY <1>7, <1>8, <1>9, <1>10, <1>11, <1>12, <1>13, <1>14, <1>15, <1>16, <1>17 DEF IInv

(* The handler waits for a byte of the answer to its sense command.        *)
LEMMA PollResultIsr == ASSUME IInv, PollResult("isr") PROVE IInv'
<1>1. pc["isr"] = "poll_result"
  BY DEF IInv, TypeOK, IrqTypeOK, ThreadTypeOK, ScriptOK, PollResult, At, Runs,
     Deliverable
<1>2. /\ InRecalibrate({"wait", "hang"}) \/ InSeek({"drain", "ok"})
      /\ ~seeking
  BY <1>1 DEF IInv, InterruptsOK, SendingOK
<1>3. cmd["isr"] = "sense"
  BY DEF IInv, TypeOK, ThreadTypeOK
<1>4. taken' = IF rqm THEN taken ELSE [taken EXCEPT !["isr"] = @ + 1]
  BY DEF PollResult, Obtained
<1>5. /\ taken'["main"] = taken["main"]
      /\ (rqm => taken'["isr"] = taken["isr"])
  BY <1>4 DEF IInv, TypeOK, ThreadTypeOK, Threads
<1>6. taken["isr"] \in {0, 1}
  BY <1>1, <1>4, <1>5 DEF IInv, AnswerOK, TypeOK, ThreadTypeOK, Threads
<1>7. /\ pc'["main"] = pc["main"]
      /\ pc'["isr"] \in {"get", "error", "ok"}
      /\ (pc'["isr"] = "get" <=> rqm)
      /\ pc' \in [Threads -> MainLabels \union IsrLabels]
      /\ taken' \in [Threads -> Nat]
  <2>1. pc'["main"] = pc["main"]
    BY <1>1, Sizes, After DEF IInv, TypeOK, ThreadTypeOK, PollResult, Goto, Threads,
       MainLabels, IsrLabels, Obtained
  <2>2. pc'["isr"] \in {"get", "error", "ok"}
    BY <1>1, <1>2, <1>3, <1>6, Sizes, After DEF IInv, TypeOK, ThreadTypeOK,
       PollResult, Goto, Threads, MainLabels, IsrLabels, Obtained
  <2>3. (pc'["isr"] = "get" <=> rqm)
    BY <1>1, Sizes, After DEF IInv, TypeOK, ThreadTypeOK, PollResult, Goto, Threads,
       MainLabels, IsrLabels, Obtained
  <2>4. pc' \in [Threads -> MainLabels \union IsrLabels]
    BY <1>1, Sizes, After DEF IInv, TypeOK, ThreadTypeOK, PollResult, Goto, Threads,
       MainLabels, IsrLabels, Obtained
  <2>5. taken' \in [Threads -> Nat]
    BY <1>1, <1>4, <1>5, Sizes, After DEF IInv, TypeOK, ThreadTypeOK, PollResult,
       Goto, Threads, MainLabels, IsrLabels, Obtained
  <2> QED BY <2>1, <2>2, <2>3, <2>4, <2>5
<1>8. UNCHANGED <<task, step, sector, count, block, cmd, sent, irqReceived,
                  handleState, waited, rqm, phase, op, got, arg, out, flaw, seeking,
                  senseDue, line, irr, inService, auto, cursor, buf, dest, outcome>>
  BY DEF PollResult, prog, flags, fdc, irq, dma, result, Obtained
<1>9. TypeOK'
  <2>1. FlagsTypeOK' /\ FdcTypeOK' /\ IrqTypeOK' /\ DmaTypeOK' /\ ResultTypeOK'
    BY <1>8 DEF IInv, TypeOK, FlagsTypeOK, FdcTypeOK, IrqTypeOK, DmaTypeOK,
       ResultTypeOK
  <2>2. ProgTypeOK'
    BY <1>1, <1>7, <1>8 DEF IInv, TypeOK, ProgTypeOK, MainLabels, IsrLabels
  <2>3. ThreadTypeOK'
    BY <1>1, <1>4, <1>5, <1>7, <1>8 DEF IInv, TypeOK, ThreadTypeOK, MainLabels,
       IsrLabels
  <2> QED BY <2>1, <2>2, <2>3 DEF TypeOK
<1>10. ChannelOK'
  BY <1>8 DEF IInv, ChannelOK
<1>11. ScriptOK'
  BY <1>1, <1>4, <1>5, <1>7, <1>8 DEF IInv, ScriptOK
<1>12. InterruptsOK'
  BY <1>1, <1>7, <1>8 DEF IInv, InterruptsOK
<1>13. SendingOK'
  BY <1>1, <1>7, <1>8 DEF IInv, SendingOK
<1>14. ReceivingOK'
  BY <1>1, <1>7, <1>8 DEF IInv, ReceivingOK
<1>15. MovingOK'
  BY <1>1, <1>7, <1>8 DEF IInv, MovingOK
<1>16. FlagOK'
  BY <1>1, <1>7, <1>8 DEF IInv, FlagOK
<1>17. AnswerOK'
  BY <1>1, <1>4, <1>5, <1>7, <1>8 DEF IInv, AnswerOK
<1>18. UnfinishedOK'
  BY <1>1, <1>4, <1>5, <1>7, <1>8 DEF IInv, UnfinishedOK
<1>19. TransferOK'
  BY <1>1, <1>4, <1>5, <1>7, <1>8 DEF IInv, TransferOK, Address, Fetched
<1> QED BY <1>9, <1>10, <1>11, <1>12, <1>13, <1>14, <1>15, <1>16, <1>17, <1>18, <1>19 DEF IInv

(* The handler reads the answer in step, or rejects an invalid command.    *)
LEMMA GetIsr == ASSUME IInv, Get("isr") PROVE IInv'
<1>1. pc["isr"] = "get"
  BY DEF IInv, TypeOK, IrqTypeOK, ThreadTypeOK, ScriptOK, Get, At, Runs, Deliverable
<1>2. /\ InRecalibrate({"wait", "hang"}) \/ InSeek({"drain", "ok"})
      /\ ~seeking
  BY <1>1 DEF IInv, InterruptsOK, SendingOK
<1>3. cmd["isr"] = "sense"
  BY DEF IInv, TypeOK, ThreadTypeOK
<1>4. /\ phase = "result" /\ op \in {"sense", "invalid"} /\ rqm
      /\ out = taken["isr"]
      /\ taken["isr"] \in {0, 1}
      /\ (op = "invalid" => flaw = 1 /\ taken["isr"] = 0)
  BY <1>1 DEF IInv, AnswerOK, TypeOK, ThreadTypeOK, Threads
<1>5. pc' = [pc EXCEPT !["isr"] =
              IF flaw = out + 1 /\ taken["isr"] < Checked["sense"] THEN "error"
              ELSE IF taken["isr"] + 1 = ResultSize["sense"] THEN "ok"
              ELSE "poll_result"]
  BY <1>1, <1>2, <1>3, <1>4 DEF Get, Obtained, Goto, InStep
<1>6. taken' = [taken EXCEPT !["isr"] = @ + 1]
  BY DEF Get, Obtained
<1>7. /\ taken'["main"] = taken["main"]
      /\ taken'["isr"] = taken["isr"] + 1
  BY <1>6 DEF IInv, TypeOK, ThreadTypeOK, Threads
<1>8. /\ rqm' = FALSE
      /\ out' = out + 1
      /\ line' = line
  BY <1>4 DEF Get
<1>9. /\ out' \in Nat
      /\ rqm' \in BOOLEAN
  <2>1. out' \in Nat
    BY <1>4, <1>8
  <2>2. rqm' \in BOOLEAN
    BY <1>4, <1>8
  <2> QED BY <2>1, <2>2
<1>10. /\ pc'["main"] = pc["main"]
       /\ (taken["isr"] = 1 => pc'["isr"] = "ok")
       /\ (taken["isr"] = 0 => pc'["isr"] = IF flaw = 1 THEN "error" ELSE "poll_result")
       /\ pc' \in [Threads -> MainLabels \union IsrLabels]
       /\ taken' \in [Threads -> Nat]
  <2>1. pc'["main"] = pc["main"]
    BY <1>1, <1>5, Sizes, After DEF IInv, TypeOK, ThreadTypeOK, Get, Goto, Threads,
       MainLabels, IsrLabels, Obtained, InStep
  <2>2. (taken["isr"] = 1 => pc'["isr"] = "ok")
    BY <1>1, <1>5, <1>6, <1>7, Sizes, After DEF IInv, TypeOK, ThreadTypeOK, Get,
       Goto, Threads, MainLabels, IsrLabels, Obtained, InStep
  <2>3. (taken["isr"] = 0 => pc'["isr"] = IF flaw = 1 THEN "error" ELSE "poll_result")
    BY <1>1, <1>2, <1>4, <1>5, <1>6, <1>7, Sizes, After DEF IInv, TypeOK,
       ThreadTypeOK, Get, Goto, Threads, MainLabels, IsrLabels, Obtained, InStep
  <2>4. pc' \in [Threads -> MainLabels \union IsrLabels]
    BY <1>1, <1>5, Sizes, After DEF IInv, TypeOK, ThreadTypeOK, Get, Goto, Threads,
       MainLabels, IsrLabels, Obtained, InStep
  <2>5. taken' \in [Threads -> Nat]
    BY <1>1, <1>6, <1>7, Sizes, After DEF IInv, TypeOK, ThreadTypeOK, Get, Goto,
       Threads, MainLabels, IsrLabels, Obtained, InStep
  <2> QED BY <2>1, <2>2, <2>3, <2>4, <2>5
<1>11. UNCHANGED <<task, step, sector, count, block, cmd, sent, irqReceived,
                   handleState, waited, phase, op, got, arg, flaw, seeking,
                   senseDue, irr, inService, auto, cursor, buf, dest, outcome>>
  BY DEF Get, prog, flags, dma, result, Obtained
<1>12. TypeOK'
  <2>1. FlagsTypeOK' /\ DmaTypeOK' /\ ResultTypeOK'
    BY <1>11 DEF IInv, TypeOK, FlagsTypeOK, DmaTypeOK, ResultTypeOK
  <2>2. ProgTypeOK'
    BY <1>1, <1>5, <1>10, <1>11 DEF IInv, TypeOK, ProgTypeOK, MainLabels, IsrLabels
  <2>3. ThreadTypeOK'
    BY <1>1, <1>5, <1>6, <1>7, <1>10, <1>11 DEF IInv, TypeOK, ThreadTypeOK,
       MainLabels, IsrLabels
  <2>4. FdcTypeOK'
    BY <1>9, <1>11 DEF IInv, TypeOK, FdcTypeOK
  <2>5. IrqTypeOK'
    BY <1>8, <1>11 DEF IInv, TypeOK, IrqTypeOK
  <2> QED BY <2>1, <2>2, <2>3, <2>4, <2>5 DEF TypeOK
<1>13. ChannelOK'
  BY <1>11 DEF IInv, ChannelOK
<1>14. ScriptOK'
  BY <1>1, <1>5, <1>6, <1>7, <1>10, <1>11 DEF IInv, ScriptOK
<1>15. InterruptsOK'
  BY <1>1, <1>5, <1>10, <1>11 DEF IInv, InterruptsOK
<1>16. SendingOK'
  BY <1>1, <1>5, <1>8, <1>9, <1>10, <1>11 DEF IInv, SendingOK
<1>17. ReceivingOK'
  BY <1>1, <1>5, <1>8, <1>9, <1>10, <1>11 DEF IInv, ReceivingOK
<1>18. MovingOK'
  BY <1>1, <1>2, <1>3, <1>4, <1>5, <1>8, <1>9, <1>10, <1>11 DEF IInv, MovingOK
<1>19. FlagOK'
  BY <1>1, <1>5, <1>10, <1>11 DEF IInv, FlagOK
<1>20. AnswerOK'
  BY <1>1, <1>2, <1>3, <1>4, <1>5, <1>6, <1>7, <1>8, <1>9, <1>10, <1>11 DEF IInv,
     AnswerOK
<1>21. UnfinishedOK'
  BY <1>1, <1>5, <1>6, <1>7, <1>8, <1>9, <1>10, <1>11 DEF IInv, UnfinishedOK
<1>22. TransferOK'
  BY <1>1, <1>5, <1>6, <1>7, <1>10, <1>11 DEF IInv, TransferOK, Address, Fetched
<1> QED BY <1>12, <1>13, <1>14, <1>15, <1>16, <1>17, <1>18, <1>19, <1>20, <1>21, <1>22 DEF IInv

(* The handler is entered while the head does not move.                    *)
LEMMA DeliverStep == ASSUME IInv, Deliver PROVE IInv'
<1>1. /\ pc["isr"] = "idle"
      /\ irr
      /\ ~inService
  BY DEF IInv, TypeOK, IrqTypeOK, ThreadTypeOK, ScriptOK, Deliver, At, Runs,
     Deliverable
<1>2. /\ irr' = FALSE
      /\ inService' = TRUE
  BY DEF Deliver
<1>3. ~seeking
  BY <1>1 DEF IInv, InterruptsOK
<1>4. /\ pc'["main"] = pc["main"]
      /\ pc'["isr"] = "entry"
      /\ pc' \in [Threads -> MainLabels \union IsrLabels]
  BY <1>1 DEF IInv, TypeOK, ThreadTypeOK, Deliver, Goto, Threads, MainLabels,
     IsrLabels
<1>5. UNCHANGED <<task, step, sector, count, block, cmd, sent, taken, irqReceived,
                  handleState, waited, rqm, phase, op, got, arg, out, flaw, seeking,
                  senseDue, line, auto, cursor, buf, dest, outcome>>
  BY DEF Deliver, prog, flags, fdc, dma, result
<1>6. TypeOK'
  <2>1. FlagsTypeOK' /\ FdcTypeOK' /\ DmaTypeOK' /\ ResultTypeOK'
    BY <1>5 DEF IInv, TypeOK, FlagsTypeOK, FdcTypeOK, DmaTypeOK, ResultTypeOK
  <2>2. ProgTypeOK'
    BY <1>1, <1>4, <1>5 DEF IInv, TypeOK, ProgTypeOK, MainLabels, IsrLabels
  <2>3. ThreadTypeOK'
    BY <1>1, <1>4, <1>5 DEF IInv, TypeOK, ThreadTypeOK, MainLabels, IsrLabels
  <2>4. IrqTypeOK'
    BY <1>1, <1>2, <1>5 DEF IInv, TypeOK, IrqTypeOK
  <2> QED BY <2>1, <2>2, <2>3, <2>4 DEF TypeOK
<1>7. ChannelOK'
  BY <1>5 DEF IInv, ChannelOK
<1>8. ScriptOK'
  BY <1>1, <1>2, <1>4, <1>5 DEF IInv, ScriptOK
<1>9. InterruptsOK'
  BY <1>1, <1>2, <1>4, <1>5 DEF IInv, InterruptsOK
<1>10. SendingOK'
  BY <1>1, <1>4, <1>5 DEF IInv, SendingOK
<1>11. ReceivingOK'
  BY <1>1, <1>4, <1>5 DEF IInv, ReceivingOK
<1>12. MovingOK'
  BY <1>1, <1>2, <1>4, <1>5 DEF IInv, MovingOK
<1>13. FlagOK'
  BY <1>1, <1>2, <1>4, <1>5 DEF IInv, FlagOK
<1>14. AnswerOK'
  BY <1>1, <1>4, <1>5 DEF IInv, AnswerOK
<1>15. UnfinishedOK'
  BY <1>1, <1>4, <1>5 DEF IInv, UnfinishedOK
<1>16. TransferOK'
  BY <1>1, <1>4, <1>5 DEF IInv, TransferOK, Address, Fetched
<1> QED BY <1>6, <1>7, <1>8, <1>9, <1>10, <1>11, <1>12, <1>13, <1>14, <1>15, <1>16 DEF IInv

(* A handler told to leave the controller alone records the interrupt.     *)
LEMMA HandleLaterStep == ASSUME IInv, HandleLater PROVE IInv'
<1>1. /\ pc["isr"] = "entry"
      /\ handleState # 0
  BY DEF IInv, TypeOK, IrqTypeOK, ThreadTypeOK, ScriptOK, HandleLater, At, Runs,
     Deliverable
<1>2. /\ ~seeking
      /\ pc["main"] \notin {"task", "loop", "stopped"}
  BY <1>1 DEF IInv, InterruptsOK
<1>3. /\ handleState' = 0
      /\ irqReceived' = 1
  BY DEF HandleLater
<1>4. irqReceived' # 0
  BY <1>3
<1>5. /\ (cmd["main"] = "recalibrate" => Job(task) = "floppy_init")
      /\ (cmd["main"] \in {"seek", "read"} => Job(task) # "floppy_init")
  BY ScriptFacts, <1>2 DEF IInv
<1>6. /\ pc'["main"] = pc["main"]
      /\ pc'["isr"] = "eoi"
      /\ pc' \in [Threads -> MainLabels \union IsrLabels]
  BY <1>1 DEF IInv, TypeOK, ThreadTypeOK, HandleLater, Goto, Threads, MainLabels,
     IsrLabels
<1>7. UNCHANGED <<task, step, sector, count, block, cmd, sent, taken, waited, rqm,
                  phase, op, got, arg, out, flaw, seeking, senseDue, line, irr,
                  inService, auto, cursor, buf, dest, outcome>>
  BY DEF HandleLater, prog, fdc, irq, dma, result
<1>8. TypeOK'
  <2>1. FdcTypeOK' /\ IrqTypeOK' /\ DmaTypeOK' /\ ResultTypeOK'
    BY <1>7 DEF IInv, TypeOK, FdcTypeOK, IrqTypeOK, DmaTypeOK, ResultTypeOK
  <2>2. ProgTypeOK'
    BY <1>1, <1>6, <1>7 DEF IInv, TypeOK, ProgTypeOK, MainLabels, IsrLabels
  <2>3. ThreadTypeOK'
    BY <1>1, <1>6, <1>7 DEF IInv, TypeOK, ThreadTypeOK, MainLabels, IsrLabels
  <2>4. FlagsTypeOK'
    BY <1>1, <1>3, <1>4, <1>7 DEF IInv, TypeOK, FlagsTypeOK
  <2> QED BY <2>1, <2>2, <2>3, <2>4 DEF TypeOK
<1>9. ChannelOK'
  BY <1>7 DEF IInv, ChannelOK
<1>10. ScriptOK'
  BY <1>1, <1>6, <1>7 DEF IInv, ScriptOK
<1>11. InterruptsOK'
  BY <1>1, <1>3, <1>6, <1>7 DEF IInv, InterruptsOK
<1>12. SendingOK'
  BY <1>1, <1>6, <1>7 DEF IInv, SendingOK
<1>13. ReceivingOK'
  BY <1>1, <1>6, <1>7 DEF IInv, ReceivingOK
<1>14. MovingOK'
  BY <1>1, <1>6, <1>7 DEF IInv, MovingOK
<1>15. FlagOK'
  BY <1>1, <1>2, <1>3, <1>4, <1>5, <1>6, <1>7 DEF IInv, FlagOK, InterruptsOK,
     ReceivingOK, MovingOK, AnswerOK
<1>16. AnswerOK'
  BY <1>1, <1>6, <1>7 DEF IInv, AnswerOK
<1>17. UnfinishedOK'
  BY <1>1, <1>6, <1>7 DEF IInv, UnfinishedOK
<1>18. TransferOK'
  BY <1>1, <1>6, <1>7 DEF IInv, TransferOK, Address, Fetched
<1> QED BY <1>8, <1>9, <1>10, <1>11, <1>12, <1>13, <1>14, <1>15, <1>16, <1>17, <1>18 DEF IInv

(* A handler that was not told so begins a sense command.                  *)
LEMMA HandleNowStep == ASSUME IInv, HandleNow PROVE IInv'
<1>1. /\ pc["isr"] = "entry"
      /\ handleState = 0
  BY DEF IInv, TypeOK, IrqTypeOK, ThreadTypeOK, ScriptOK, HandleNow, At, Runs,
     Deliverable
<1>2. ~seeking
  BY <1>1 DEF IInv, InterruptsOK
<1>3. cmd["isr"] = "sense"
  BY DEF IInv, TypeOK, ThreadTypeOK
<1>4. handleState' = handleState
  BY DEF HandleNow, Issue, HandleStateFor
<1>5. cmd' = cmd
  BY <1>3 DEF HandleNow, Issue, IInv, TypeOK, ThreadTypeOK, Threads
<1>6. /\ sent' = [sent EXCEPT !["isr"] = 0]
      /\ taken' = [taken EXCEPT !["isr"] = 0]
  BY DEF HandleNow, Issue
<1>7. /\ sent'["main"] = sent["main"] /\ taken'["main"] = taken["main"]
      /\ sent'["isr"] = 0 /\ taken'["isr"] = 0
  BY <1>6 DEF IInv, TypeOK, ThreadTypeOK, Threads
<1>8. /\ InRecalibrate({"wait", "hang"}) \/ InSeek({"drain", "ok"}) \/ InRead({"drain"})
      /\ ~seeking
  BY <1>1, <1>5 DEF IInv, InterruptsOK
<1>9. /\ (cmd["main"] = "recalibrate" => Job(task) = "floppy_init")
      /\ (cmd["main"] \in {"seek", "read"} => Job(task) # "floppy_init")
  BY ScriptFacts, <1>8 DEF IInv
<1>10. /\ pc'["main"] = pc["main"]
       /\ pc'["isr"] = "status"
       /\ pc' \in [Threads -> MainLabels \union IsrLabels]
       /\ sent' \in [Threads -> Nat]
       /\ taken' \in [Threads -> Nat]
       /\ cmd' \in [Threads -> Commands]
  BY <1>1, <1>5, <1>6, <1>7 DEF IInv, TypeOK, ThreadTypeOK, HandleNow, Goto, Threads,
     MainLabels, IsrLabels, Issue
<1>11. UNCHANGED <<task, step, sector, count, block, irqReceived, waited, rqm,
                   phase, op, got, arg, out, flaw, seeking, senseDue, line, irr,
                   inService, auto, cursor, buf, dest, outcome>>
  BY DEF HandleNow, prog, fdc, irq, dma, result, Issue
<1>12. TypeOK'
  <2>1. FdcTypeOK' /\ IrqTypeOK' /\ DmaTypeOK' /\ ResultTypeOK'
    BY <1>11 DEF IInv, TypeOK, FdcTypeOK, IrqTypeOK, DmaTypeOK, ResultTypeOK
  <2>2. ProgTypeOK'
    BY <1>1, <1>10, <1>11 DEF IInv, TypeOK, ProgTypeOK, MainLabels, IsrLabels
  <2>3. ThreadTypeOK'
    BY <1>1, <1>5, <1>6, <1>7, <1>10 DEF IInv, TypeOK, ThreadTypeOK, MainLabels,
       IsrLabels
  <2>4. FlagsTypeOK'
    BY <1>1, <1>4, <1>11 DEF IInv, TypeOK, FlagsTypeOK
  <2> QED BY <2>1, <2>2, <2>3, <2>4 DEF TypeOK
<1>13. ChannelOK'
  BY <1>11 DEF IInv, ChannelOK
<1>14. ScriptOK'
  BY <1>1, <1>5, <1>6, <1>7, <1>10, <1>11 DEF IInv, ScriptOK
<1>15. InterruptsOK'
  BY <1>1, <1>4, <1>5, <1>10, <1>11 DEF IInv, InterruptsOK
<1>16. SendingOK'
  BY <1>1, <1>5, <1>6, <1>7, <1>10, <1>11 DEF IInv, SendingOK
<1>17. ReceivingOK'
  BY <1>1, <1>5, <1>10, <1>11 DEF IInv, ReceivingOK
<1>18. MovingOK'
  BY <1>1, <1>5, <1>10, <1>11 DEF IInv, MovingOK
<1>19. FlagOK'
  BY <1>1, <1>5, <1>10, <1>11 DEF IInv, FlagOK
<1>20. AnswerOK'
  BY <1>1, <1>5, <1>6, <1>7, <1>10, <1>11 DEF IInv, AnswerOK
<1>21. UnfinishedOK'
  BY <1>1, <1>5, <1>6, <1>7, <1>10, <1>11 DEF IInv, UnfinishedOK
<1>22. TransferOK'
  BY <1>1, <1>5, <1>6, <1>7, <1>10, <1>11 DEF IInv, TransferOK, Address, Fetched
<1> QED BY <1>12, <1>13, <1>14, <1>15, <1>16, <1>17, <1>18, <1>19, <1>20, <1>21, <1>22 DEF IInv

(* The handler records what its sense command said.                        *)
LEMMA SensedStep == ASSUME IInv, Sensed PROVE IInv'
<1>1. pc["isr"] \in {"ok", "error"}
  BY DEF IInv, TypeOK, IrqTypeOK, ThreadTypeOK, ScriptOK, Sensed, At, Runs,
     Deliverable
<1>2. /\ InRecalibrate({"wait", "hang"}) \/ InSeek({"drain", "ok"}) \/ InRead({"drain"})
      /\ ~seeking
  BY <1>1 DEF IInv, InterruptsOK
<1>3. /\ irqReceived' \in {1, Err}
      /\ irqReceived' # 0
  BY DEF Sensed, Err
<1>4. /\ (cmd["main"] = "recalibrate" => Job(task) = "floppy_init")
      /\ (cmd["main"] \in {"seek", "read"} => Job(task) # "floppy_init")
  BY ScriptFacts, <1>2 DEF IInv
<1>5. /\ pc'["main"] = pc["main"]
      /\ pc'["isr"] = "eoi"
      /\ pc' \in [Threads -> MainLabels \union IsrLabels]
  BY <1>1 DEF IInv, TypeOK, ThreadTypeOK, Sensed, Goto, Threads, MainLabels,
     IsrLabels
<1>6. UNCHANGED <<task, step, sector, count, block, cmd, sent, taken, handleState,
                  waited, rqm, phase, op, got, arg, out, flaw, seeking, senseDue,
                  line, irr, inService, auto, cursor, buf, dest, outcome>>
  BY DEF Sensed, prog, fdc, irq, dma, result
<1>7. TypeOK'
  <2>1. FdcTypeOK' /\ IrqTypeOK' /\ DmaTypeOK' /\ ResultTypeOK'
    BY <1>6 DEF IInv, TypeOK, FdcTypeOK, IrqTypeOK, DmaTypeOK, ResultTypeOK
  <2>2. ProgTypeOK'
    BY <1>1, <1>5, <1>6 DEF IInv, TypeOK, ProgTypeOK, MainLabels, IsrLabels
  <2>3. ThreadTypeOK'
    BY <1>1, <1>5, <1>6 DEF IInv, TypeOK, ThreadTypeOK, MainLabels, IsrLabels
  <2>4. FlagsTypeOK'
    BY <1>1, <1>3, <1>6 DEF IInv, TypeOK, FlagsTypeOK
  <2> QED BY <2>1, <2>2, <2>3, <2>4 DEF TypeOK
<1>8. ChannelOK'
  BY <1>6 DEF IInv, ChannelOK
<1>9. ScriptOK'
  BY <1>1, <1>5, <1>6 DEF IInv, ScriptOK
<1>10. InterruptsOK'
  BY <1>1, <1>5, <1>6 DEF IInv, InterruptsOK
<1>11. SendingOK'
  BY <1>1, <1>5, <1>6 DEF IInv, SendingOK
<1>12. ReceivingOK'
  BY <1>1, <1>5, <1>6 DEF IInv, ReceivingOK
<1>13. MovingOK'
  BY <1>1, <1>5, <1>6 DEF IInv, MovingOK
<1>14. FlagOK'
  BY <1>1, <1>2, <1>3, <1>4, <1>5, <1>6 DEF IInv, FlagOK, InterruptsOK, ReceivingOK,
     MovingOK, AnswerOK
<1>15. AnswerOK'
  BY <1>1, <1>5, <1>6 DEF IInv, AnswerOK
<1>16. UnfinishedOK'
  BY <1>1, <1>5, <1>6 DEF IInv, UnfinishedOK
<1>17. TransferOK'
  BY <1>1, <1>5, <1>6 DEF IInv, TransferOK, Address, Fetched
<1> QED BY <1>7, <1>8, <1>9, <1>10, <1>11, <1>12, <1>13, <1>14, <1>15, <1>16, <1>17 DEF IInv

(* The handler acknowledges the interrupt and returns.                     *)
LEMMA EndOfInterruptStep == ASSUME IInv, EndOfInterrupt PROVE IInv'
<1>1. pc["isr"] = "eoi"
  BY DEF IInv, TypeOK, IrqTypeOK, ThreadTypeOK, ScriptOK, EndOfInterrupt, At, Runs,
     Deliverable
<1>2. inService' = FALSE
  BY DEF EndOfInterrupt, Acknowledge
<1>3. /\ pc'["main"] = pc["main"]
      /\ pc'["isr"] = "idle"
      /\ pc' \in [Threads -> MainLabels \union IsrLabels]
  BY <1>1 DEF IInv, TypeOK, ThreadTypeOK, EndOfInterrupt, Goto, Threads, MainLabels,
     IsrLabels
<1>4. UNCHANGED <<task, step, sector, count, block, cmd, sent, taken, irqReceived,
                  handleState, waited, rqm, phase, op, got, arg, out, flaw, seeking,
                  senseDue, line, irr, auto, cursor, buf, dest, outcome>>
  BY DEF EndOfInterrupt, prog, flags, fdc, dma, result, Acknowledge
<1>5. TypeOK'
  <2>1. FlagsTypeOK' /\ FdcTypeOK' /\ DmaTypeOK' /\ ResultTypeOK'
    BY <1>4 DEF IInv, TypeOK, FlagsTypeOK, FdcTypeOK, DmaTypeOK, ResultTypeOK
  <2>2. ProgTypeOK'
    BY <1>1, <1>3, <1>4 DEF IInv, TypeOK, ProgTypeOK, MainLabels, IsrLabels
  <2>3. ThreadTypeOK'
    BY <1>1, <1>3, <1>4 DEF IInv, TypeOK, ThreadTypeOK, MainLabels, IsrLabels
  <2>4. IrqTypeOK'
    BY <1>1, <1>2, <1>4 DEF IInv, TypeOK, IrqTypeOK
  <2> QED BY <2>1, <2>2, <2>3, <2>4 DEF TypeOK
<1>6. ChannelOK'
  BY <1>4 DEF IInv, ChannelOK
<1>7. ScriptOK'
  BY <1>1, <1>2, <1>3, <1>4 DEF IInv, ScriptOK
<1>8. InterruptsOK'
  BY <1>1, <1>3, <1>4 DEF IInv, InterruptsOK
<1>9. SendingOK'
  BY <1>1, <1>3, <1>4 DEF IInv, SendingOK
<1>10. ReceivingOK'
  BY <1>1, <1>3, <1>4 DEF IInv, ReceivingOK
<1>11. MovingOK'
  BY <1>1, <1>3, <1>4 DEF IInv, MovingOK
<1>12. FlagOK'
  BY <1>1, <1>3, <1>4 DEF IInv, FlagOK
<1>13. AnswerOK'
  BY <1>1, <1>3, <1>4 DEF IInv, AnswerOK
<1>14. UnfinishedOK'
  BY <1>1, <1>3, <1>4 DEF IInv, UnfinishedOK
<1>15. TransferOK'
  BY <1>1, <1>3, <1>4 DEF IInv, TransferOK, Address, Fetched
<1> QED BY <1>5, <1>6, <1>7, <1>8, <1>9, <1>10, <1>11, <1>12, <1>13, <1>14, <1>15 DEF IInv

(* floppy_init starts with an idle controller.                             *)
LEMMA FloppyInitStep == ASSUME IInv, FloppyInit PROVE IInv'
<1>1. /\ pc["main"] = "task"
      /\ pc["isr"] = "idle"
      /\ ~irr
      /\ ~inService
      /\ Job(task) = "floppy_init"
  BY DEF IInv, TypeOK, IrqTypeOK, ThreadTypeOK, ScriptOK, FloppyInit, At, Runs,
     Deliverable
<1>2. TypeOK
  BY DEF IInv
<1>3. task = 1
  BY <1>1, <1>2, TaskFacts, JobAt
<1>4. phase = "command" /\ got = 0 /\ rqm
  BY <1>1, <1>2, <1>3 DEF IInv, AnswerOK
<1>5. /\ ThreadTypeOK'
      /\ pc'["main"] = "poll"
      /\ pc'["isr"] = pc["isr"]
      /\ cmd'["main"] = "version"
      /\ sent'["main"] = 0 /\ sent'["isr"] = sent["isr"]
      /\ taken'["main"] = 0 /\ taken'["isr"] = taken["isr"]
      /\ handleState' = handleState
  <2>1. ThreadTypeOK'
    BY <1>2, IssueFacts DEF FloppyInit, Commands
  <2>2. pc'["main"] = "poll"
    BY <1>2, IssueFacts DEF FloppyInit, Commands
  <2>3. pc'["isr"] = pc["isr"]
    BY <1>2, IssueFacts DEF FloppyInit, Commands
  <2>4. cmd'["main"] = "version"
    BY <1>2, IssueFacts DEF FloppyInit, Commands
  <2>5. sent'["main"] = 0 /\ sent'["isr"] = sent["isr"]
    BY <1>2, IssueFacts DEF FloppyInit, Commands
  <2>6. taken'["main"] = 0 /\ taken'["isr"] = taken["isr"]
    BY <1>2, IssueFacts DEF FloppyInit, Commands
  <2>7. handleState' = handleState
    BY <1>2, IssueFacts DEF FloppyInit, Commands
  <2> QED BY <2>1, <2>2, <2>3, <2>4, <2>5, <2>6, <2>7
<1>6. /\ step' = 1
      /\ irqReceived' = 0
  BY DEF FloppyInit, SetupIdt
<1>7. /\ Len(Script(Job(task))) = 5
      /\ Script(Job(task))[1] = "version"
  BY <1>1 DEF Script
<1>8. UNCHANGED <<task, sector, count, block, waited, rqm, phase, op, got, arg, out,
                  flaw, seeking, senseDue, line, irr, inService, auto, cursor, buf,
                  dest, outcome>>
  BY DEF FloppyInit, fdc, irq, dma, result, Issue, SetupIdt
<1>9. TypeOK'
  <2>1. FdcTypeOK' /\ IrqTypeOK' /\ DmaTypeOK' /\ ResultTypeOK'
    BY <1>8 DEF IInv, TypeOK, FdcTypeOK, IrqTypeOK, DmaTypeOK, ResultTypeOK
  <2>2. ProgTypeOK'
    BY <1>1, <1>5, <1>6, <1>8 DEF IInv, TypeOK, ProgTypeOK, MainLabels, IsrLabels
  <2>3. ThreadTypeOK'
    BY <1>1, <1>5
  <2>4. FlagsTypeOK'
    BY <1>1, <1>5, <1>6, <1>8 DEF IInv, TypeOK, FlagsTypeOK
  <2> QED BY <2>1, <2>2, <2>3, <2>4 DEF TypeOK
<1>10. ChannelOK'
  BY <1>8 DEF IInv, ChannelOK
<1>11. ScriptOK'
  BY <1>1, <1>2, <1>3, <1>5, <1>6, <1>7, <1>8 DEF IInv, ScriptOK
<1>12. InterruptsOK'
  BY <1>1, <1>5, <1>8 DEF IInv, InterruptsOK
<1>13. SendingOK'
  BY <1>1, <1>2, <1>4, <1>5, <1>8, Sizes DEF IInv, SendingOK
<1>14. ReceivingOK'
  BY <1>1, <1>5, <1>8 DEF IInv, ReceivingOK
<1>15. MovingOK'
  BY <1>1, <1>5, <1>8 DEF IInv, MovingOK
<1>16. FlagOK'
  BY <1>1, <1>5, <1>6, <1>8 DEF IInv, FlagOK
<1>17. AnswerOK'
  BY <1>1, <1>5, <1>8 DEF IInv, AnswerOK
<1>18. UnfinishedOK'
  BY <1>1, <1>2, <1>3, <1>4, <1>5, <1>7, <1>8 DEF IInv, UnfinishedOK
<1>19. TransferOK'
  BY <1>1, <1>5, <1>8 DEF IInv, TransferOK, Address, Fetched
<1> QED BY <1>9, <1>10, <1>11, <1>12, <1>13, <1>14, <1>15, <1>16, <1>17, <1>18, <1>19 DEF IInv

(* floppy_dma points the channel at the start of the transfer buffer.      *)
LEMMA FloppyDmaStep == ASSUME IInv, FloppyDma PROVE IInv'
<1>1. /\ pc["main"] = "task"
      /\ pc["isr"] = "idle"
      /\ ~irr
      /\ ~inService
      /\ Job(task) = "floppy_dma"
  BY DEF IInv, TypeOK, IrqTypeOK, ThreadTypeOK, ScriptOK, FloppyDma, At, Runs,
     Deliverable
<1>2. TypeOK
  BY DEF IInv
<1>3. task = 2
  BY <1>1, <1>2, TaskFacts, JobAt
<1>4. /\ ProgTypeOK'
      /\ ThreadTypeOK'
      /\ task \in Nat \ {0} /\ task' = task + 1
      /\ Job(task') # "floppy_init"
      /\ pc'["main"] \in {"task", "stopped"}
      /\ pc'["isr"] = pc["isr"]
  <2>1. ProgTypeOK'
    BY <1>1, <1>2, FinishFacts DEF FloppyDma
  <2>2. ThreadTypeOK'
    BY <1>1, <1>2, FinishFacts DEF FloppyDma
  <2>3. task \in Nat \ {0} /\ task' = task + 1
    BY <1>1, <1>2, FinishFacts DEF FloppyDma
  <2>4. Job(task') # "floppy_init"
    BY <1>1, <1>2, FinishFacts DEF FloppyDma
  <2>5. pc'["main"] \in {"task", "stopped"}
    BY <1>1, <1>2, FinishFacts DEF FloppyDma
  <2>6. pc'["isr"] = pc["isr"]
    BY <1>1, <1>2, FinishFacts DEF FloppyDma
  <2> QED BY <2>1, <2>2, <2>3, <2>4, <2>5, <2>6
<1>5. cursor' = 0
  BY DEF FloppyDma
<1>6. /\ phase # "execute"
      /\ ~(phase = "command" /\ got > 0 /\ op = "read")
  BY <1>1 DEF IInv, AnswerOK, ReceivingOK
<1>7. ~seeking
  BY <1>1 DEF IInv, InterruptsOK
<1>8. UNCHANGED <<step, sector, count, block, cmd, sent, taken, irqReceived,
                  handleState, waited, rqm, phase, op, got, arg, out, flaw, seeking,
                  senseDue, line, irr, inService, auto, buf, dest, outcome>>
  BY DEF FloppyDma, flags, fdc, irq, result, Finish
<1>9. TypeOK'
  <2>1. FlagsTypeOK' /\ FdcTypeOK' /\ IrqTypeOK' /\ ResultTypeOK'
    BY <1>8 DEF IInv, TypeOK, FlagsTypeOK, FdcTypeOK, IrqTypeOK, ResultTypeOK
  <2>2. ProgTypeOK'
    BY <1>1, <1>4, <1>8
  <2>3. ThreadTypeOK'
    BY <1>1, <1>4, <1>8
  <2>4. DmaTypeOK'
    BY <1>1, <1>5, <1>8 DEF IInv, TypeOK, DmaTypeOK, Halves
  <2> QED BY <2>1, <2>2, <2>3, <2>4 DEF TypeOK
<1>10. ScriptOK'
  BY <1>1, <1>4, <1>8 DEF IInv, ScriptOK
<1>11. ChannelOK'
  BY <1>1, <1>2, <1>3, <1>4, <1>5, <1>8 DEF IInv, ChannelOK
<1>12. InterruptsOK'
  BY <1>1, <1>4, <1>8 DEF IInv, InterruptsOK
<1>13. SendingOK'
  BY <1>1, <1>4, <1>8 DEF IInv, SendingOK
<1>14. ReceivingOK'
  BY <1>1, <1>4, <1>8 DEF IInv, ReceivingOK
<1>15. MovingOK'
  BY <1>1, <1>4, <1>8 DEF IInv, MovingOK
<1>16. FlagOK'
  BY <1>1, <1>4, <1>8 DEF IInv, FlagOK
<1>17. AnswerOK'
  BY <1>1, <1>4, <1>8 DEF IInv, AnswerOK
<1>18. UnfinishedOK'
  BY <1>1, <1>4, <1>5, <1>8 DEF IInv, UnfinishedOK
<1>19. TransferOK'
  BY <1>1, <1>2, <1>3, <1>4, <1>6, <1>8 DEF IInv, TransferOK, Address, Fetched
<1> QED BY <1>9, <1>10, <1>11, <1>12, <1>13, <1>14, <1>15, <1>16, <1>17, <1>18, <1>19 DEF IInv

(* floppy_dma_setup_read makes the channel start over after each transfer. *)
LEMMA FloppyDmaSetupReadStep == ASSUME IInv, FloppyDmaSetupRead PROVE IInv'
<1>1. /\ pc["main"] = "task"
      /\ pc["isr"] = "idle"
      /\ ~irr
      /\ ~inService
      /\ Job(task) = "floppy_dma_setup_read"
  BY DEF IInv, TypeOK, IrqTypeOK, ThreadTypeOK, ScriptOK, FloppyDmaSetupRead, At,
     Runs, Deliverable
<1>2. TypeOK
  BY DEF IInv
<1>3. task = 3
  BY <1>1, <1>2, TaskFacts, JobAt
<1>4. cursor = 0
  BY <1>3 DEF IInv, ChannelOK
<1>5. /\ ProgTypeOK'
      /\ ThreadTypeOK'
      /\ task \in Nat \ {0} /\ task' = task + 1
      /\ Job(task') # "floppy_init"
      /\ pc'["main"] \in {"task", "stopped"}
      /\ pc'["isr"] = pc["isr"]
  <2>1. ProgTypeOK'
    BY <1>1, <1>2, FinishFacts DEF FloppyDmaSetupRead
  <2>2. ThreadTypeOK'
    BY <1>1, <1>2, FinishFacts DEF FloppyDmaSetupRead
  <2>3. task \in Nat \ {0} /\ task' = task + 1
    BY <1>1, <1>2, FinishFacts DEF FloppyDmaSetupRead
  <2>4. Job(task') # "floppy_init"
    BY <1>1, <1>2, FinishFacts DEF FloppyDmaSetupRead
  <2>5. pc'["main"] \in {"task", "stopped"}
    BY <1>1, <1>2, FinishFacts DEF FloppyDmaSetupRead
  <2>6. pc'["isr"] = pc["isr"]
    BY <1>1, <1>2, FinishFacts DEF FloppyDmaSetupRead
  <2> QED BY <2>1, <2>2, <2>3, <2>4, <2>5, <2>6
<1>6. auto' = TRUE
  BY DEF FloppyDmaSetupRead, SetMode
<1>7. /\ phase # "execute"
      /\ ~(phase = "command" /\ got > 0 /\ op = "read")
  BY <1>1 DEF IInv, AnswerOK, ReceivingOK
<1>8. ~seeking
  BY <1>1 DEF IInv, InterruptsOK
<1>9. UNCHANGED <<step, sector, count, block, cmd, sent, taken, irqReceived,
                  handleState, waited, rqm, phase, op, got, arg, out, flaw, seeking,
                  senseDue, line, irr, inService, cursor, buf, dest, outcome>>
  BY DEF FloppyDmaSetupRead, flags, fdc, irq, result, Finish, SetMode
<1>10. TypeOK'
  <2>1. FlagsTypeOK' /\ FdcTypeOK' /\ IrqTypeOK' /\ ResultTypeOK'
    BY <1>9 DEF IInv, TypeOK, FlagsTypeOK, FdcTypeOK, IrqTypeOK, ResultTypeOK
  <2>2. ProgTypeOK'
    BY <1>1, <1>5, <1>9
  <2>3. ThreadTypeOK'
    BY <1>1, <1>5, <1>9
  <2>4. DmaTypeOK'
    BY <1>1, <1>6, <1>9 DEF IInv, TypeOK, DmaTypeOK
  <2> QED BY <2>1, <2>2, <2>3, <2>4 DEF TypeOK
<1>11. ScriptOK'
  BY <1>1, <1>5, <1>9 DEF IInv, ScriptOK
<1>12. ChannelOK'
  BY <1>1, <1>2, <1>3, <1>4, <1>5, <1>6, <1>9 DEF IInv, ChannelOK
<1>13. InterruptsOK'
  BY <1>1, <1>5, <1>9 DEF IInv, InterruptsOK
<1>14. SendingOK'
  BY <1>1, <1>5, <1>9 DEF IInv, SendingOK
<1>15. ReceivingOK'
  BY <1>1, <1>5, <1>9 DEF IInv, ReceivingOK
<1>16. MovingOK'
  BY <1>1, <1>5, <1>9 DEF IInv, MovingOK
<1>17. FlagOK'
  BY <1>1, <1>5, <1>9 DEF IInv, FlagOK
<1>18. AnswerOK'
  BY <1>1, <1>5, <1>9 DEF IInv, AnswerOK
<1>19. UnfinishedOK'
  BY <1>1, <1>2, <1>3, <1>4, <1>5, <1>7, <1>9 DEF IInv, UnfinishedOK
<1>20. TransferOK'
  BY <1>1, <1>2, <1>3, <1>5, <1>7, <1>9 DEF IInv, TransferOK, Address, Fetched
<1> QED BY <1>10, <1>11, <1>12, <1>13, <1>14, <1>15, <1>16, <1>17, <1>18, <1>19, <1>20 DEF IInv

(* floppy_test begins a read of sector 0.                                  *)
LEMMA FloppyTestStep == ASSUME IInv, FloppyTest PROVE IInv'
<1>1. /\ pc["main"] = "task"
      /\ pc["isr"] = "idle"
      /\ ~irr
      /\ ~inService
      /\ Job(task) = "floppy_test"
  BY DEF IInv, TypeOK, IrqTypeOK, ThreadTypeOK, ScriptOK, FloppyTest, At, Runs,
     Deliverable
<1>2. TypeOK
  BY DEF IInv
<1>3. task \in {4, 5}
  BY <1>1, <1>2, TaskFacts, JobAt
<1>4. /\ ThreadTypeOK'
      /\ pc'["main"] = "status"
      /\ pc'["isr"] = pc["isr"]
      /\ cmd'["main"] = "read"
      /\ sent'["main"] = 0 /\ sent'["isr"] = sent["isr"]
      /\ taken'["main"] = 0 /\ taken'["isr"] = taken["isr"]
      /\ handleState' = 1
  <2>1. ThreadTypeOK'
    BY <1>2, IssueFacts DEF FloppyTest, Commands
  <2>2. pc'["main"] = "status"
    BY <1>2, IssueFacts DEF FloppyTest, Commands
  <2>3. pc'["isr"] = pc["isr"]
    BY <1>2, IssueFacts DEF FloppyTest, Commands
  <2>4. cmd'["main"] = "read"
    BY <1>2, IssueFacts DEF FloppyTest, Commands
  <2>5. sent'["main"] = 0 /\ sent'["isr"] = sent["isr"]
    BY <1>2, IssueFacts DEF FloppyTest, Commands
  <2>6. taken'["main"] = 0 /\ taken'["isr"] = taken["isr"]
    BY <1>2, IssueFacts DEF FloppyTest, Commands
  <2>7. handleState' = 1
    BY <1>2, IssueFacts DEF FloppyTest, Commands
  <2> QED BY <2>1, <2>2, <2>3, <2>4, <2>5, <2>6, <2>7
<1>5. /\ step' = 1
      /\ sector' = 0
  BY DEF FloppyTest
<1>6. /\ Len(Script(Job(task))) = 1
      /\ Script(Job(task))[1] = "read"
  BY <1>1 DEF Script
<1>7. /\ phase # "execute"
      /\ ~(phase = "command" /\ got > 0 /\ op = "read")
  BY <1>1 DEF IInv, AnswerOK, ReceivingOK
<1>8. ~seeking
  BY <1>1 DEF IInv, InterruptsOK
<1>9. UNCHANGED <<task, count, block, irqReceived, waited, rqm, phase, op, got, arg,
                  out, flaw, seeking, senseDue, line, irr, inService, auto, cursor,
                  buf, dest, outcome>>
  BY DEF FloppyTest, fdc, irq, dma, result, Issue
<1>10. TypeOK'
  <2>1. FdcTypeOK' /\ IrqTypeOK' /\ DmaTypeOK' /\ ResultTypeOK'
    BY <1>9 DEF IInv, TypeOK, FdcTypeOK, IrqTypeOK, DmaTypeOK, ResultTypeOK
  <2>2. ProgTypeOK'
    BY <1>1, <1>4, <1>5, <1>9 DEF IInv, TypeOK, ProgTypeOK, MainLabels, IsrLabels
  <2>3. ThreadTypeOK'
    BY <1>1, <1>4
  <2>4. FlagsTypeOK'
    BY <1>1, <1>4, <1>9 DEF IInv, TypeOK, FlagsTypeOK
  <2> QED BY <2>1, <2>2, <2>3, <2>4 DEF TypeOK
<1>11. ChannelOK'
  BY <1>9 DEF IInv, ChannelOK
<1>12. ScriptOK'
  BY <1>1, <1>2, <1>3, <1>4, <1>5, <1>6, <1>9 DEF IInv, ScriptOK
<1>13. InterruptsOK'
  BY <1>1, <1>4, <1>9 DEF IInv, InterruptsOK
<1>14. SendingOK'
  BY <1>1, <1>4, <1>9 DEF IInv, SendingOK
<1>15. ReceivingOK'
  BY <1>1, <1>4, <1>9 DEF IInv, ReceivingOK
<1>16. MovingOK'
  BY <1>1, <1>2, <1>4, <1>7, <1>8, <1>9 DEF IInv, MovingOK
<1>17. FlagOK'
  BY <1>1, <1>4, <1>9 DEF IInv, FlagOK
<1>18. AnswerOK'
  BY <1>1, <1>4, <1>9 DEF IInv, AnswerOK
<1>19. UnfinishedOK'
  BY <1>1, <1>4, <1>9 DEF IInv, UnfinishedOK
<1>20. TransferOK'
  BY <1>1, <1>2, <1>3, <1>4, <1>5, <1>6, <1>7, <1>9 DEF IInv, TransferOK, Address,
     Fetched
<1> QED BY <1>10, <1>11, <1>12, <1>13, <1>14, <1>15, <1>16, <1>17, <1>18, <1>19, <1>20 DEF IInv

(* fpy_copy_bytes is called with no interrupt pending.                     *)
LEMMA CopyBytesStep == ASSUME IInv, CopyBytes PROVE IInv'
<1>1. /\ pc["main"] = "task"
      /\ pc["isr"] = "idle"
      /\ ~irr
      /\ ~inService
      /\ Job(task) = "copy"
  BY DEF IInv, TypeOK, IrqTypeOK, ThreadTypeOK, ScriptOK, CopyBytes, At, Runs,
     Deliverable
<1>2. TypeOK
  BY DEF IInv
<1>3. Requests[Req].first \in Nat /\ Requests[Req].bytes \in Nat
  BY <1>1, <1>2, ReqFacts
<1>4. SectorValues \in Nat \ {0}
  BY DriverAssumption
<1>5. /\ sector' \in Nat
      /\ count' \in Int
      /\ block' \in Nat \ {0}
  <2>1. sector' \in Nat
    BY <1>3, <1>4 DEF CopyBytes
  <2>2. count' \in Int
    BY <1>3, <1>4 DEF CopyBytes
  <2>3. block' \in Nat \ {0}
    BY <1>3, <1>4 DEF CopyBytes
  <2> QED BY <2>1, <2>2, <2>3
<1>6. irqReceived' \in {0, irqReceived}
  BY DEF CopyBytes, SetupIdt
<1>7. /\ phase # "execute"
      /\ ~(phase = "command" /\ got > 0 /\ op = "read")
  BY <1>1 DEF IInv, AnswerOK, ReceivingOK
<1>8. ~seeking
  BY <1>1 DEF IInv, InterruptsOK
<1>9. /\ pc'["main"] = "loop"
      /\ pc'["isr"] = pc["isr"]
      /\ pc' \in [Threads -> MainLabels \union IsrLabels]
  BY <1>1 DEF IInv, TypeOK, ThreadTypeOK, CopyBytes, Goto, Threads, MainLabels,
     IsrLabels
<1>10. UNCHANGED <<task, step, cmd, sent, taken, handleState, waited, rqm, phase,
                   op, got, arg, out, flaw, seeking, senseDue, line, irr, inService,
                   auto, cursor, buf, dest, outcome>>
  BY DEF CopyBytes, fdc, irq, dma, result, SetupIdt
<1>11. TypeOK'
  <2>1. FdcTypeOK' /\ IrqTypeOK' /\ DmaTypeOK' /\ ResultTypeOK'
    BY <1>10 DEF IInv, TypeOK, FdcTypeOK, IrqTypeOK, DmaTypeOK, ResultTypeOK
  <2>2. ProgTypeOK'
    BY <1>1, <1>5, <1>9, <1>10 DEF IInv, TypeOK, ProgTypeOK, MainLabels, IsrLabels
  <2>3. ThreadTypeOK'
    BY <1>1, <1>9, <1>10 DEF IInv, TypeOK, ThreadTypeOK, MainLabels, IsrLabels
  <2>4. FlagsTypeOK'
    BY <1>1, <1>6, <1>10 DEF IInv, TypeOK, FlagsTypeOK
  <2> QED BY <2>1, <2>2, <2>3, <2>4 DEF TypeOK
<1>12. ChannelOK'
  BY <1>10 DEF IInv, ChannelOK
<1>13. ScriptOK'
  BY <1>1, <1>9, <1>10 DEF IInv, ScriptOK
<1>14. InterruptsOK'
  BY <1>1, <1>9, <1>10 DEF IInv, InterruptsOK
<1>15. SendingOK'
  BY <1>1, <1>9, <1>10 DEF IInv, SendingOK
<1>16. ReceivingOK'
  BY <1>1, <1>9, <1>10 DEF IInv, ReceivingOK
<1>17. MovingOK'
  BY <1>1, <1>9, <1>10 DEF IInv, MovingOK
<1>18. FlagOK'
  BY <1>1, <1>6, <1>9, <1>10 DEF IInv, FlagOK
<1>19. AnswerOK'
  BY <1>1, <1>9, <1>10 DEF IInv, AnswerOK
<1>20. UnfinishedOK'
  BY <1>1, <1>9, <1>10 DEF IInv, UnfinishedOK
<1>21. TransferOK'
  BY <1>1, <1>2, <1>3, <1>5, <1>7, <1>9, <1>10 DEF IInv, TransferOK, Address, Fetched
<1> QED BY <1>11, <1>12, <1>13, <1>14, <1>15, <1>16, <1>17, <1>18, <1>19, <1>20, <1>21 DEF IInv

(* A seek is begun for the next sector.                                    *)
LEMMA CopyLoopStep == ASSUME IInv, CopyLoop PROVE IInv'
<1>1. /\ pc["main"] = "loop"
      /\ pc["isr"] = "idle"
      /\ ~irr
      /\ ~inService
  BY DEF IInv, TypeOK, IrqTypeOK, ThreadTypeOK, ScriptOK, CopyLoop, At, Runs,
     Deliverable
<1>2. TypeOK
  BY DEF IInv
<1>3. Job(task) = "copy"
  BY <1>1 DEF IInv, ScriptOK
<1>4. /\ ThreadTypeOK'
      /\ pc'["main"] = "status"
      /\ pc'["isr"] = pc["isr"]
      /\ cmd'["main"] = "seek"
      /\ sent'["main"] = 0 /\ sent'["isr"] = sent["isr"]
      /\ taken'["main"] = 0 /\ taken'["isr"] = taken["isr"]
      /\ handleState' = handleState
  <2>1. ThreadTypeOK'
    BY <1>2, IssueFacts DEF CopyLoop, Commands
  <2>2. pc'["main"] = "status"
    BY <1>2, IssueFacts DEF CopyLoop, Commands
  <2>3. pc'["isr"] = pc["isr"]
    BY <1>2, IssueFacts DEF CopyLoop, Commands
  <2>4. cmd'["main"] = "seek"
    BY <1>2, IssueFacts DEF CopyLoop, Commands
  <2>5. sent'["main"] = 0 /\ sent'["isr"] = sent["isr"]
    BY <1>2, IssueFacts DEF CopyLoop, Commands
  <2>6. taken'["main"] = 0 /\ taken'["isr"] = taken["isr"]
    BY <1>2, IssueFacts DEF CopyLoop, Commands
  <2>7. handleState' = handleState
    BY <1>2, IssueFacts DEF CopyLoop, Commands
  <2> QED BY <2>1, <2>2, <2>3, <2>4, <2>5, <2>6, <2>7
<1>5. step' = 1
  BY DEF CopyLoop
<1>6. /\ Len(Script(Job(task))) = 2
      /\ Script(Job(task))[1] = "seek"
  BY <1>3 DEF Script
<1>7. UNCHANGED <<task, sector, count, block, irqReceived, waited, rqm, phase, op,
                  got, arg, out, flaw, seeking, senseDue, line, irr, inService,
                  auto, cursor, buf, dest, outcome>>
  BY DEF CopyLoop, fdc, irq, dma, result, Issue
<1>8. TypeOK'
  <2>1. FdcTypeOK' /\ IrqTypeOK' /\ DmaTypeOK' /\ ResultTypeOK'
    BY <1>7 DEF IInv, TypeOK, FdcTypeOK, IrqTypeOK, DmaTypeOK, ResultTypeOK
  <2>2. ProgTypeOK'
    BY <1>1, <1>4, <1>5, <1>7 DEF IInv, TypeOK, ProgTypeOK, MainLabels, IsrLabels
  <2>3. ThreadTypeOK'
    BY <1>1, <1>4
  <2>4. FlagsTypeOK'
    BY <1>1, <1>4, <1>7 DEF IInv, TypeOK, FlagsTypeOK
  <2> QED BY <2>1, <2>2, <2>3, <2>4 DEF TypeOK
<1>9. ChannelOK'
  BY <1>7 DEF IInv, ChannelOK
<1>10. ScriptOK'
  BY <1>1, <1>2, <1>3, <1>4, <1>5, <1>6, <1>7 DEF IInv, ScriptOK
<1>11. InterruptsOK'
  BY <1>1, <1>4, <1>7 DEF IInv, InterruptsOK
<1>12. SendingOK'
  BY <1>1, <1>4, <1>7 DEF IInv, SendingOK
<1>13. ReceivingOK'
  BY <1>1, <1>4, <1>7 DEF IInv, ReceivingOK
<1>14. MovingOK'
  BY <1>1, <1>4, <1>7 DEF IInv, MovingOK
<1>15. FlagOK'
  BY <1>1, <1>2, <1>3, <1>4, <1>6, <1>7 DEF IInv, FlagOK
<1>16. AnswerOK'
  BY <1>1, <1>4, <1>7 DEF IInv, AnswerOK
<1>17. UnfinishedOK'
  BY <1>1, <1>4, <1>7 DEF IInv, UnfinishedOK
<1>18. TransferOK'
  BY <1>1, <1>4, <1>7 DEF IInv, TransferOK, Address, Fetched
<1> QED BY <1>8, <1>9, <1>10, <1>11, <1>12, <1>13, <1>14, <1>15, <1>16, <1>17, <1>18 DEF IInv

(* fpy_copy_bytes returns NULL.                                            *)
LEMMA CopyDoneStep == ASSUME IInv, CopyDone PROVE IInv'
<1>1. /\ pc["main"] = "loop"
      /\ pc["isr"] = "idle"
      /\ ~irr
      /\ ~inService
  BY DEF IInv, TypeOK, IrqTypeOK, ThreadTypeOK, ScriptOK, CopyDone, At, Runs,
     Deliverable
<1>2. TypeOK
  BY DEF IInv
<1>3. Job(task) = "copy"
  BY <1>1 DEF IInv, ScriptOK
<1>4. task >= 6
  BY <1>1, <1>2, <1>3, ReqFacts
<1>5. /\ ProgTypeOK'
      /\ ThreadTypeOK'
      /\ task \in Nat \ {0} /\ task' = task + 1
      /\ Job(task') # "floppy_init"
      /\ pc'["main"] \in {"task", "stopped"}
      /\ pc'["isr"] = pc["isr"]
  <2>1. ProgTypeOK'
    BY <1>1, <1>2, FinishFacts DEF CopyDone
  <2>2. ThreadTypeOK'
    BY <1>1, <1>2, FinishFacts DEF CopyDone
  <2>3. task \in Nat \ {0} /\ task' = task + 1
    BY <1>1, <1>2, FinishFacts DEF CopyDone
  <2>4. Job(task') # "floppy_init"
    BY <1>1, <1>2, FinishFacts DEF CopyDone
  <2>5. pc'["main"] \in {"task", "stopped"}
    BY <1>1, <1>2, FinishFacts DEF CopyDone
  <2>6. pc'["isr"] = pc["isr"]
    BY <1>1, <1>2, FinishFacts DEF CopyDone
  <2> QED BY <2>1, <2>2, <2>3, <2>4, <2>5, <2>6
<1>6. outcome \in [1..Len(Requests) -> {"pending", "ok", "error"}]
  BY DEF IInv, TypeOK, ResultTypeOK
<1>7. outcome' \in [1..Len(Requests) -> {"pending", "ok", "error"}]
  BY <1>6 DEF CopyDone
<1>8. /\ phase # "execute"
      /\ ~(phase = "command" /\ got > 0 /\ op = "read")
  BY <1>1 DEF IInv, AnswerOK, ReceivingOK
<1>9. ~seeking
  BY <1>1 DEF IInv, InterruptsOK
<1>10. UNCHANGED <<step, sector, count, block, cmd, sent, taken, irqReceived,
                   handleState, waited, rqm, phase, op, got, arg, out, flaw,
                   seeking, senseDue, line, irr, inService, auto, cursor, buf, dest>>
  BY DEF CopyDone, flags, fdc, irq, dma, Finish
<1>11. TypeOK'
  <2>1. FlagsTypeOK' /\ FdcTypeOK' /\ IrqTypeOK' /\ DmaTypeOK'
    BY <1>10 DEF IInv, TypeOK, FlagsTypeOK, FdcTypeOK, IrqTypeOK, DmaTypeOK
  <2>2. ProgTypeOK'
    BY <1>1, <1>5, <1>10
  <2>3. ThreadTypeOK'
    BY <1>1, <1>5, <1>10
  <2>4. ResultTypeOK'
    BY <1>1, <1>7, <1>10 DEF IInv, TypeOK, ResultTypeOK
  <2> QED BY <2>1, <2>2, <2>3, <2>4 DEF TypeOK
<1>12. ScriptOK'
  BY <1>1, <1>5, <1>7, <1>10 DEF IInv, ScriptOK
<1>13. ChannelOK'
  BY <1>1, <1>2, <1>3, <1>4, <1>5, <1>10 DEF IInv, ChannelOK
<1>14. InterruptsOK'
  BY <1>1, <1>5, <1>10 DEF IInv, InterruptsOK
<1>15. SendingOK'
  BY <1>1, <1>5, <1>7, <1>10 DEF IInv, SendingOK
<1>16. ReceivingOK'
  BY <1>1, <1>5, <1>10 DEF IInv, ReceivingOK
<1>17. MovingOK'
  BY <1>1, <1>5, <1>10 DEF IInv, MovingOK
<1>18. FlagOK'
  BY <1>1, <1>5, <1>7, <1>10 DEF IInv, FlagOK
<1>19. AnswerOK'
  BY <1>1, <1>5, <1>7, <1>10 DEF IInv, AnswerOK
<1>20. UnfinishedOK'
  BY <1>1, <1>2, <1>3, <1>4, <1>5, <1>6, <1>7, <1>8, <1>10 DEF IInv, UnfinishedOK
<1>21. TransferOK'
  BY <1>1, <1>2, <1>3, <1>4, <1>5, <1>6, <1>7, <1>8, <1>10 DEF IInv, TransferOK,
     Address, Fetched
<1> QED BY <1>11, <1>12, <1>13, <1>14, <1>15, <1>16, <1>17, <1>18, <1>19, <1>20, <1>21 DEF IInv

(* The next command of a task is begun; before a read the handler is told  *)
(* to leave the controller alone.                                          *)
LEMMA NextCommandStep == ASSUME IInv, NextCommand PROVE IInv'
<1>1. /\ pc["main"] = "ok"
      /\ pc["isr"] = "idle"
      /\ ~irr
      /\ ~inService
  BY DEF IInv, TypeOK, IrqTypeOK, ThreadTypeOK, ScriptOK, NextCommand, At, Runs,
     Deliverable
<1>2. TypeOK
  BY DEF IInv
<1>3. /\ step \in 1..Len(Script(Job(task)))
      /\ step < Len(Script(Job(task)))
  BY <1>1 DEF IInv, ScriptOK, NextCommand
<1>4. /\ Job(task) \in {"floppy_init", "floppy_test", "copy"}
      /\ (Job(task) = "floppy_init" => cmd["main"] # "seek" /\ cmd["main"] # "read")
  BY <1>1, ScriptFacts DEF IInv
<1>5. \/ /\ Job(task) = "floppy_init"
         /\ Script(Job(task))[step + 1] \in {"specify", "configure", "recalibrate"}
      \/ /\ Job(task) = "copy"
         /\ Script(Job(task))[step + 1] = "read" /\ cmd["main"] = "seek"
  BY <1>3, <1>4, <1>1 DEF Script, IInv, ScriptOK
<1>6. /\ step + 1 \in 1..5
      /\ step + 1 \in 1..Len(Script(Job(task)))
  BY <1>3, <1>4 DEF Script
<1>7. /\ ThreadTypeOK'
      /\ pc'["main"] = "status"
      /\ pc'["isr"] = pc["isr"]
      /\ cmd'["main"] = Script(Job(task))[step + 1]
      /\ sent'["main"] = 0 /\ sent'["isr"] = sent["isr"]
      /\ taken'["main"] = 0 /\ taken'["isr"] = taken["isr"]
      /\ handleState' = (IF Script(Job(task))[step + 1] = "read" THEN 1 ELSE handleState)
  <2>1. ThreadTypeOK'
    BY <1>2, <1>5, IssueFacts DEF NextCommand, Commands
  <2>2. pc'["main"] = "status"
    BY <1>2, <1>5, IssueFacts DEF NextCommand, Commands
  <2>3. pc'["isr"] = pc["isr"]
    BY <1>2, <1>5, IssueFacts DEF NextCommand, Commands
  <2>4. cmd'["main"] = Script(Job(task))[step + 1]
    BY <1>2, <1>5, IssueFacts DEF NextCommand, Commands
  <2>5. sent'["main"] = 0 /\ sent'["isr"] = sent["isr"]
    BY <1>2, <1>5, IssueFacts DEF NextCommand, Commands
  <2>6. taken'["main"] = 0 /\ taken'["isr"] = taken["isr"]
    BY <1>2, <1>5, IssueFacts DEF NextCommand, Commands
  <2>7. handleState' = (IF Script(Job(task))[step + 1] = "read" THEN 1 ELSE handleState)
    BY <1>2, <1>5, IssueFacts DEF NextCommand, Commands
  <2> QED BY <2>1, <2>2, <2>3, <2>4, <2>5, <2>6, <2>7
<1>8. step' = step + 1
  BY DEF NextCommand
<1>9. UNCHANGED <<task, sector, count, block, irqReceived, waited, rqm, phase, op,
                  got, arg, out, flaw, seeking, senseDue, line, irr, inService,
                  auto, cursor, buf, dest, outcome>>
  BY DEF NextCommand, fdc, irq, dma, result, Issue
<1>10. TypeOK'
  <2>1. FdcTypeOK' /\ IrqTypeOK' /\ DmaTypeOK' /\ ResultTypeOK'
    BY <1>9 DEF IInv, TypeOK, FdcTypeOK, IrqTypeOK, DmaTypeOK, ResultTypeOK
  <2>2. ProgTypeOK'
    BY <1>1, <1>2, <1>3, <1>4, <1>5, <1>6, <1>7, <1>8, <1>9 DEF IInv, TypeOK,
       ProgTypeOK, MainLabels, IsrLabels
  <2>3. ThreadTypeOK'
    BY <1>1, <1>7
  <2>4. FlagsTypeOK'
    BY <1>1, <1>7, <1>9 DEF IInv, TypeOK, FlagsTypeOK
  <2> QED BY <2>1, <2>2, <2>3, <2>4 DEF TypeOK
<1>11. ChannelOK'
  BY <1>9 DEF IInv, ChannelOK
<1>12. ScriptOK'
  BY <1>1, <1>2, <1>3, <1>4, <1>5, <1>6, <1>7, <1>8, <1>9 DEF IInv, ScriptOK
<1>13. InterruptsOK'
  BY <1>1, <1>2, <1>4, <1>5, <1>7, <1>9 DEF IInv, InterruptsOK
<1>14. SendingOK'
  BY <1>1, <1>7, <1>9 DEF IInv, SendingOK
<1>15. ReceivingOK'
  BY <1>1, <1>7, <1>9 DEF IInv, ReceivingOK
<1>16. MovingOK'
  BY <1>1, <1>2, <1>4, <1>5, <1>7, <1>9 DEF IInv, MovingOK
<1>17. FlagOK'
  BY <1>1, <1>7, <1>9 DEF IInv, FlagOK
<1>18. AnswerOK'
  BY <1>1, <1>7, <1>9 DEF IInv, AnswerOK
<1>19. UnfinishedOK'
  BY <1>1, <1>7, <1>9 DEF IInv, UnfinishedOK
<1>20. TransferOK'
  BY <1>1, <1>7, <1>9 DEF IInv, TransferOK, Address, Fetched
<1> QED BY <1>10, <1>11, <1>12, <1>13, <1>14, <1>15, <1>16, <1>17, <1>18, <1>19, <1>20 DEF IInv

(* A task without copy returns after its last command.                     *)
LEMMA TaskDoneStep == ASSUME IInv, TaskDone PROVE IInv'
<1>1. /\ pc["main"] = "ok"
      /\ pc["isr"] = "idle"
      /\ ~irr
      /\ ~inService
      /\ Job(task) # "copy"
  BY DEF IInv, TypeOK, IrqTypeOK, ThreadTypeOK, ScriptOK, TaskDone, At, Runs,
     Deliverable
<1>2. TypeOK
  BY DEF IInv
<1>3. Job(task) \in {"floppy_init", "floppy_test"}
  BY <1>1, ScriptFacts DEF IInv
<1>4. task \in Nat \ {0} /\ task \notin {2, 3}
  BY <1>1, <1>2, <1>3, TaskFacts, JobAt
<1>5. /\ ProgTypeOK'
      /\ ThreadTypeOK'
      /\ task \in Nat \ {0} /\ task' = task + 1
      /\ Job(task') # "floppy_init"
      /\ pc'["main"] \in {"task", "stopped"}
      /\ pc'["isr"] = pc["isr"]
  <2>1. ProgTypeOK'
    BY <1>1, <1>2, FinishFacts DEF TaskDone
  <2>2. ThreadTypeOK'
    BY <1>1, <1>2, FinishFacts DEF TaskDone
  <2>3. task \in Nat \ {0} /\ task' = task + 1
    BY <1>1, <1>2, FinishFacts DEF TaskDone
  <2>4. Job(task') # "floppy_init"
    BY <1>1, <1>2, FinishFacts DEF TaskDone
  <2>5. pc'["main"] \in {"task", "stopped"}
    BY <1>1, <1>2, FinishFacts DEF TaskDone
  <2>6. pc'["isr"] = pc["isr"]
    BY <1>1, <1>2, FinishFacts DEF TaskDone
  <2> QED BY <2>1, <2>2, <2>3, <2>4, <2>5, <2>6
<1>6. cmd["main"] # "seek"
  BY <1>1, ScriptFacts DEF IInv
<1>7. /\ phase # "execute"
      /\ ~(phase = "command" /\ got > 0 /\ op = "read")
  BY <1>1 DEF IInv, AnswerOK, ReceivingOK
<1>8. UNCHANGED <<step, sector, count, block, cmd, sent, taken, irqReceived,
                  handleState, waited, rqm, phase, op, got, arg, out, flaw, seeking,
                  senseDue, line, irr, inService, auto, cursor, buf, dest, outcome>>
  BY DEF TaskDone, flags, fdc, irq, dma, result, Finish
<1>9. TypeOK'
  <2>1. FlagsTypeOK' /\ FdcTypeOK' /\ IrqTypeOK' /\ DmaTypeOK' /\ ResultTypeOK'
    BY <1>8 DEF IInv, TypeOK, FlagsTypeOK, FdcTypeOK, IrqTypeOK, DmaTypeOK,
       ResultTypeOK
  <2>2. ProgTypeOK'
    BY <1>1, <1>5, <1>8
  <2>3. ThreadTypeOK'
    BY <1>1, <1>5, <1>8
  <2> QED BY <2>1, <2>2, <2>3 DEF TypeOK
<1>10. ScriptOK'
  BY <1>1, <1>5, <1>8 DEF IInv, ScriptOK
<1>11. ChannelOK'
  BY <1>1, <1>2, <1>3, <1>4, <1>5, <1>8 DEF IInv, ChannelOK
<1>12. InterruptsOK'
  BY <1>1, <1>2, <1>5, <1>6, <1>8 DEF IInv, InterruptsOK
<1>13. SendingOK'
  BY <1>1, <1>5, <1>8 DEF IInv, SendingOK
<1>14. ReceivingOK'
  BY <1>1, <1>5, <1>8 DEF IInv, ReceivingOK
<1>15. MovingOK'
  BY <1>1, <1>5, <1>8 DEF IInv, MovingOK
<1>16. FlagOK'
  BY <1>1, <1>5, <1>8 DEF IInv, FlagOK
<1>17. AnswerOK'
  BY <1>1, <1>5, <1>8 DEF IInv, AnswerOK
<1>18. UnfinishedOK'
  BY <1>1, <1>2, <1>3, <1>4, <1>5, <1>6, <1>7, <1>8 DEF IInv, UnfinishedOK
<1>19. TransferOK'
  BY <1>1, <1>2, <1>3, <1>4, <1>5, <1>6, <1>7, <1>8 DEF IInv, TransferOK, Address,
     Fetched
<1> QED BY <1>9, <1>10, <1>11, <1>12, <1>13, <1>14, <1>15, <1>16, <1>17, <1>18, <1>19 DEF IInv

(* A sector is copied from the transfer buffer.                            *)
LEMMA CopySectorStep == ASSUME IInv, CopySector PROVE IInv'
<1>1. /\ pc["main"] = "ok"
      /\ pc["isr"] = "idle"
      /\ ~irr
      /\ ~inService
      /\ Job(task) = "copy"
  BY DEF IInv, TypeOK, IrqTypeOK, ThreadTypeOK, ScriptOK, CopySector, At, Runs,
     Deliverable
<1>2. TypeOK
  BY DEF IInv
<1>3. sector \in Nat /\ count \in Int /\ block \in Nat \ {0}
  BY <1>2 DEF TypeOK, ProgTypeOK
<1>4. SectorValues \in Nat \ {0}
  BY DriverAssumption
<1>5. /\ sector' \in Nat
      /\ count' \in Int
      /\ block' \in Nat \ {0}
  <2>1. sector' \in Nat
    BY <1>3, <1>4 DEF CopySector, NextSector, Load!BlockSize
  <2>2. count' \in Int
    BY <1>3, <1>4 DEF CopySector, NextSector, Load!BlockSize
  <2>3. block' \in Nat \ {0}
    BY <1>3, <1>4 DEF CopySector, NextSector, Load!BlockSize
  <2> QED BY <2>1, <2>2, <2>3
<1>6. buf[0] \in Load!HalfSectors /\ buf[1] \in Load!HalfSectors
  BY <1>2 DEF TypeOK, DmaTypeOK, Halves
<1>7. \A n \in Int : Load!Content(buf[0], buf[1], n) \in Load!Contents
  BY <1>6 DEF Load!Content, Load!Contents
<1>8. (IF count > Load!BlockSize THEN Load!BlockSize ELSE count) \in Int
  BY <1>3 DEF Load!BlockSize
<1>9. dest' \in [Load!Slots -> Load!Contents]
  BY <1>2, <1>7, <1>8 DEF CopySector, TypeOK, ResultTypeOK
<1>10. cmd["main"] = "read"
  BY <1>1 DEF CopySector, Script, IInv, ScriptOK
<1>11. /\ phase # "execute"
       /\ ~(phase = "command" /\ got > 0 /\ op = "read")
  BY <1>1 DEF IInv, AnswerOK, ReceivingOK
<1>12. /\ pc'["main"] = "loop"
       /\ pc'["isr"] = pc["isr"]
       /\ pc' \in [Threads -> MainLabels \union IsrLabels]
  BY <1>1 DEF IInv, TypeOK, ThreadTypeOK, CopySector, Goto, Threads, MainLabels,
     IsrLabels
<1>13. UNCHANGED <<task, step, cmd, sent, taken, irqReceived, handleState, waited,
                   rqm, phase, op, got, arg, out, flaw, seeking, senseDue, line,
                   irr, inService, auto, cursor, buf, outcome>>
  BY DEF CopySector, flags, fdc, irq, dma
<1>14. TypeOK'
  <2>1. FlagsTypeOK' /\ FdcTypeOK' /\ IrqTypeOK' /\ DmaTypeOK'
    BY <1>13 DEF IInv, TypeOK, FlagsTypeOK, FdcTypeOK, IrqTypeOK, DmaTypeOK
  <2>2. ProgTypeOK'
    BY <1>1, <1>5, <1>12, <1>13 DEF IInv, TypeOK, ProgTypeOK, MainLabels, IsrLabels
  <2>3. ThreadTypeOK'
    BY <1>1, <1>12, <1>13 DEF IInv, TypeOK, ThreadTypeOK, MainLabels, IsrLabels
  <2>4. ResultTypeOK'
    BY <1>1, <1>9, <1>13 DEF IInv, TypeOK, ResultTypeOK
  <2> QED BY <2>1, <2>2, <2>3, <2>4 DEF TypeOK
<1>15. ChannelOK'
  BY <1>13 DEF IInv, ChannelOK
<1>16. ScriptOK'
  BY <1>1, <1>9, <1>12, <1>13 DEF IInv, ScriptOK
<1>17. InterruptsOK'
  BY <1>1, <1>2, <1>10, <1>12, <1>13 DEF IInv, InterruptsOK
<1>18. SendingOK'
  BY <1>1, <1>9, <1>12, <1>13 DEF IInv, SendingOK
<1>19. ReceivingOK'
  BY <1>1, <1>12, <1>13 DEF IInv, ReceivingOK
<1>20. MovingOK'
  BY <1>1, <1>12, <1>13 DEF IInv, MovingOK
<1>21. FlagOK'
  BY <1>1, <1>9, <1>12, <1>13 DEF IInv, FlagOK
<1>22. AnswerOK'
  BY <1>1, <1>9, <1>12, <1>13 DEF IInv, AnswerOK
<1>23. UnfinishedOK'
  BY <1>1, <1>9, <1>12, <1>13 DEF IInv, UnfinishedOK
<1>24. TransferOK'
  BY <1>1, <1>2, <1>3, <1>5, <1>6, <1>7, <1>9, <1>10, <1>11, <1>12, <1>13 DEF IInv,
     TransferOK, Address, Fetched
<1> QED BY <1>14, <1>15, <1>16, <1>17, <1>18, <1>19, <1>20, <1>21, <1>22, <1>23, <1>24 DEF IInv

(* A task returns early after an error.                                    *)
LEMMA TaskFailsStep == ASSUME IInv, TaskFails PROVE IInv'
<1>1. /\ pc["main"] = "error"
      /\ pc["isr"] = "idle"
      /\ ~irr
      /\ ~inService
  BY DEF IInv, TypeOK, IrqTypeOK, ThreadTypeOK, ScriptOK, TaskFails, At, Runs,
     Deliverable
<1>2. TypeOK
  BY DEF IInv
<1>3. Job(task) \in {"floppy_init", "floppy_test", "copy"}
  BY <1>1, ScriptFacts DEF IInv
<1>4. task \in Nat \ {0} /\ task \notin {2, 3}
  BY <1>1, <1>2, <1>3, TaskFacts, JobAt
<1>5. /\ ProgTypeOK'
      /\ ThreadTypeOK'
      /\ task \in Nat \ {0} /\ task' = task + 1
      /\ Job(task') # "floppy_init"
      /\ pc'["main"] \in {"task", "stopped"}
      /\ pc'["isr"] = pc["isr"]
  <2>1. ProgTypeOK'
    BY <1>1, <1>2, FinishFacts DEF TaskFails
  <2>2. ThreadTypeOK'
    BY <1>1, <1>2, FinishFacts DEF TaskFails
  <2>3. task \in Nat \ {0} /\ task' = task + 1
    BY <1>1, <1>2, FinishFacts DEF TaskFails
  <2>4. Job(task') # "floppy_init"
    BY <1>1, <1>2, FinishFacts DEF TaskFails
  <2>5. pc'["main"] \in {"task", "stopped"}
    BY <1>1, <1>2, FinishFacts DEF TaskFails
  <2>6. pc'["isr"] = pc["isr"]
    BY <1>1, <1>2, FinishFacts DEF TaskFails
  <2> QED BY <2>1, <2>2, <2>3, <2>4, <2>5, <2>6
<1>6. outcome \in [1..Len(Requests) -> {"pending", "ok", "error"}]
  BY DEF IInv, TypeOK, ResultTypeOK
<1>7. outcome' \in [1..Len(Requests) -> {"pending", "ok", "error"}]
  BY <1>6 DEF TaskFails
<1>8. /\ phase # "execute"
      /\ ~(phase = "command" /\ got > 0 /\ op = "read")
  BY <1>1 DEF IInv, AnswerOK, ReceivingOK
<1>9. ~seeking
  BY <1>1 DEF IInv, InterruptsOK
<1>10. UNCHANGED <<step, sector, count, block, cmd, sent, taken, irqReceived,
                   handleState, waited, rqm, phase, op, got, arg, out, flaw,
                   seeking, senseDue, line, irr, inService, auto, cursor, buf, dest>>
  BY DEF TaskFails, flags, fdc, irq, dma, Finish
<1>11. TypeOK'
  <2>1. FlagsTypeOK' /\ FdcTypeOK' /\ IrqTypeOK' /\ DmaTypeOK'
    BY <1>10 DEF IInv, TypeOK, FlagsTypeOK, FdcTypeOK, IrqTypeOK, DmaTypeOK
  <2>2. ProgTypeOK'
    BY <1>1, <1>5, <1>10
  <2>3. ThreadTypeOK'
    BY <1>1, <1>5, <1>10
  <2>4. ResultTypeOK'
    BY <1>1, <1>7, <1>10 DEF IInv, TypeOK, ResultTypeOK
  <2> QED BY <2>1, <2>2, <2>3, <2>4 DEF TypeOK
<1>12. ScriptOK'
  BY <1>1, <1>5, <1>7, <1>10 DEF IInv, ScriptOK
<1>13. ChannelOK'
  BY <1>1, <1>2, <1>3, <1>4, <1>5, <1>10 DEF IInv, ChannelOK
<1>14. InterruptsOK'
  BY <1>1, <1>5, <1>10 DEF IInv, InterruptsOK
<1>15. SendingOK'
  BY <1>1, <1>5, <1>7, <1>10 DEF IInv, SendingOK
<1>16. ReceivingOK'
  BY <1>1, <1>5, <1>10 DEF IInv, ReceivingOK
<1>17. MovingOK'
  BY <1>1, <1>5, <1>10 DEF IInv, MovingOK
<1>18. FlagOK'
  BY <1>1, <1>5, <1>7, <1>10 DEF IInv, FlagOK
<1>19. AnswerOK'
  BY <1>1, <1>5, <1>7, <1>10 DEF IInv, AnswerOK
<1>20. UnfinishedOK'
  BY <1>1, <1>2, <1>3, <1>4, <1>5, <1>6, <1>7, <1>8, <1>10 DEF IInv, UnfinishedOK
<1>21. TransferOK'
  BY <1>1, <1>2, <1>3, <1>4, <1>5, <1>6, <1>7, <1>8, <1>10 DEF IInv, TransferOK,
     Address, Fetched
<1> QED BY <1>11, <1>12, <1>13, <1>14, <1>15, <1>16, <1>17, <1>18, <1>19, <1>20, <1>21 DEF IInv

(* The controller is ready for the next byte of an unfinished command.     *)
LEMMA AcceptByteStep == ASSUME IInv, AcceptByte PROVE IInv'
<1>1. /\ phase = "command" /\ ~rqm
      /\ got < CommandSize[op]
  BY DEF AcceptByte
<1>2. op \in Commands \union {"invalid"} /\ got \in Nat
  BY DEF IInv, TypeOK, FdcTypeOK
<1>3. rqm' = TRUE
  BY DEF AcceptByte
<1>4. UNCHANGED <<task, step, sector, count, block, pc, cmd, sent, taken,
                  irqReceived, handleState, waited, phase, op, got, arg, out, flaw,
                  seeking, senseDue, line, irr, inService, auto, cursor, buf, dest,
                  outcome>>
  BY DEF AcceptByte, irq, dma, Quiet, prog, thread, flags, result
<1>5. TypeOK'
  <2>1. ProgTypeOK' /\ ThreadTypeOK' /\ FlagsTypeOK' /\ IrqTypeOK' /\ DmaTypeOK' /\ ResultTypeOK'
    BY <1>4 DEF IInv, TypeOK, ProgTypeOK, ThreadTypeOK, FlagsTypeOK, IrqTypeOK,
       DmaTypeOK, ResultTypeOK
  <2>2. FdcTypeOK'
    BY <1>1, <1>3, <1>4 DEF IInv, TypeOK, FdcTypeOK
  <2> QED BY <2>1, <2>2 DEF TypeOK
<1>6. ScriptOK' /\ ChannelOK' /\ InterruptsOK' /\ FlagOK' /\ UnfinishedOK' /\ TransferOK'
  BY <1>4 DEF IInv, ScriptOK, ChannelOK, InterruptsOK, FlagOK, UnfinishedOK,
     TransferOK, Address, Fetched
<1>7. SendingOK'
  BY <1>1, <1>3, <1>4 DEF IInv, SendingOK
<1>8. ReceivingOK'
  BY <1>1, <1>2, <1>3, <1>4, Sizes DEF IInv, ReceivingOK
<1>9. MovingOK'
  BY <1>1, <1>3, <1>4 DEF IInv, MovingOK
<1>10. AnswerOK'
  BY <1>1, <1>3, <1>4, Sizes DEF IInv, AnswerOK
<1> QED BY <1>5, <1>6, <1>7, <1>8, <1>9, <1>10 DEF IInv

(* A command without result is executed; a seek or recalibration starts the *)
(* head.                                                                   *)
LEMMA ExecuteStep == ASSUME IInv, Execute PROVE IInv'
<1>1. /\ phase = "command" /\ ~rqm
      /\ got = CommandSize[op]
      /\ op \in {"specify", "configure", "recalibrate", "seek"}
  BY DEF Execute, Received
<1>2. got > 0 /\ got > 1
  BY <1>1, Sizes
<1>3. /\ op = cmd["main"]
      /\ (op = "recalibrate" => InRecalibrate({"wait", "hang"}))
      /\ (op = "seek" => InSeek({"drain"}))
      /\ pc["main"] \notin Sending
  <2>1. op = cmd["main"]
    BY <1>1, <1>2, Sizes DEF IInv, ReceivingOK, SendingOK, ScriptOK
  <2>2. (op = "recalibrate" => InRecalibrate({"wait", "hang"}))
    BY <1>1, <1>2, Sizes DEF IInv, ReceivingOK, SendingOK, ScriptOK
  <2>3. (op = "seek" => InSeek({"drain"}))
    BY <1>1, <1>2, Sizes DEF IInv, ReceivingOK, SendingOK, ScriptOK
  <2>4. pc["main"] \notin Sending
    BY <1>1, <1>2, Sizes DEF IInv, ReceivingOK, SendingOK, ScriptOK
  <2> QED BY <2>1, <2>2, <2>3, <2>4
<1>4. (op \in {"recalibrate", "seek"} => Calm)
  BY <1>1, <1>2 DEF IInv, MovingOK
<1>5. /\ rqm' = TRUE
      /\ got' = 0
  BY DEF Execute
<1>6. /\ (op \in {"recalibrate", "seek"} => seeking' = TRUE)
      /\ (op \notin {"recalibrate", "seek"} => seeking' = seeking)
      /\ seeking' \in BOOLEAN
  <2>1. (op \in {"recalibrate", "seek"} => seeking' = TRUE)
    BY DEF Execute, IInv, TypeOK, FdcTypeOK
  <2>2. (op \notin {"recalibrate", "seek"} => seeking' = seeking)
    BY DEF Execute, IInv, TypeOK, FdcTypeOK
  <2>3. seeking' \in BOOLEAN
    BY DEF Execute, IInv, TypeOK, FdcTypeOK
  <2> QED BY <2>1, <2>2, <2>3
<1>7. UNCHANGED <<task, step, sector, count, block, pc, cmd, sent, taken,
                  irqReceived, handleState, waited, phase, op, arg, out, flaw,
                  senseDue, line, irr, inService, auto, cursor, buf, dest, outcome>>
  BY DEF Execute, irq, dma, Quiet, prog, thread, flags, result
<1>8. TypeOK'
  <2>1. ProgTypeOK' /\ ThreadTypeOK' /\ FlagsTypeOK' /\ IrqTypeOK' /\ DmaTypeOK' /\ ResultTypeOK'
    BY <1>7 DEF IInv, TypeOK, ProgTypeOK, ThreadTypeOK, FlagsTypeOK, IrqTypeOK,
       DmaTypeOK, ResultTypeOK
  <2>2. FdcTypeOK'
    BY <1>5, <1>6, <1>7 DEF IInv, TypeOK, FdcTypeOK
  <2> QED BY <2>1, <2>2 DEF TypeOK
<1>9. ScriptOK' /\ ChannelOK' /\ UnfinishedOK'
  BY <1>7 DEF IInv, ScriptOK, ChannelOK, UnfinishedOK
<1>10. InterruptsOK'
  BY <1>1, <1>3, <1>4, <1>6, <1>7 DEF IInv, InterruptsOK
<1>11. SendingOK'
  BY <1>1, <1>2, <1>3, <1>4, <1>5, <1>7 DEF IInv, SendingOK
<1>12. ReceivingOK'
  BY <1>1, <1>5, <1>7 DEF IInv, ReceivingOK
<1>13. MovingOK'
  BY <1>1, <1>5, <1>6, <1>7 DEF IInv, MovingOK
<1>14. FlagOK'
  BY <1>1, <1>2, <1>3, <1>4, <1>5, <1>6, <1>7 DEF IInv, FlagOK
<1>15. AnswerOK'
  BY <1>1, <1>5, <1>6, <1>7 DEF IInv, AnswerOK
<1>16. TransferOK'
  BY <1>1, <1>5, <1>7 DEF IInv, TransferOK, Address, Fetched
<1> QED BY <1>8, <1>9, <1>10, <1>11, <1>12, <1>13, <1>14, <1>15, <1>16 DEF IInv

(* The version command is answered.                                        *)
LEMMA VersionStep == ASSUME IInv, Version PROVE IInv'
<1>1. /\ phase = "command" /\ ~rqm
      /\ got = 1 /\ op = "version"
  BY DEF Version, Received, CommandSize
<1>2. /\ rqm' = TRUE /\ got' = 0
      /\ phase' = "result" /\ out' = 0
      /\ flaw' \in {0, 1}
  BY DEF Version
<1>3. pc["main"] \notin Sending
  BY <1>1, Sizes DEF IInv, SendingOK
<1>4. ~InRead({"drain", "wait", "clear"} \union Reading)
  BY <1>1 DEF IInv, AnswerOK
<1>5. UNCHANGED <<task, step, sector, count, block, pc, cmd, sent, taken,
                  irqReceived, handleState, waited, op, arg, seeking, senseDue,
                  line, irr, inService, auto, cursor, buf, dest, outcome>>
  BY DEF Version, irq, dma, result, Quiet, prog, thread, flags
<1>6. TypeOK'
  <2>1. ProgTypeOK' /\ ThreadTypeOK' /\ FlagsTypeOK' /\ IrqTypeOK' /\ DmaTypeOK' /\ ResultTypeOK'
    BY <1>5 DEF IInv, TypeOK, ProgTypeOK, ThreadTypeOK, FlagsTypeOK, IrqTypeOK,
       DmaTypeOK, ResultTypeOK
  <2>2. FdcTypeOK'
    BY <1>1, <1>2, <1>5 DEF IInv, TypeOK, FdcTypeOK
  <2> QED BY <2>1, <2>2 DEF TypeOK
<1>7. ScriptOK' /\ ChannelOK' /\ InterruptsOK'
  BY <1>5 DEF IInv, ScriptOK, ChannelOK, InterruptsOK
<1>8. SendingOK'
  BY <1>1, <1>2, <1>3, <1>4, <1>5 DEF IInv, SendingOK
<1>9. ReceivingOK'
  BY <1>1, <1>2, <1>5 DEF IInv, ReceivingOK
<1>10. MovingOK'
  BY <1>1, <1>2, <1>5 DEF IInv, MovingOK
<1>11. FlagOK'
  BY <1>1, <1>2, <1>5 DEF IInv, FlagOK
<1>12. AnswerOK'
  BY <1>1, <1>2, <1>5 DEF IInv, AnswerOK
<1>13. UnfinishedOK'
  BY <1>1, <1>2, <1>5 DEF IInv, UnfinishedOK
<1>14. TransferOK'
  BY <1>1, <1>2, <1>3, <1>4, <1>5 DEF IInv, TransferOK, Address, Fetched
<1> QED BY <1>6, <1>7, <1>8, <1>9, <1>10, <1>11, <1>12, <1>13, <1>14 DEF IInv

(* The sense command is answered, or refused when nothing caused it.       *)
LEMMA SenseStep == ASSUME IInv, Sense PROVE IInv'
<1>1. /\ phase = "command" /\ ~rqm
      /\ got = 1 /\ op = "sense"
  BY DEF Sense, Received, CommandSize
<1>2. IsrDrains
  BY <1>1, Sizes DEF IInv, ReceivingOK, SendingOK, TypeOK, ThreadTypeOK
<1>3. /\ InRecalibrate({"wait", "hang"}) \/ InSeek({"drain", "ok"})
      /\ ~seeking
      /\ taken["isr"] = 0
  BY <1>2 DEF IInv, SendingOK, InterruptsOK, AnswerOK
<1>4. /\ rqm' = TRUE /\ got' = 0
      /\ phase' = "result" /\ out' = 0
      /\ flaw' \in {0, 1}
      /\ op' \in {"sense", "invalid"}
      /\ (op' = "invalid" => flaw' = 1)
      /\ senseDue' = FALSE
  BY DEF Sense
<1>5. op' \in Commands \union {"invalid"}
  BY <1>4 DEF Commands
<1>6. /\ rqm' \in BOOLEAN
      /\ flaw' \in 0..3
      /\ senseDue' \in BOOLEAN
      /\ got' \in Nat /\ out' \in Nat
      /\ phase' \in {"command", "execute", "result"}
  <2>1. rqm' \in BOOLEAN
    BY <1>4, <1>5
  <2>2. flaw' \in 0..3
    BY <1>4, <1>5
  <2>3. senseDue' \in BOOLEAN
    BY <1>4, <1>5
  <2>4. got' \in Nat /\ out' \in Nat
    BY <1>4, <1>5
  <2>5. phase' \in {"command", "execute", "result"}
    BY <1>4, <1>5
  <2> QED BY <2>1, <2>2, <2>3, <2>4, <2>5
<1>7. line' \in BOOLEAN
  BY DEF Sense, IInv, TypeOK, IrqTypeOK
<1>8. UNCHANGED <<task, step, sector, count, block, pc, cmd, sent, taken,
                  irqReceived, handleState, waited, arg, seeking, irr, inService,
                  auto, cursor, buf, dest, outcome>>
  BY DEF Sense, dma, result, Quiet, prog, thread, flags
<1>9. TypeOK'
  <2>1. ProgTypeOK' /\ ThreadTypeOK' /\ FlagsTypeOK' /\ DmaTypeOK' /\ ResultTypeOK'
    BY <1>8 DEF IInv, TypeOK, ProgTypeOK, ThreadTypeOK, FlagsTypeOK, DmaTypeOK,
       ResultTypeOK
  <2>2. FdcTypeOK'
    BY <1>5, <1>6, <1>8 DEF IInv, TypeOK, FdcTypeOK
  <2>3. IrqTypeOK'
    BY <1>1, <1>7, <1>8 DEF IInv, TypeOK, IrqTypeOK
  <2> QED BY <2>1, <2>2, <2>3 DEF TypeOK
<1>10. ScriptOK' /\ ChannelOK' /\ InterruptsOK'
  BY <1>8 DEF IInv, ScriptOK, ChannelOK, InterruptsOK
<1>11. SendingOK'
  BY <1>1, <1>2, <1>3, <1>4, <1>5, <1>6, <1>8 DEF IInv, SendingOK
<1>12. ReceivingOK'
  BY <1>1, <1>4, <1>5, <1>6, <1>8 DEF IInv, ReceivingOK
<1>13. MovingOK'
  BY <1>1, <1>4, <1>5, <1>6, <1>8 DEF IInv, MovingOK
<1>14. FlagOK'
  BY <1>1, <1>4, <1>6, <1>8 DEF IInv, FlagOK
<1>15. AnswerOK'
  BY <1>1, <1>4, <1>5, <1>6, <1>8 DEF IInv, AnswerOK
<1>16. UnfinishedOK'
  BY <1>1, <1>4, <1>5, <1>6, <1>8 DEF IInv, UnfinishedOK
<1>17. TransferOK'
  BY <1>1, <1>2, <1>3, <1>4, <1>5, <1>6, <1>8 DEF IInv, TransferOK, Address, Fetched
<1> QED BY <1>9, <1>10, <1>11, <1>12, <1>13, <1>14, <1>15, <1>16, <1>17 DEF IInv

(* The head stops and raises the line, which no handler is busy with.      *)
LEMMA SeekDoneStep == ASSUME IInv, SeekDone PROVE IInv'
<1>1. seeking
  BY DEF SeekDone
<1>2. /\ ~irr
      /\ pc["isr"] = "idle"
  BY <1>1 DEF IInv, InterruptsOK
<1>3. /\ seeking' = FALSE
      /\ senseDue' = TRUE
      /\ line' = TRUE
  BY DEF SeekDone, Raise
<1>4. irr' \in BOOLEAN
  BY DEF SeekDone, Raise, IInv, TypeOK, IrqTypeOK
<1>5. UNCHANGED <<task, step, sector, count, block, pc, cmd, sent, taken,
                  irqReceived, handleState, waited, rqm, phase, op, got, arg, out,
                  flaw, inService, auto, cursor, buf, dest, outcome>>
  BY DEF SeekDone, dma, Quiet, prog, thread, flags, result, Raise
<1>6. TypeOK'
  <2>1. ProgTypeOK' /\ ThreadTypeOK' /\ FlagsTypeOK' /\ DmaTypeOK' /\ ResultTypeOK'
    BY <1>5 DEF IInv, TypeOK, ProgTypeOK, ThreadTypeOK, FlagsTypeOK, DmaTypeOK,
       ResultTypeOK
  <2>2. FdcTypeOK'
    BY <1>3, <1>5 DEF IInv, TypeOK, FdcTypeOK
  <2>3. IrqTypeOK'
    BY <1>3, <1>4, <1>5 DEF IInv, TypeOK, IrqTypeOK
  <2> QED BY <2>1, <2>2, <2>3 DEF TypeOK
<1>7. ScriptOK' /\ ChannelOK' /\ SendingOK' /\ ReceivingOK' /\ UnfinishedOK' /\ TransferOK'
  BY <1>5 DEF IInv, ScriptOK, ChannelOK, SendingOK, ReceivingOK, UnfinishedOK,
     TransferOK, Address, Fetched
<1>8. InterruptsOK'
  BY <1>1, <1>3, <1>4, <1>5 DEF IInv, InterruptsOK
<1>9. MovingOK'
  BY <1>1, <1>3, <1>4, <1>5 DEF IInv, MovingOK
<1>10. FlagOK'
  BY <1>1, <1>3, <1>4, <1>5 DEF IInv, FlagOK
<1>11. AnswerOK'
  BY <1>1, <1>3, <1>5 DEF IInv, AnswerOK
<1> QED BY <1>6, <1>7, <1>8, <1>9, <1>10, <1>11 DEF IInv

(* A read starts once the head has stopped.                                *)
LEMMA StartReadStep == ASSUME IInv, StartRead PROVE IInv'
<1>1. /\ phase = "command" /\ ~rqm
      /\ got = 9 /\ op = "read"
      /\ ~seeking
  BY DEF StartRead, Received, CommandSize
<1>2. InRead({"drain"})
  BY <1>1, Sizes DEF IInv, ReceivingOK, SendingOK
<1>3. /\ got' = 0
      /\ phase' = "execute"
  BY DEF StartRead
<1>4. UNCHANGED <<task, step, sector, count, block, pc, cmd, sent, taken,
                  irqReceived, handleState, waited, rqm, op, arg, out, flaw,
                  seeking, senseDue, line, irr, inService, auto, cursor, buf, dest,
                  outcome>>
  BY DEF StartRead, irq, dma, Quiet, prog, thread, flags, result
<1>5. TypeOK'
  <2>1. ProgTypeOK' /\ ThreadTypeOK' /\ FlagsTypeOK' /\ IrqTypeOK' /\ DmaTypeOK' /\ ResultTypeOK'
    BY <1>4 DEF IInv, TypeOK, ProgTypeOK, ThreadTypeOK, FlagsTypeOK, IrqTypeOK,
       DmaTypeOK, ResultTypeOK
  <2>2. FdcTypeOK'
    BY <1>1, <1>3, <1>4 DEF IInv, TypeOK, FdcTypeOK
  <2> QED BY <2>1, <2>2 DEF TypeOK
<1>6. ScriptOK' /\ ChannelOK' /\ InterruptsOK'
  BY <1>4 DEF IInv, ScriptOK, ChannelOK, InterruptsOK
<1>7. SendingOK'
  BY <1>1, <1>2, <1>3, <1>4 DEF IInv, SendingOK
<1>8. ReceivingOK'
  BY <1>1, <1>3, <1>4 DEF IInv, ReceivingOK
<1>9. MovingOK'
  BY <1>1, <1>3, <1>4 DEF IInv, MovingOK
<1>10. FlagOK'
  BY <1>1, <1>3, <1>4 DEF IInv, FlagOK
<1>11. AnswerOK'
  BY <1>1, <1>2, <1>3, <1>4 DEF IInv, AnswerOK
<1>12. UnfinishedOK'
  BY <1>1, <1>3, <1>4 DEF IInv, UnfinishedOK
<1>13. TransferOK'
  BY <1>1, <1>3, <1>4 DEF IInv, TransferOK, Address, Fetched
<1> QED BY <1>5, <1>6, <1>7, <1>8, <1>9, <1>10, <1>11, <1>12, <1>13 DEF IInv

(* A transfer reaches its terminal count and leaves the channel at its     *)
(* start.                                                                  *)
LEMMA FullReadStep == ASSUME IInv, FullRead PROVE IInv'
<1>1. phase = "execute"
  BY DEF FullRead
<1>2. /\ InRead({"drain"})
      /\ ~rqm /\ ~seeking
      /\ op = "read" /\ got = 0
      /\ arg = Address
      /\ taken["main"] = 0
  <2>1. InRead({"drain"})
    BY <1>1 DEF IInv, AnswerOK, ReceivingOK, TransferOK
  <2>2. ~rqm /\ ~seeking
    BY <1>1 DEF IInv, AnswerOK, ReceivingOK, TransferOK
  <2>3. op = "read" /\ got = 0
    BY <1>1 DEF IInv, AnswerOK, ReceivingOK, TransferOK
  <2>4. arg = Address
    BY <1>1 DEF IInv, AnswerOK, ReceivingOK, TransferOK
  <2>5. taken["main"] = 0
    BY <1>1 DEF IInv, AnswerOK, ReceivingOK, TransferOK
  <2> QED BY <2>1, <2>2, <2>3, <2>4, <2>5
<1>3. Job(task) \in {"floppy_test", "copy"}
  BY <1>2, ScriptFacts DEF IInv
<1>4. TypeOK /\ task \in Nat \ {0}
  BY TaskFacts DEF IInv
<1>5. task >= 4
  BY <1>3, <1>4, JobAt
<1>6. auto /\ cursor = 0
  BY <1>1, <1>5 DEF IInv, ChannelOK, UnfinishedOK
<1>7. Lba(arg) = sector
  BY <1>2, <1>4, AddressedSector
<1>8. /\ DmaTypeOK'
      /\ auto' /\ cursor' = 0
      /\ \A half \in 0..1 : buf'[half] = Load!HalfSector(sector, half)
  BY <1>4, <1>6, <1>7, ArriveFacts DEF FullRead, Halves
<1>9. /\ rqm' = TRUE
      /\ phase' = "result"
      /\ out' = 0
      /\ flaw' = 0
  BY DEF FullRead, EndRead
<1>10. line' \in BOOLEAN /\ irr' \in BOOLEAN
  BY DEF FullRead, EndRead, Raise, IInv, TypeOK, IrqTypeOK
<1>11. UNCHANGED <<task, step, sector, count, block, pc, cmd, sent, taken,
                   irqReceived, handleState, waited, op, got, arg, seeking,
                   senseDue, inService, dest, outcome>>
  BY DEF FullRead, Arrive, EndRead, result, Quiet, prog, thread, flags, Raise
<1>12. TypeOK'
  <2>1. ProgTypeOK' /\ ThreadTypeOK' /\ FlagsTypeOK' /\ ResultTypeOK'
    BY <1>11 DEF IInv, TypeOK, ProgTypeOK, ThreadTypeOK, FlagsTypeOK, ResultTypeOK
  <2>2. FdcTypeOK'
    BY <1>9, <1>11 DEF IInv, TypeOK, FdcTypeOK
  <2>3. IrqTypeOK'
    BY <1>10, <1>11 DEF IInv, TypeOK, IrqTypeOK
  <2>4. DmaTypeOK'
    BY <1>8
  <2> QED BY <2>1, <2>2, <2>3, <2>4 DEF TypeOK
<1>13. ScriptOK'
  BY <1>11 DEF IInv, ScriptOK
<1>14. ChannelOK'
  BY <1>1, <1>8, <1>11 DEF IInv, ChannelOK
<1>15. InterruptsOK'
  BY <1>1, <1>2, <1>4, <1>10, <1>11 DEF IInv, InterruptsOK
<1>16. SendingOK'
  BY <1>1, <1>9, <1>11 DEF IInv, SendingOK
<1>17. ReceivingOK'
  BY <1>1, <1>9, <1>11 DEF IInv, ReceivingOK
<1>18. MovingOK'
  BY <1>1, <1>9, <1>10, <1>11 DEF IInv, MovingOK
<1>19. FlagOK'
  BY <1>1, <1>2, <1>3, <1>4, <1>5, <1>9, <1>10, <1>11 DEF IInv, FlagOK
<1>20. AnswerOK'
  BY <1>1, <1>9, <1>11 DEF IInv, AnswerOK
<1>21. UnfinishedOK'
  BY <1>1, <1>8, <1>9, <1>11 DEF IInv, UnfinishedOK, SendingOK
<1>22. TransferOK'
  BY <1>1, <1>8, <1>9, <1>11 DEF IInv, TransferOK, Address, Fetched
<1> QED BY <1>12, <1>13, <1>14, <1>15, <1>16, <1>17, <1>18, <1>19, <1>20, <1>21, <1>22 DEF IInv

(* A transfer cut at the end of a cylinder leaves a result main rejects.   *)
LEMMA ShortReadStep == ASSUME IInv, ShortRead PROVE IInv'
<1>1. phase = "execute"
  BY DEF ShortRead
<1>2. /\ InRead({"drain"})
      /\ ~rqm /\ ~seeking
      /\ op = "read" /\ got = 0
      /\ arg = Address
      /\ taken["main"] = 0
  <2>1. InRead({"drain"})
    BY <1>1 DEF IInv, AnswerOK, ReceivingOK, TransferOK
  <2>2. ~rqm /\ ~seeking
    BY <1>1 DEF IInv, AnswerOK, ReceivingOK, TransferOK
  <2>3. op = "read" /\ got = 0
    BY <1>1 DEF IInv, AnswerOK, ReceivingOK, TransferOK
  <2>4. arg = Address
    BY <1>1 DEF IInv, AnswerOK, ReceivingOK, TransferOK
  <2>5. taken["main"] = 0
    BY <1>1 DEF IInv, AnswerOK, ReceivingOK, TransferOK
  <2> QED BY <2>1, <2>2, <2>3, <2>4, <2>5
<1>3. Job(task) \in {"floppy_test", "copy"}
  BY <1>2, ScriptFacts DEF IInv
<1>4. TypeOK /\ task \in Nat \ {0}
  BY TaskFacts DEF IInv
<1>5. task >= 4
  BY <1>3, <1>4, JobAt
<1>6. auto /\ cursor = 0
  BY <1>1, <1>5 DEF IInv, ChannelOK, UnfinishedOK
<1>7. Lba(arg) = sector
  BY <1>2, <1>4, AddressedSector
<1>8. /\ DmaTypeOK'
      /\ auto' /\ cursor' = 2
  BY <1>4, <1>6, <1>7, ArriveFacts DEF ShortRead
<1>9. /\ rqm' = TRUE
      /\ phase' = "result"
      /\ out' = 0
      /\ flaw' = 1
  BY DEF ShortRead, EndRead
<1>10. line' \in BOOLEAN /\ irr' \in BOOLEAN
  BY DEF ShortRead, EndRead, Raise, IInv, TypeOK, IrqTypeOK
<1>11. UNCHANGED <<task, step, sector, count, block, pc, cmd, sent, taken,
                   irqReceived, handleState, waited, op, got, arg, seeking,
                   senseDue, inService, dest, outcome>>
  BY DEF ShortRead, Arrive, EndRead, result, Quiet, prog, thread, flags, Raise
<1>12. TypeOK'
  <2>1. ProgTypeOK' /\ ThreadTypeOK' /\ FlagsTypeOK' /\ ResultTypeOK'
    BY <1>11 DEF IInv, TypeOK, ProgTypeOK, ThreadTypeOK, FlagsTypeOK, ResultTypeOK
  <2>2. FdcTypeOK'
    BY <1>9, <1>11 DEF IInv, TypeOK, FdcTypeOK
  <2>3. IrqTypeOK'
    BY <1>10, <1>11 DEF IInv, TypeOK, IrqTypeOK
  <2>4. DmaTypeOK'
    BY <1>8
  <2> QED BY <2>1, <2>2, <2>3, <2>4 DEF TypeOK
<1>13. ScriptOK'
  BY <1>11 DEF IInv, ScriptOK
<1>14. ChannelOK'
  BY <1>1, <1>2, <1>3, <1>4, <1>5, <1>6, <1>8, <1>11 DEF IInv, ChannelOK
<1>15. InterruptsOK'
  BY <1>1, <1>2, <1>4, <1>10, <1>11 DEF IInv, InterruptsOK
<1>16. SendingOK'
  BY <1>1, <1>9, <1>11 DEF IInv, SendingOK
<1>17. ReceivingOK'
  BY <1>1, <1>9, <1>11 DEF IInv, ReceivingOK
<1>18. MovingOK'
  BY <1>1, <1>9, <1>10, <1>11 DEF IInv, MovingOK
<1>19. FlagOK'
  BY <1>1, <1>2, <1>3, <1>4, <1>5, <1>9, <1>10, <1>11 DEF IInv, FlagOK
<1>20. AnswerOK'
  BY <1>1, <1>9, <1>11 DEF IInv, AnswerOK
<1>21. UnfinishedOK'
  BY <1>1, <1>2, <1>3, <1>4, <1>5, <1>6, <1>8, <1>9, <1>11 DEF IInv, UnfinishedOK,
     SendingOK
<1>22. TransferOK'
  BY <1>1, <1>2, <1>3, <1>4, <1>5, <1>7, <1>8, <1>9, <1>11 DEF IInv, TransferOK,
     Address, Fetched
<1> QED BY <1>12, <1>13, <1>14, <1>15, <1>16, <1>17, <1>18, <1>19, <1>20, <1>21, <1>22 DEF IInv

(* A failed transfer leaves a result main rejects.                         *)
LEMMA FaultyReadStep == ASSUME IInv, FaultyRead PROVE IInv'
<1>1. phase = "execute"
  BY DEF FaultyRead
<1>2. /\ InRead({"drain"})
      /\ ~rqm /\ ~seeking
      /\ op = "read" /\ got = 0
      /\ arg = Address
      /\ taken["main"] = 0
  <2>1. InRead({"drain"})
    BY <1>1 DEF IInv, AnswerOK, ReceivingOK, TransferOK
  <2>2. ~rqm /\ ~seeking
    BY <1>1 DEF IInv, AnswerOK, ReceivingOK, TransferOK
  <2>3. op = "read" /\ got = 0
    BY <1>1 DEF IInv, AnswerOK, ReceivingOK, TransferOK
  <2>4. arg = Address
    BY <1>1 DEF IInv, AnswerOK, ReceivingOK, TransferOK
  <2>5. taken["main"] = 0
    BY <1>1 DEF IInv, AnswerOK, ReceivingOK, TransferOK
  <2> QED BY <2>1, <2>2, <2>3, <2>4, <2>5
<1>3. Job(task) \in {"floppy_test", "copy"}
  BY <1>2, ScriptFacts DEF IInv
<1>4. TypeOK /\ task \in Nat \ {0}
  BY TaskFacts DEF IInv
<1>5. task >= 4
  BY <1>3, <1>4, JobAt
<1>6. auto /\ cursor = 0
  BY <1>1, <1>5 DEF IInv, ChannelOK, UnfinishedOK
<1>7. Lba(arg) = sector
  BY <1>2, <1>4, AddressedSector
<1>8. /\ DmaTypeOK'
      /\ auto'
  BY <1>4, <1>6, <1>7, ArriveFacts DEF FaultyRead
<1>9. /\ rqm' = TRUE
      /\ phase' = "result"
      /\ out' = 0
      /\ flaw' \in 1..3
  BY DEF FaultyRead, EndRead
<1>10. line' \in BOOLEAN /\ irr' \in BOOLEAN
  BY DEF FaultyRead, EndRead, Raise, IInv, TypeOK, IrqTypeOK
<1>11. UNCHANGED <<task, step, sector, count, block, pc, cmd, sent, taken,
                   irqReceived, handleState, waited, op, got, arg, seeking,
                   senseDue, inService, dest, outcome>>
  BY DEF FaultyRead, Arrive, EndRead, result, Quiet, prog, thread, flags, Raise
<1>12. TypeOK'
  <2>1. ProgTypeOK' /\ ThreadTypeOK' /\ FlagsTypeOK' /\ ResultTypeOK'
    BY <1>11 DEF IInv, TypeOK, ProgTypeOK, ThreadTypeOK, FlagsTypeOK, ResultTypeOK
  <2>2. FdcTypeOK'
    BY <1>9, <1>11 DEF IInv, TypeOK, FdcTypeOK
  <2>3. IrqTypeOK'
    BY <1>10, <1>11 DEF IInv, TypeOK, IrqTypeOK
  <2>4. DmaTypeOK'
    BY <1>8
  <2> QED BY <2>1, <2>2, <2>3, <2>4 DEF TypeOK
<1>13. ScriptOK'
  BY <1>11 DEF IInv, ScriptOK
<1>14. ChannelOK'
  BY <1>1, <1>2, <1>3, <1>4, <1>5, <1>6, <1>8, <1>11 DEF IInv, ChannelOK
<1>15. InterruptsOK'
  BY <1>1, <1>2, <1>4, <1>10, <1>11 DEF IInv, InterruptsOK
<1>16. SendingOK'
  BY <1>1, <1>9, <1>11 DEF IInv, SendingOK
<1>17. ReceivingOK'
  BY <1>1, <1>9, <1>11 DEF IInv, ReceivingOK
<1>18. MovingOK'
  BY <1>1, <1>9, <1>10, <1>11 DEF IInv, MovingOK
<1>19. FlagOK'
  BY <1>1, <1>2, <1>3, <1>4, <1>5, <1>9, <1>10, <1>11 DEF IInv, FlagOK
<1>20. AnswerOK'
  BY <1>1, <1>9, <1>11 DEF IInv, AnswerOK
<1>21. UnfinishedOK'
  BY <1>1, <1>2, <1>3, <1>4, <1>5, <1>6, <1>8, <1>9, <1>11 DEF IInv, UnfinishedOK,
     SendingOK
<1>22. TransferOK'
  BY <1>1, <1>2, <1>3, <1>4, <1>5, <1>7, <1>8, <1>9, <1>11 DEF IInv, TransferOK,
     Address, Fetched
<1> QED BY <1>12, <1>13, <1>14, <1>15, <1>16, <1>17, <1>18, <1>19, <1>20, <1>21, <1>22 DEF IInv

(* The next result byte is offered, or the next command accepted.          *)
LEMMA OfferByteStep == ASSUME IInv, OfferByte PROVE IInv'
<1>1. phase = "result" /\ ~rqm
  BY DEF OfferByte
<1>2. /\ rqm' = TRUE
      /\ phase' = IF out < OfferedSize[op] THEN "result" ELSE "command"
  BY DEF OfferByte
<1>3. phase' \in {"result", "command"}
  BY <1>2
<1>4. got = 0
  BY <1>1 DEF IInv, ReceivingOK
<1>5. out \in Nat
  BY DEF IInv, TypeOK, FdcTypeOK
<1>6. UNCHANGED <<task, step, sector, count, block, pc, cmd, sent, taken,
                  irqReceived, handleState, waited, op, got, arg, out, flaw,
                  seeking, senseDue, line, irr, inService, auto, cursor, buf, dest,
                  outcome>>
  BY DEF OfferByte, irq, dma, result, Quiet, prog, thread, flags
<1>7. TypeOK'
  <2>1. ProgTypeOK' /\ ThreadTypeOK' /\ FlagsTypeOK' /\ IrqTypeOK' /\ DmaTypeOK' /\ ResultTypeOK'
    BY <1>6 DEF IInv, TypeOK, ProgTypeOK, ThreadTypeOK, FlagsTypeOK, IrqTypeOK,
       DmaTypeOK, ResultTypeOK
  <2>2. FdcTypeOK'
    BY <1>1, <1>2, <1>3, <1>6 DEF IInv, TypeOK, FdcTypeOK
  <2> QED BY <2>1, <2>2 DEF TypeOK
<1>8. ScriptOK' /\ ChannelOK' /\ InterruptsOK'
  BY <1>6 DEF IInv, ScriptOK, ChannelOK, InterruptsOK
<1>9. SendingOK'
  BY <1>1, <1>2, <1>3, <1>6 DEF IInv, SendingOK
<1>10. ReceivingOK'
  BY <1>1, <1>2, <1>3, <1>6 DEF IInv, ReceivingOK
<1>11. MovingOK'
  BY <1>1, <1>2, <1>3, <1>4, <1>6 DEF IInv, MovingOK
<1>12. FlagOK'
  BY <1>1, <1>2, <1>3, <1>4, <1>6 DEF IInv, FlagOK
<1>13. AnswerOK'
  BY <1>1, <1>2, <1>3, <1>6, Sizes DEF IInv, AnswerOK
<1>14. UnfinishedOK'
  BY <1>1, <1>2, <1>3, <1>5, <1>6, Sizes DEF IInv, UnfinishedOK
<1>15. TransferOK'
  BY <1>1, <1>2, <1>3, <1>4, <1>6 DEF IInv, TransferOK, Address, Fetched
<1> QED BY <1>7, <1>8, <1>9, <1>10, <1>11, <1>12, <1>13, <1>14, <1>15 DEF IInv

-----------------------------------------------------------------------------
(* The initial states satisfy the invariant.                               *)
LEMMA InitIInv == ASSUME Init PROVE IInv
<1>1. /\ pc["main"] = "task" /\ pc["isr"] = "idle"
      /\ cmd["main"] = "version" /\ cmd["isr"] = "sense"
      /\ sent["main"] = 0 /\ sent["isr"] = 0 /\ taken["main"] = 0 /\ taken["isr"] = 0
  BY DEF Init
<1>2. /\ task = 1 /\ phase = "command" /\ got = 0 /\ rqm /\ op = "version" /\ out = 0
      /\ ~seeking /\ ~irr /\ ~inService /\ cursor \in 0..2
  BY DEF Init, Halves
<1>3. Job(1) = "floppy_init" /\ LastTask \in Nat \ {0}
  BY JobAt, TaskFacts
<1>4. TypeOK
  <2>1. ProgTypeOK
    BY <1>1, <1>3 DEF Init, ProgTypeOK
  <2>2. ThreadTypeOK
    BY <1>1 DEF Init, ThreadTypeOK, Threads, MainLabels, IsrLabels, Commands
  <2>3. FlagsTypeOK
    BY DriverAssumption DEF Init, FlagsTypeOK
  <2>4. FdcTypeOK
    <3>1. rqm = TRUE /\ seeking = FALSE /\ senseDue = FALSE
      BY DEF Init
    <3>2. rqm \in BOOLEAN /\ seeking \in BOOLEAN /\ senseDue \in BOOLEAN
      BY <3>1
    <3>3. /\ phase = "command" /\ op = "version" /\ got = 0 /\ out = 0 /\ flaw = 0
          /\ arg = [c |-> 0, h |-> 0, s |-> 1, eot |-> 1]
      BY DEF Init
    <3> QED BY <3>2, <3>3 DEF FdcTypeOK, Commands
  <2>5. IrqTypeOK
    BY DEF Init, IrqTypeOK
  <2>6. Garbage \in Load!HalfSectors
    BY DEF Garbage, Load!HalfSector, Load!HalfSectors
  <2>7. DmaTypeOK
    <3>1. auto = FALSE /\ cursor \in 0..(Halves - 1)
      BY DEF Init
    <3>2. auto \in BOOLEAN
      BY <3>1
    <3>3. cursor \in 0..Halves
      BY <3>1 DEF Halves
    <3>4. buf \in [0..(Halves - 1) -> Load!HalfSectors]
      BY <2>6 DEF Init
    <3> QED BY <3>2, <3>3, <3>4 DEF DmaTypeOK
  <2>8. Load!Untouched \in Load!Contents
    BY DEF Load!Untouched, Load!Contents, Load!Content, Load!HalfSector, Load!HalfSectors
  <2>9. ResultTypeOK
    BY <2>8 DEF Init, Load!Init, ResultTypeOK
  <2> QED BY <2>1, <2>2, <2>3, <2>4, <2>5, <2>7, <2>9 DEF TypeOK
<1>5. ScriptOK /\ ChannelOK /\ InterruptsOK /\ SendingOK
  BY <1>1, <1>2 DEF ScriptOK, ChannelOK, InterruptsOK, SendingOK
<1>6. ReceivingOK /\ MovingOK /\ FlagOK
  BY <1>1, <1>2 DEF ReceivingOK, MovingOK, FlagOK
<1>7. AnswerOK /\ UnfinishedOK /\ TransferOK
  BY <1>1, <1>2 DEF AnswerOK, UnfinishedOK, TransferOK
<1> QED BY <1>4, <1>5, <1>6, <1>7 DEF IInv

(* A step that leaves the state alone keeps the invariant.                 *)
LEMMA StutterStep == ASSUME IInv, UNCHANGED vars PROVE IInv'
<1>1. UNCHANGED <<task, step, sector, count, block, pc, cmd, sent, taken, irqReceived,
                  handleState, waited, rqm, phase, op, got, arg, out, flaw, seeking,
                  senseDue, line, irr, inService, auto, cursor, buf, dest, outcome>>
  BY DEF vars
<1>2. TypeOK'
  BY <1>1 DEF IInv, TypeOK, ProgTypeOK, ThreadTypeOK, FlagsTypeOK, FdcTypeOK, IrqTypeOK,
     DmaTypeOK, ResultTypeOK
<1>3. ScriptOK' /\ ChannelOK' /\ InterruptsOK' /\ SendingOK'
  BY <1>1 DEF IInv, ScriptOK, ChannelOK, InterruptsOK, SendingOK
<1>4. ReceivingOK' /\ MovingOK' /\ FlagOK'
  BY <1>1 DEF IInv, ReceivingOK, MovingOK, FlagOK
<1>5. AnswerOK' /\ UnfinishedOK' /\ TransferOK'
  BY <1>1 DEF IInv, AnswerOK, UnfinishedOK, TransferOK, Address, Fetched
<1> QED BY <1>2, <1>3, <1>4, <1>5 DEF IInv

(* Every step of the boot sequence, of the handler and of the controller   *)
(* preserves the invariant.                                                *)
LEMMA NextStep == ASSUME IInv, [Next]_vars PROVE IInv'
<1>1. CASE Main
  <2>1. CASE Driver("main")
    BY <2>1, CheckStatusMain, SpinMain, PollMain, PutMain, DrainMain, PollResultMain, GetMain
       DEF Driver
  <2>2. CASE WaitIrq \/ ClearIrq
    BY <2>2, WaitIrqStep, ClearIrqStep
  <2>3. CASE FloppyInit \/ FloppyDma \/ FloppyDmaSetupRead \/ FloppyTest
    BY <2>3, FloppyInitStep, FloppyDmaStep, FloppyDmaSetupReadStep, FloppyTestStep
  <2>4. CASE CopyBytes \/ CopyLoop \/ CopyDone \/ CopySector
    BY <2>4, CopyBytesStep, CopyLoopStep, CopyDoneStep, CopySectorStep
  <2>5. CASE NextCommand \/ TaskDone \/ TaskFails
    BY <2>5, NextCommandStep, TaskDoneStep, TaskFailsStep
  <2> QED BY <1>1, <2>1, <2>2, <2>3, <2>4, <2>5 DEF Main
<1>2. CASE Isr
  <2>1. CASE Driver("isr")
    BY <2>1, CheckStatusIsr, SpinIsr, PollIsr, PutIsr, DrainIsr, PollResultIsr, GetIsr
       DEF Driver
  <2>2. CASE Deliver \/ HandleLater \/ HandleNow \/ Sensed \/ EndOfInterrupt
    BY <2>2, DeliverStep, HandleLaterStep, HandleNowStep, SensedStep, EndOfInterruptStep
  <2> QED BY <1>2, <2>1, <2>2 DEF Isr
<1>3. CASE Controller
  BY <1>3, AcceptByteStep, ExecuteStep, VersionStep, SenseStep, SeekDoneStep, StartReadStep,
     FullReadStep, ShortReadStep, FaultyReadStep, OfferByteStep DEF Controller
<1>4. CASE UNCHANGED vars
  BY <1>4, StutterStep
<1> QED BY <1>1, <1>2, <1>3, <1>4 DEF Next

-----------------------------------------------------------------------------
(* The invariant holds in every state of every execution.                  *)
THEOREM Invariance == Spec => []IInv
<1>1. Init => IInv
  BY InitIInv
<1>2. IInv /\ [Next]_vars => IInv'
  BY NextStep
<1> QED BY <1>1, <1>2, PTL DEF Spec

(* Every variable keeps its type.                                          *)
THEOREM TypeCorrectness == Spec => []TypeOK
<1>1. IInv => TypeOK
  BY DEF IInv
<1> QED BY <1>1, Invariance, PTL

(* The controller takes every byte the driver writes for the command it    *)
(* belongs to, whatever the requests, the disk and the order of events:    *)
(* fpy_send_command and the handler's own command are never mixed.         *)
THEOREM CommandIntegrity == Spec => []BytesReachTheirCommand
<1>1. ASSUME IInv PROVE BytesReachTheirCommand
  <2>1. SUFFICES ASSUME NEW t \in Threads, At(t, "put")
                 PROVE phase = "command" /\ rqm /\ got = sent[t] /\ (got > 0 => op = cmd[t])
    BY DEF BytesReachTheirCommand
  <2>2. CASE t = "main"
    BY <1>1, <2>1, <2>2 DEF IInv, SendingOK, At
  <2>3. CASE t = "isr"
    BY <1>1, <2>1, <2>3 DEF IInv, SendingOK, At
  <2> QED BY <2>1, <2>2, <2>3 DEF Threads
<1> QED BY <1>1, Invariance, PTL

(* The driver checks each result byte against the meaning it has, although *)
(* fpy_read_data asks nothing but that some byte be there.                 *)
THEOREM AnswerIntegrity == Spec => []ResultsInStep
<1>1. ASSUME IInv PROVE ResultsInStep
  <2>1. SUFFICES ASSUME NEW t \in Threads, At(t, "get"), taken[t] < Checked[cmd[t]]
                 PROVE InStep(t)
    BY DEF ResultsInStep
  <2>2. CASE t = "main"
    <3>1. pc["main"] = "get" /\ cmd["main"] \in {"version", "read"}
      BY <1>1, <2>1, <2>2 DEF IInv, ScriptOK, At
    <3>2. CASE cmd["main"] = "version"
      BY <1>1, <2>2, <3>1, <3>2 DEF IInv, AnswerOK, InStep
    <3>3. CASE cmd["main"] = "read"
      <4>1. taken["main"] < 3
        BY <2>1, <2>2, <3>3, Sizes
      <4> QED BY <1>1, <2>2, <3>1, <3>3, <4>1 DEF IInv, AnswerOK, InStep
    <3> QED BY <3>1, <3>2, <3>3
  <2>3. CASE t = "isr"
    <3>1. pc["isr"] = "get" /\ cmd["isr"] = "sense"
      BY <1>1, <2>1, <2>3 DEF IInv, TypeOK, ThreadTypeOK, At
    <3> QED BY <1>1, <2>3, <3>1 DEF IInv, AnswerOK, InStep
  <2> QED BY <2>2, <2>3 DEF Threads
<1> QED BY <1>1, Invariance, PTL

(* A transfer starts at the beginning of the transfer buffer, whatever the *)
(* earlier ones left in the DMA channel.                                   *)
THEOREM TransferAlignment == Spec => []AlignedTransfer
<1>1. ASSUME IInv PROVE AlignedTransfer
  <2>1. SUFFICES ASSUME phase = "execute" PROVE auto /\ cursor = 0
    BY DEF AlignedTransfer
  <2>2. InRead({"drain"}) /\ TypeOK
    BY <1>1, <2>1 DEF IInv, AnswerOK
  <2>3. Job(task) \in {"floppy_test", "copy"}
    BY <1>1, <2>2, ScriptFacts DEF IInv
  <2>4. task >= 4
    BY <2>2, <2>3, TaskFacts, JobAt
  <2> QED BY <1>1, <2>1, <2>4 DEF IInv, ChannelOK, UnfinishedOK
<1> QED BY <1>1, Invariance, PTL

(* When fpy_copy_bytes takes a read for good, the transfer buffer starts   *)
(* with the sector it asked for, on every disk geometry.                   *)
THEOREM BufferCorrectness == Spec => []BufferHoldsRequested
<1>1. ASSUME IInv PROVE BufferHoldsRequested
  BY <1>1 DEF IInv, TransferOK, Fetched, BufferHoldsRequested
<1> QED BY <1>1, Invariance, PTL


(* Between two tasks and at the end, after errors as after successes, no   *)
(* interrupt of the floppy is pending or to come.                          *)
THEOREM Quiescence == Spec => []NoStrayInterrupt
<1>1. ASSUME IInv PROVE NoStrayInterrupt
  BY <1>1 DEF IInv, InterruptsOK, NoStrayInterrupt
<1> QED BY <1>1, Invariance, PTL

-----------------------------------------------------------------------------
(* Where the code the two threads share takes a thread.                    *)
Sources(from, c) ==
    [wait |-> (from = "put" /\ c = "recalibrate") \/ (from = "drain" /\ c = "read"),
     drain |-> from = "put" /\ c \notin {"version", "recalibrate"},
     ok |-> (from = "drain" /\ c \notin {"read", "sense"}) \/ from \in Reading,
     reading |-> (from = "put" /\ c = "version") \/ (from = "drain" /\ c = "sense" /\ rqm)
                 \/ from \in Reading]

(* fpy_send_command and fpy_read_data change neither the tasks nor what is *)
(* shared with the other thread, and stay within one command.              *)
LEMMA DriverFacts == ASSUME TypeOK, NEW t \in Threads, Driver(t)
  PROVE /\ UNCHANGED <<prog, cmd, flags, phase, seeking, senseDue, result>>
        /\ Runs(t)
        /\ \A u \in Threads \ {t} : pc'[u] = pc[u]
        /\ pc[t] \in {"status", "drain"} \union Sending \union Reading
        /\ pc'[t] \in {"drain", "wait", "ok", "error"} \union Sending \union Reading
        /\ pc'[t] = "wait" => Sources(pc[t], cmd[t]).wait
        /\ pc'[t] = "drain" => Sources(pc[t], cmd[t]).drain
        /\ pc'[t] = "ok" => Sources(pc[t], cmd[t]).ok
        /\ pc'[t] \in Reading => Sources(pc[t], cmd[t]).reading
<1>1. pc \in [Threads -> MainLabels \union IsrLabels] /\ cmd[t] \in Commands
  BY DEF TypeOK, ThreadTypeOK
<1>2. ASSUME NEW label, Goto(t, label)
      PROVE pc'[t] = label /\ \A u \in Threads \ {t} : pc'[u] = pc[u]
  BY <1>1, <1>2 DEF Goto
<1>0. /\ AfterSend(cmd[t]) \in {"poll_result", "wait", "drain"}
      /\ AfterSend(cmd[t]) = "poll_result" => cmd[t] = "version"
      /\ AfterSend(cmd[t]) = "wait" => cmd[t] = "recalibrate"
      /\ AfterSend(cmd[t]) = "drain" => cmd[t] \notin {"version", "recalibrate"}
      /\ AfterDrain(cmd[t]) \in {"poll_result", "wait", "ok"}
      /\ AfterDrain(cmd[t]) = "wait" => cmd[t] = "read"
      /\ AfterDrain(cmd[t]) = "poll_result" => cmd[t] = "sense"
      /\ AfterDrain(cmd[t]) = "ok" => cmd[t] \notin {"read", "sense"}
  BY <1>1, Zenon DEF AfterSend, AfterDrain, Commands
<1> USE DEF flags, fdc, prog, result, At, Sources
<1>3. CASE CheckStatus(t)
  BY <1>2, <1>3 DEF CheckStatus
<1>4. CASE Spin(t)
  BY <1>2, <1>4 DEF Spin
<1>5. CASE Poll(t)
  BY <1>2, <1>5 DEF Poll
<1>6. CASE Put(t)
  <2>1. \/ Goto(t, "spin")
        \/ Goto(t, AfterSend(cmd[t]))
    BY <1>6 DEF Put
  <2>2. CASE Goto(t, "spin")
    BY <1>2, <1>6, <2>2 DEF Put
  <2>3. CASE Goto(t, AfterSend(cmd[t]))
    BY <1>0, <1>2, <1>6, <2>3 DEF Put
  <2> QED BY <2>1, <2>2, <2>3
<1>7. CASE Drain(t)
  BY <1>0, <1>2, <1>7 DEF Drain
<1>8. ASSUME NEW bad \in BOOLEAN, Obtained(t, bad)
      PROVE /\ pc'[t] \in {"error", "ok", "poll_result"}
            /\ \A u \in Threads \ {t} : pc'[u] = pc[u]
  BY <1>2, <1>8 DEF Obtained
<1>9. CASE PollResult(t)
  <2>1. CASE Obtained(t, TRUE)
    BY <1>8, <1>9, <2>1 DEF PollResult
  <2>2. CASE Goto(t, "get")
    <3>1. pc'[t] = "get" /\ \A u \in Threads \ {t} : pc'[u] = pc[u]
      BY <1>2, <2>2
    <3>2. /\ UNCHANGED <<prog, cmd, flags, phase, seeking, senseDue, result>>
          /\ Runs(t) /\ pc[t] = "poll_result"
      BY <1>9 DEF PollResult
    <3> QED BY <3>1, <3>2
  <2> QED BY <1>9, <2>1, <2>2 DEF PollResult
<1>10. CASE Get(t)
  <2>1. PICK bad \in BOOLEAN : Obtained(t, bad)
    BY <1>10 DEF Get
  <2> QED BY <1>8, <1>10, <2>1 DEF Get
<1> QED BY <1>3, <1>4, <1>5, <1>6, <1>7, <1>9, <1>10 DEF Driver

-----------------------------------------------------------------------------
(* The end of a recalibration.                                             *)

(* floppy_init recalibrates, and nothing else does.                        *)
LEMMA Recalibrating == ASSUME IInv, cmd["main"] = "recalibrate",
                              pc["main"] \notin {"task", "loop", "stopped"}
  PROVE Job(task) = "floppy_init"
  BY ScriptFacts DEF IInv

(* The driver's code in main: a recalibration is waited for with the flag  *)
(* lowered, and is over only after the wait.                               *)
LEMMA SettledMain == ASSUME IInv, SettledOK, Driver("main") PROVE SettledOK'
<1>1. TypeOK /\ ScriptOK /\ FlagOK
  BY DEF IInv
<1>2. /\ UNCHANGED <<task, step, cmd, irqReceived, handleState, waited, phase, senseDue>>
      /\ pc'["isr"] = pc["isr"]
      /\ pc["main"] \notin {"task", "loop", "stopped"}
      /\ pc'["main"] \notin {"clear", "task", "loop", "stopped"}
      /\ pc'["main"] = "wait" /\ cmd["main"] = "recalibrate" => pc["main"] = "put"
      /\ pc'["main"] = "ok" => cmd["main"] # "recalibrate"
  BY <1>1, DriverFacts DEF flags, prog, Threads, Sources, ScriptOK
<1>3. InRecalibrate({"wait"})' => irqReceived' = 0
  BY <1>1, <1>2, Recalibrating DEF FlagOK
<1>4. ~WaitOver'
  BY <1>2, <1>3 DEF WaitOver
<1>5. IsrAsks' = IsrAsks /\ Job(task)' = Job(task)
  BY <1>2 DEF IsrAsks, Job
<1> QED BY <1>2, <1>4, <1>5 DEF SettledOK

(* The driver's code in the handler: it gets to the result only of a sense *)
(* command the controller has answered.                                    *)
LEMMA SettledIsr == ASSUME IInv, SettledOK, Driver("isr") PROVE SettledOK'
<1>1. TypeOK /\ SendingOK /\ AnswerOK /\ cmd["isr"] = "sense"
  BY DEF IInv, TypeOK, ThreadTypeOK
<1>2. /\ UNCHANGED <<task, step, cmd, irqReceived, handleState, waited, phase, senseDue>>
      /\ pc'["main"] = pc["main"]
      /\ pc["isr"] \in {"status", "drain"} \union Sending \union Reading
      /\ pc'["isr"] = "drain" => pc["isr"] = "put"
      /\ pc'["isr"] \in {"ok"} \union Reading => (pc["isr"] = "drain" /\ rqm) \/ pc["isr"] \in Reading
  BY <1>1, DriverFacts DEF flags, prog, Threads, Sources
<1>3. (IsrDrains /\ phase = "result")' => FALSE
  BY <1>1, <1>2 DEF SendingOK
<1>4. (IsrReads \/ pc["isr"] = "ok")' => ~senseDue'
  BY <1>1, <1>2 DEF AnswerOK, SettledOK
<1>5. IsrAsks /\ WaitOver' = WaitOver /\ Job(task)' = Job(task)
  BY <1>2 DEF IsrAsks, WaitOver, Job
<1> QED BY <1>2, <1>3, <1>4, <1>5 DEF SettledOK

(* fpy_wait_irq: what it took for the end of a recalibration was one.      *)
LEMMA SettledWait == ASSUME IInv, SettledOK, WaitIrq \/ ClearIrq PROVE SettledOK'
<1>1. /\ pc \in [Threads -> MainLabels \union IsrLabels]
      /\ waited \in {0, 1, Err} /\ irqReceived \in {0, 1, Err}
  BY DEF IInv, TypeOK, ThreadTypeOK, FlagsTypeOK
<1>2. ASSUME UNCHANGED <<task, step, cmd, handleState, phase, senseDue>>, pc'["isr"] = pc["isr"],
             WaitOver' => WaitOver, pc'["main"] = "clear" => waited' # 0
      PROVE  SettledOK'
  <2>1. IsrAsks' = IsrAsks /\ Job(task)' = Job(task)
    BY <1>2 DEF IsrAsks, Job
  <2> QED BY <1>2, <2>1 DEF SettledOK
<1>3. CASE WaitIrq
  <2>1. /\ UNCHANGED <<task, step, cmd, irqReceived, handleState, phase, senseDue>>
        /\ waited' = irqReceived /\ pc["main"] = "wait"
        /\ pc' = [pc EXCEPT !["main"] = IF irqReceived = 0 THEN "hang" ELSE "clear"]
    BY <1>3 DEF WaitIrq, At, prog, fdc, Goto
  <2>2. /\ pc'["isr"] = pc["isr"] /\ pc'["main"] \in {"hang", "clear"}
        /\ pc'["main"] = "clear" => irqReceived # 0
    BY <1>1, <2>1 DEF Threads
  <2>3. WaitOver' => WaitOver
    BY <2>1, <2>2 DEF WaitOver
  <2> QED BY <1>2, <2>1, <2>2, <2>3
<1>4. CASE ClearIrq
  <2>1. /\ UNCHANGED <<task, step, cmd, handleState, waited, phase, senseDue>> /\ pc["main"] = "clear"
        /\ pc' = [pc EXCEPT !["main"] = IF cmd["main"] = "read" THEN "poll_result"
                                         ELSE IF waited = Err THEN "error" ELSE "ok"]
    BY <1>4 DEF ClearIrq, At, prog, fdc, Goto
  <2>2. /\ pc'["isr"] = pc["isr"] /\ pc'["main"] \in {"poll_result", "error", "ok"}
        /\ pc'["main"] = "ok" => waited # Err
    BY <1>1, <2>1 DEF Threads
  <2>3. WaitOver' => WaitOver
    BY <1>1, <2>1, <2>2 DEF WaitOver, SettledOK, Err
  <2> QED BY <1>2, <2>1, <2>2, <2>3
<1> QED BY <1>3, <1>4

(* The tasks: only floppy_test and fpy_copy_bytes tell the handler to leave*)
(* the controller alone, no task is floppy_init again, and the second      *)
(* recalibration follows the end of the first.                             *)
LEMMA SettledTasks ==
  ASSUME IInv, SettledOK,
         \/ FloppyInit \/ FloppyDma \/ FloppyDmaSetupRead \/ FloppyTest
         \/ CopyBytes \/ CopyLoop \/ CopyDone \/ CopySector
         \/ NextCommand \/ TaskDone \/ TaskFails
  PROVE  SettledOK'
<1> DEFINE Fine == (Job(task) = "floppy_init" /\ step = 5 => handleState = 0)'
<1>1. TypeOK /\ ScriptOK
  BY DEF IInv
<1>2. /\ UNCHANGED <<phase, senseDue>> /\ pc["isr"] = "idle"
  BY DEF FloppyInit, FloppyDma, FloppyDmaSetupRead, FloppyTest, CopyBytes, CopyLoop, CopyDone,
         CopySector, NextCommand, TaskDone, TaskFails, fdc, At, Runs
<1>3. SUFFICES pc'["isr"] = pc["isr"] /\ pc'["main"] \notin {"wait", "clear", "ok"} /\ Fine
  BY <1>2 DEF SettledOK, IsrAsks, WaitOver
<1>4. ASSUME NEW c \in Commands \ {"sense"}, Issue("main", c), UNCHANGED task
      PROVE /\ pc'["isr"] = pc["isr"] /\ pc'["main"] \notin {"wait", "clear", "ok"}
            /\ c # "read" => handleState' = handleState
            /\ Job(task)' = Job(task)
  BY <1>1, <1>4, IssueFacts DEF Job
<1>5. CASE FloppyInit
  BY <1>4, <1>5 DEF FloppyInit, Commands
<1>6. CASE FloppyTest
  BY <1>4, <1>6 DEF FloppyTest, Commands, At
<1>7. CASE CopyLoop
  <2>1. step' = 1 /\ Issue("main", "seek") /\ UNCHANGED task
    BY <1>7 DEF CopyLoop
  <2> QED BY <1>4, <2>1 DEF Commands
<1>8. CASE NextCommand
  <2>1. /\ pc["main"] = "ok" /\ step < Len(Script(Job(task)))
        /\ step \in 1..Len(Script(Job(task))) /\ cmd["main"] = Script(Job(task))[step]
        /\ step' = step + 1 /\ Issue("main", Script(Job(task))[step + 1]) /\ UNCHANGED task
    BY <1>1, <1>8 DEF NextCommand, At, ScriptOK
  <2>2. CASE Job(task) = "floppy_init"
    <3>1. Script(Job(task)) = <<"version", "specify", "configure", "recalibrate", "recalibrate">>
      BY <2>2 DEF Script
    <3>2. step \in {1, 2, 3, 4}
      BY <2>1, <3>1
    <3>3. Script(Job(task))[step + 1] \in Commands \ {"sense", "read"}
      BY <3>1, <3>2 DEF Commands
    <3>4. step' = 5 => handleState = 0
      <4>1. step = 4 => cmd["main"] = "recalibrate"
        BY <2>1, <3>1
      <4> QED BY <2>1, <2>2, <3>2, <4>1 DEF SettledOK, WaitOver
    <3> QED BY <1>4, <2>1, <3>3, <3>4
  <2>3. CASE Job(task) = "copy"
    <3>1. Script(Job(task)) = <<"seek", "read">>
      BY <2>3 DEF Script
    <3>2. Script(Job(task))[step + 1] \in Commands \ {"sense"}
      BY <2>1, <3>1 DEF Commands
    <3> QED BY <1>4, <2>1, <2>3, <3>2
  <2>4. CASE Job(task) \notin {"floppy_init", "copy"}
    <3>1. Len(Script(Job(task))) \in {0, 1}
      BY <2>4 DEF Script
    <3> QED BY <2>1, <3>1
  <2> QED BY <2>2, <2>3, <2>4
<1>9. CASE FloppyDma \/ FloppyDmaSetupRead \/ CopyDone \/ TaskDone \/ TaskFails
  <2>1. Finish /\ UNCHANGED <<step, sector, count, block, cmd, sent, taken>> /\ pc["main"] # "stopped"
    BY <1>9 DEF FloppyDma, FloppyDmaSetupRead, CopyDone, TaskDone, TaskFails, At
  <2>2. Job(task') # "floppy_init" /\ pc'["isr"] = pc["isr"] /\ pc'["main"] \in {"task", "stopped"}
    BY <1>1, <2>1, FinishFacts
  <2> QED BY <2>2 DEF Job
<1>10. CASE CopyBytes \/ CopySector
  <2>1. UNCHANGED task /\ Job(task) = "copy" /\ pc' = [pc EXCEPT !["main"] = "loop"]
    BY <1>10 DEF CopyBytes, CopySector, Goto
  <2> QED BY <1>1, <2>1 DEF TypeOK, ThreadTypeOK, Threads, Job
<1> QED BY <1>5, <1>6, <1>7, <1>8, <1>9, <1>10

(* The handler: it raises the flag floppy_init waits for only after a      *)
(* sense command that found the end of the movement, unless the memory of  *)
(* its state made it leave the first one alone.                            *)
LEMMA SettledHandler ==
  ASSUME IInv, SettledOK, Deliver \/ HandleLater \/ HandleNow \/ Sensed \/ EndOfInterrupt
  PROVE  SettledOK'
<1>1. /\ pc \in [Threads -> MainLabels \union IsrLabels] /\ handleState \in {0, 1}
  BY DEF IInv, TypeOK, ThreadTypeOK, FlagsTypeOK
<1>2. UNCHANGED <<task, step, waited, phase, senseDue>>
  BY DEF Deliver, HandleLater, HandleNow, Sensed, EndOfInterrupt, prog, fdc, flags
<1>3. PICK label : pc' = [pc EXCEPT !["isr"] = label] /\ label \in {"entry", "eoi", "status", "idle"}
  BY DEF Deliver, HandleLater, HandleNow, Sensed, EndOfInterrupt, Goto, Issue
<1>4. pc'["main"] = pc["main"] /\ pc'["isr"] \notin {"drain", "ok"} \union Reading
  BY <1>1, <1>3 DEF Threads
<1>5. cmd'["main"] = cmd["main"] /\ Job(task)' = Job(task)
  BY <1>2 DEF Deliver, HandleLater, HandleNow, Sensed, EndOfInterrupt, Issue, IInv, TypeOK,
              ThreadTypeOK, Threads, Job
<1>6. handleState' \in {0, handleState}
  BY <1>1 DEF Deliver, HandleLater, HandleNow, Sensed, EndOfInterrupt, flags, Issue, HandleStateFor
<1>7. IsrAsks' => handleState = 0
  <2>1. CASE HandleNow
    BY <2>1 DEF HandleNow
  <2>2. CASE ~HandleNow
    <3>1. pc' = [pc EXCEPT !["isr"] = "entry"] \/ pc' = [pc EXCEPT !["isr"] = "eoi"]
          \/ pc' = [pc EXCEPT !["isr"] = "idle"]
      BY <2>2 DEF Deliver, HandleLater, Sensed, EndOfInterrupt, Goto
    <3>2. pc'["isr"] \in {"entry", "eoi", "idle"}
      BY <1>1, <3>1 DEF Threads
    <3> QED BY <3>2 DEF IsrAsks, Sending, Reading
  <2> QED BY <2>1, <2>2
<1>8. /\ WaitOver' => \/ WaitOver
                      \/ Job(task) = "floppy_init" /\ step = 5 /\ handleState # 0
                      \/ handleState' = 0 /\ (step = 5 => ~senseDue)
  <2>1. CASE Deliver \/ HandleNow \/ EndOfInterrupt
    BY <1>2, <1>4, <1>5, <2>1 DEF Deliver, HandleNow, EndOfInterrupt, flags, WaitOver
  <2>2. CASE HandleLater
    <3>1. handleState # 0 /\ handleState' = 0
      BY <2>2 DEF HandleLater
    <3>2. WaitOver' => Job(task) = "floppy_init"
      BY <1>4, <1>5, Recalibrating DEF WaitOver
    <3> QED BY <3>1, <3>2
  <2>3. CASE Sensed
    <3>1. /\ pc["isr"] \in {"ok", "error"} /\ UNCHANGED handleState
          /\ irqReceived' = IF pc["isr"] = "ok" THEN 1 ELSE Err
      BY <2>3 DEF Sensed
    <3>2. CASE pc["isr"] = "ok"
      <4>1. ~senseDue /\ (Job(task) = "floppy_init" => handleState = 0)
        BY <3>2 DEF SettledOK, IsrAsks
      <4>2. WaitOver' => Job(task) = "floppy_init"
        BY <1>4, <1>5, Recalibrating DEF WaitOver
      <4> QED BY <3>1, <4>1, <4>2
    <3>3. CASE pc["isr"] = "error"
      BY <1>2, <1>4, <1>5, <3>1, <3>3 DEF WaitOver, Err
    <3> QED BY <3>1, <3>2, <3>3
  <2> QED BY <2>1, <2>2, <2>3
<1>9. /\ (Job(task) = "floppy_init" /\ (step = 5 \/ WaitOver \/ IsrAsks) => handleState = 0)'
      /\ (step = 5 /\ WaitOver => ~senseDue)'
  BY <1>1, <1>2, <1>5, <1>6, <1>7, <1>8 DEF SettledOK
<1> QED BY <1>2, <1>4, <1>9 DEF SettledOK

(* The controller: it answers the handler's command by forgetting what the *)
(* command was for, and no head moves while floppy_init goes on.           *)
LEMMA SettledController == ASSUME IInv, SettledOK, Controller PROVE SettledOK'
<1>1. InterruptsOK /\ FlagOK /\ AnswerOK
  BY DEF IInv
<1>2. UNCHANGED <<task, step, pc, cmd, irqReceived, handleState, waited>>
  BY DEF Controller, AcceptByte, Execute, Version, Sense, SeekDone, StartRead, FullRead, ShortRead,
         FaultyRead, EndRead, OfferByte, Quiet, prog, thread, flags
<1>3. Job(task)' = Job(task) /\ WaitOver' = WaitOver /\ IsrAsks' = IsrAsks
  BY <1>2 DEF Job, WaitOver, IsrAsks
<1>4. CASE Sense
  BY <1>2, <1>3, <1>4 DEF Sense, SettledOK
<1>5. CASE SeekDone
  <2>1. seeking /\ ~irr /\ pc["isr"] = "idle" /\ phase' = phase
    BY <1>1, <1>5 DEF SeekDone, InterruptsOK
  <2>2. ~WaitOver
    BY <1>1, <2>1 DEF InterruptsOK, FlagOK, WaitOver
  <2> QED BY <1>2, <1>3, <2>1, <2>2 DEF SettledOK
<1>6. CASE ~Sense /\ ~SeekDone
  <2>1. senseDue' = senseDue
    BY <1>6 DEF Controller, AcceptByte, Execute, Version, StartRead, FullRead, ShortRead,
                FaultyRead, EndRead, OfferByte
  <2>2. phase' = "result" /\ phase # "result" => ~IsrDrains
    BY <1>1, <1>6 DEF Controller, AcceptByte, Execute, Version, Received, StartRead, FullRead,
                      ShortRead, FaultyRead, OfferByte, AnswerOK
  <2> QED BY <1>2, <1>3, <2>1, <2>2 DEF SettledOK
<1> QED BY <1>4, <1>5, <1>6

(* The history of the sense command, from power-on.                        *)
LEMMA Settled == Spec => [](IInv /\ SettledOK)
<1>1. Init => SettledOK
  BY DEF Init, SettledOK, IsrAsks, WaitOver, Sending, Reading, Threads
<1>2. IInv /\ SettledOK /\ [Next]_vars => SettledOK'
  <2> SUFFICES ASSUME IInv, SettledOK, [Next]_vars PROVE SettledOK'
    OBVIOUS
  <2>1. CASE Main
    BY <2>1, SettledMain, SettledWait, SettledTasks DEF Main
  <2>2. CASE Isr
    BY <2>2, SettledIsr, SettledHandler DEF Isr
  <2>3. CASE Controller
    BY <2>3, SettledController
  <2>4. CASE UNCHANGED vars
    <3>1. UNCHANGED <<task, step, pc, cmd, irqReceived, handleState, waited, phase, senseDue>>
      BY <2>4 DEF vars
    <3>2. Job(task)' = Job(task) /\ WaitOver' = WaitOver /\ IsrAsks' = IsrAsks
      BY <3>1 DEF Job, WaitOver, IsrAsks
    <3> QED BY <3>1, <3>2 DEF SettledOK
  <2> QED BY <2>1, <2>2, <2>3, <2>4 DEF Next
<1> QED BY <1>1, <1>2, Invariance, PTL DEF Spec

(* When floppy_init goes on after its wait, the head has stopped, and the  *)
(* controller has been asked about the second recalibration, whatever the  *)
(* memory of the handler's state holds at first.                           *)
THEOREM HeadIsSettled == Spec => []HeadSettled
<1>1. Len(Script("floppy_init")) = 5
  BY DEF Script
<1>2. IInv /\ SettledOK => HeadSettled
  BY <1>1 DEF HeadSettled, SettledOK, WaitOver, IInv, InterruptsOK
<1> QED BY <1>2, Settled, PTL

-----------------------------------------------------------------------------
(* The loading of sectors.                                                 *)

LoadOK == LocalsOK /\ MemoryOK /\ OutcomesOK

(* A request has at least one block.                                       *)
LEMMA RequestFacts == ASSUME NEW k \in 1..Len(Requests)
  PROVE /\ Requests[k].first \in Nat /\ Requests[k].bytes \in Nat \ {0}
        /\ Load!Blocks(k) \in Nat \ {0}
        /\ Numbered => Requests[k].first < SectorValues
<1>1. Requests[k] \in [first : Nat, bytes : Nat \ {0}]
  BY DriverAssumption, ElementOfSeq
<1>2. \A n \in Nat \ {0} : (n + 512 - 1) \div 512 \in Nat \ {0}
  OBVIOUS
<1>3. Load!Blocks(k) \in Nat \ {0}
  BY <1>1, <1>2 DEF Load!Blocks, Load!BlockSize
<1>4. Numbered => Requests[k].first + Load!Blocks(k) <= SectorValues
  BY DEF Numbered
<1> QED BY <1>1, <1>3, <1>4, DriverAssumption

(* Bytes of a request are left exactly until its last block.               *)
LEMMA BlockFacts == ASSUME NEW k \in 1..Len(Requests), NEW b \in Nat \ {0}
  PROVE /\ Requests[k].bytes - Load!BlockSize * (b - 1) > 0 <=> b <= Load!Blocks(k)
        /\ b <= Load!Blocks(k) => <<k, b>> \in Load!Slots
<1>1. \A n \in Nat \ {0} : n - 512 * (b - 1) > 0 <=> b <= (n + 512 - 1) \div 512
  OBVIOUS
<1>2. Requests[k].bytes - Load!BlockSize * (b - 1) > 0 <=> b <= Load!Blocks(k)
  BY <1>1, RequestFacts DEF Load!Blocks, Load!BlockSize
<1>3. b <= Load!Blocks(k) => <<k, b>> \in Load!Slots
  BY RequestFacts DEF Load!Slots
<1> QED BY <1>2, <1>3

(* A counter below its limit is not wrapped.                               *)
LEMMA SmallMod == \A n \in Nat, m \in Nat \ {0} : n < m => n % m = n
  OBVIOUS

(* A block written.                                                        *)
LEMMA BlockWritten ==
  ASSUME NEW S, NEW C, NEW f \in [S -> C], NEW x \in S, NEW v
  PROVE  LET g == [f EXCEPT ![x] = v]
         IN  g[x] = v /\ \A y \in S \ {x} : g[y] = f[y]
  OBVIOUS

(* The request being served, as a number.                                  *)
LEMMA ReqAt == ASSUME TypeOK
  PROVE /\ Req \in Int /\ Len(Requests) \in Nat
        /\ Job(task) = "copy" <=> Req >= 1
        /\ pc["main"] # "stopped" => Req <= Len(Requests)
<1>1. task \in Nat \ {0} /\ LastTask = 5 + Len(Requests) /\ (pc["main"] # "stopped" => task <= LastTask)
  BY TaskFacts
<1>2. Len(Prologue) = 5 /\ Len(Requests) \in Nat
  BY DriverAssumption DEF Prologue
<1> QED BY <1>1, <1>2, JobAt DEF Req

(* A step within a task that is not one of fpy_copy_bytes' own.            *)
LEMMA Within == ASSUME TypeOK, LoadOK, UNCHANGED <<task, count, block, dest, outcome>>,
                       Job(task) = "copy" => sector' = sector,
                       Copying' <=> Copying,
                       Fetching' => Fetching \/ (Copying /\ count > 0)
  PROVE LoadOK'
<1>1. Req' = Req /\ (Copying => sector' = sector)
  BY DEF Req, Copying
<1>2. Fetching' => block <= Load!Blocks(Req)
  <2>1. CASE Fetching
    BY <2>1 DEF LoadOK, LocalsOK, Fetching
  <2>2. CASE Copying /\ count > 0
    <3>1. Req \in 1..Len(Requests) /\ block \in Nat \ {0}
      BY <2>2, ReqAt DEF Copying, TypeOK, ProgTypeOK
    <3> QED BY <2>2, <3>1, BlockFacts DEF LoadOK, LocalsOK
  <2> QED BY <2>1, <2>2
<1>3. LocalsOK'
  BY <1>1, <1>2 DEF LoadOK, LocalsOK
<1>4. MemoryOK'
  BY <1>1 DEF LoadOK, MemoryOK, Load!Written
<1>5. OutcomesOK'
  BY <1>1 DEF LoadOK, OutcomesOK
<1> QED BY <1>3, <1>4, <1>5 DEF LoadOK

(* The driver's code, the handler and the controller write no block.       *)
LEMMA WithinDriver == ASSUME IInv, LoadOK, Driver("main") \/ WaitIrq \/ ClearIrq \/ Isr \/ Controller
  PROVE LoadOK' /\ UNCHANGED result
<1>1. TypeOK
  BY DEF IInv
<1>2. /\ UNCHANGED <<task, sector, count, block, dest, outcome>>
      /\ pc["main"] \in {"task", "loop", "stopped"} \/ pc'["main"] \in {"task", "loop", "stopped"}
           => pc'["main"] = pc["main"]
  <2>0. pc \in [Threads -> MainLabels \union IsrLabels]
    BY <1>1 DEF TypeOK, ThreadTypeOK
  <2>1. CASE Driver("main")
    BY <1>1, <2>1, DriverFacts DEF prog, result, Threads
  <2>2. CASE WaitIrq
    BY <2>0, <2>2 DEF WaitIrq, At, Goto, prog, result, Threads
  <2>3. CASE ClearIrq
    BY <2>0, <2>3 DEF ClearIrq, At, Goto, prog, result, Threads
  <2>4. CASE Driver("isr")
    BY <1>1, <2>4, DriverFacts DEF prog, result, Threads
  <2>5. CASE Deliver \/ HandleLater \/ HandleNow \/ Sensed \/ EndOfInterrupt
    BY <2>0, <2>5 DEF Deliver, HandleLater, HandleNow, Sensed, EndOfInterrupt, Goto, Issue, prog, result,
                      Threads
  <2>6. CASE Controller
    BY <2>6 DEF Controller, AcceptByte, Execute, Version, Sense, SeekDone, StartRead, FullRead,
                ShortRead, FaultyRead, EndRead, OfferByte, Quiet, prog, thread, result
  <2> QED BY <2>1, <2>2, <2>3, <2>4, <2>5, <2>6 DEF Isr
<1>3. (Copying' <=> Copying) /\ (Fetching' => Fetching)
  BY <1>2 DEF Copying, Fetching, Job
<1> QED BY <1>1, <1>2, <1>3, Within DEF result

(* The starts of commands write no block either, and fpy_copy_bytes begins *)
(* another sector only while bytes are left.                               *)
LEMMA WithinTasks == ASSUME IInv, LoadOK, FloppyInit \/ FloppyTest \/ CopyLoop \/ NextCommand
  PROVE LoadOK' /\ UNCHANGED result
<1>1. TypeOK /\ ScriptOK /\ pc \in [Threads -> MainLabels \union IsrLabels]
  BY DEF IInv, TypeOK, ThreadTypeOK
<1>2. UNCHANGED <<task, count, block, dest, outcome>> /\ (Job(task) = "copy" => sector' = sector)
  BY DEF FloppyInit, FloppyTest, CopyLoop, NextCommand, result
<1>3. pc["main"] \in {"task", "loop", "ok"} /\ pc'["main"] \in {"poll", "status"}
  BY <1>1 DEF FloppyInit, FloppyTest, CopyLoop, NextCommand, At, Issue, Goto, Threads
<1>4. (Copying' <=> Copying) /\ (Fetching' => Fetching \/ (Copying /\ count > 0))
  <2>1. CASE FloppyInit \/ FloppyTest
    BY <1>2, <2>1 DEF FloppyInit, FloppyTest, Copying, Fetching, Job
  <2>2. CASE CopyLoop
    BY <1>1, <1>2, <1>3, <2>2 DEF CopyLoop, At, ScriptOK, Copying, Fetching, Job
  <2>3. CASE NextCommand
    BY <1>2, <1>3, <2>3 DEF NextCommand, At, Copying, Fetching, Job
  <2> QED BY <2>1, <2>2, <2>3
<1> QED BY <1>1, <1>2, <1>4, Within DEF result

(* fpy_copy_bytes is called: no block of its request is written yet.       *)
LEMMA Called == ASSUME Numbered, IInv, LoadOK, CopyBytes PROVE LoadOK' /\ UNCHANGED result
<1>1. TypeOK /\ pc \in [Threads -> MainLabels \union IsrLabels]
  BY DEF IInv, TypeOK, ThreadTypeOK
<1>2. /\ pc["main"] = "task" /\ Job(task) = "copy"
      /\ sector' = Requests[Req].first % SectorValues
      /\ count' = Requests[Req].bytes /\ block' = 1
      /\ pc' = [pc EXCEPT !["main"] = "loop"]
      /\ UNCHANGED <<task, dest, outcome>>
  BY DEF CopyBytes, At, Goto, result
<1>3. Req \in 1..Len(Requests) /\ Req' = Req
  BY <1>1, <1>2, ReqAt DEF Req
<1>4. pc'["main"] = "loop" /\ ~Copying
  BY <1>1, <1>2 DEF Threads, Copying
<1>5. sector' = Requests[Req].first
  <2>1. Requests[Req].first < SectorValues /\ Requests[Req].first \in Nat
    BY <1>3, RequestFacts
  <2> QED BY <1>2, <2>1, SmallMod, DriverAssumption
<1>6. LocalsOK'
  BY <1>2, <1>3, <1>4, <1>5, RequestFacts DEF LocalsOK, Fetching, Load!BlockSize
<1>7. MemoryOK'
  <2>1. Copying' => Load!Written(Req, block - 1)'
    BY <1>2 DEF Load!Written
  <2> QED BY <1>2, <1>3, <1>4, <2>1 DEF LoadOK, MemoryOK
<1>8. OutcomesOK'
  BY <1>2, <1>3 DEF LoadOK, OutcomesOK
<1> QED BY <1>2, <1>6, <1>7, <1>8 DEF LoadOK, result

(* The request that is served is SectorLoad's.                             *)
LEMMA Serving == ASSUME IInv, LoadOK, Job(task) = "copy", pc["main"] # "stopped"
  PROVE Req \in 1..Len(Requests) /\ Load!Current(Req)
<1>1. TypeOK
  BY DEF IInv
<1>2. Req \in 1..Len(Requests)
  BY <1>1, ReqAt
<1> QED BY <1>2 DEF LoadOK, OutcomesOK, Load!Current

(* A sector is copied: the next block of the request gets what the image   *)
(* holds there.                                                            *)
LEMMA Copied == ASSUME Numbered, IInv, LoadOK, CopySector
  PROVE LoadOK' /\ \E k \in 1..Len(Requests) : \E b \in 1..Load!Blocks(k) : Load!WriteBlock(k, b)
<1>1. /\ TypeOK /\ ScriptOK /\ TransferOK /\ pc \in [Threads -> MainLabels \union IsrLabels]
      /\ block \in Nat \ {0} /\ sector \in Nat /\ dest \in [Load!Slots -> Load!Contents]
  BY DEF IInv, TypeOK, ThreadTypeOK, ProgTypeOK, ResultTypeOK
<1>2. /\ pc["main"] = "ok" /\ Job(task) = "copy" /\ step = Len(Script(Job(task)))
      /\ dest' = [dest EXCEPT ![<<Req, block>>] =
                     Load!Content(buf[0], buf[1],
                                  IF count > Load!BlockSize THEN Load!BlockSize ELSE count)]
      /\ count' = count - Load!BlockSize
      /\ sector' = (sector + 1) % SectorValues
      /\ block' = block + 1
      /\ pc' = [pc EXCEPT !["main"] = "loop"]
      /\ UNCHANGED <<task, outcome>>
  BY DEF CopySector, NextSector, At, Goto
<1>3. Req \in 1..Len(Requests) /\ Req' = Req /\ Load!Current(Req)
  BY <1>2, Serving DEF Req
<1>4. pc'["main"] = "loop" /\ Copying /\ Fetching /\ Copying' /\ ~Fetching'
  BY <1>1, <1>2 DEF Threads, Copying, Fetching, Job
<1>5. /\ block \in 1..Load!Blocks(Req) /\ Load!Blocks(Req) \in Nat
      /\ count = Requests[Req].bytes - Load!BlockSize * (block - 1)
      /\ sector = Requests[Req].first + block - 1
      /\ Requests[Req].first \in Nat /\ Requests[Req].bytes \in Nat
      /\ <<Req, block>> \in Load!Slots
  BY <1>1, <1>3, <1>4, RequestFacts, BlockFacts DEF LoadOK, LocalsOK
<1>6. /\ dest' = [dest EXCEPT ![<<Req, block>>] = Load!Image(Req, block)]
      /\ dest'[<<Req, block>>] = Load!Image(Req, block)
      /\ \A slot \in Load!Slots \ {<<Req, block>>} : dest'[slot] = dest[slot]
  <2>1. cmd["main"] = "read"
    <3>1. Script(Job(task)) = <<"seek", "read">>
      BY <1>2 DEF Script
    <3>2. step = 2
      BY <1>2, <3>1
    <3>3. cmd["main"] = Script(Job(task))[step]
      BY <1>1, <1>2 DEF ScriptOK
    <3> QED BY <3>1, <3>2, <3>3
  <2>2. buf[0] = Load!HalfSector(sector, 0) /\ buf[1] = Load!HalfSector(sector, 1)
    BY <1>1, <1>2, <2>1 DEF TransferOK, Fetched
  <2>3. Load!Content(buf[0], buf[1], IF count > Load!BlockSize THEN Load!BlockSize ELSE count)
        = Load!Image(Req, block)
    <3>1. /\ Requests[Req].first + block - 1 = sector
          /\ Requests[Req].bytes - Load!BlockSize * (block - 1) = count
      BY <1>5
    <3> QED BY <2>2, <3>1, Zenon DEF Load!Image
  <2>4. dest' = [dest EXCEPT ![<<Req, block>>] = Load!Image(Req, block)]
    BY <1>2, <2>3
  <2> QED BY <1>1, <1>5, <2>4, BlockWritten
<1>7. Load!Written(Req, block - 1) /\ dest[<<Req, block>>] = Load!Untouched
  BY <1>3, <1>4, <1>5 DEF LoadOK, MemoryOK
<1>8. Load!WriteBlock(Req, block)
  BY <1>2, <1>3, <1>6, <1>7 DEF Load!WriteBlock
<1>9. LocalsOK'
  <2>1. block' <= Load!Blocks(Req) + 1
    BY <1>2, <1>5
  <2>2. count' = Requests[Req].bytes - Load!BlockSize * (block' - 1)
    <3>1. \A n, b \in Nat : (n - 512 * (b - 1)) - 512 = n - 512 * ((b + 1) - 1)
      OBVIOUS
    <3>2. Requests[Req].bytes \in Nat /\ block \in Nat
      BY <1>1, <1>5
    <3>3. count' = (Requests[Req].bytes - 512 * (block - 1)) - 512 /\ block' = block + 1
      BY <1>2, <1>5 DEF Load!BlockSize
    <3> QED BY <3>1, <3>2, <3>3 DEF Load!BlockSize
  <2>3. block' <= Load!Blocks(Req) => sector' = Requests[Req].first + block' - 1
    <3>1. ASSUME block + 1 <= Load!Blocks(Req) PROVE (sector + 1) % SectorValues = sector + 1
      <4>1. Requests[Req].first + Load!Blocks(Req) <= SectorValues
        BY <1>3 DEF Numbered
      <4>2. SectorValues \in Nat \ {0}
        BY DriverAssumption
      <4>3. sector + 1 < SectorValues /\ sector + 1 \in Nat
        BY <1>1, <1>5, <3>1, <4>1, <4>2
      <4> QED BY <4>2, <4>3, SmallMod
    <3>2. block' = block + 1 /\ sector' = (sector + 1) % SectorValues
      BY <1>2
    <3>3. sector + 1 = Requests[Req].first + (block + 1) - 1
      <4>1. \A f, b \in Nat : (f + b - 1) + 1 = f + (b + 1) - 1
        OBVIOUS
      <4>2. Requests[Req].first \in Nat /\ block \in Nat
        BY <1>1, <1>5
      <4> QED BY <1>5, <4>1, <4>2
    <3> QED BY <3>1, <3>2, <3>3, Zenon
  <2> QED BY <1>3, <1>4, <2>1, <2>2, <2>3 DEF LocalsOK
<1>10. MemoryOK'
  <2>1. ASSUME NEW a \in 1..block PROVE dest'[<<Req, a>>] = Load!Image(Req, a)
    <3>1. CASE a = block
      BY <1>6, <3>1
    <3>2. CASE a # block
      <4>1. a \in Nat \ {0} /\ a <= Load!Blocks(Req) /\ a \in 1..(block - 1)
        BY <1>5, <3>2
      <4>2. <<Req, a>> \in Load!Slots
        BY <1>3, <4>1, BlockFacts
      <4>3. <<Req, a>> # <<Req, block>>
        BY <3>2, Zenon
      <4> QED BY <1>7, <1>6, <4>1, <4>2, <4>3 DEF Load!Written
    <3> QED BY <3>1, <3>2
  <2>2. Load!Written(Req, block - 1)'
    BY <1>1, <1>2, <1>3, <2>1 DEF Load!Written
  <2>3. ASSUME NEW k \in 1..Len(Requests), NEW b \in 1..Load!Blocks(k),
               k > Req \/ (k = Req /\ b >= block')
        PROVE dest'[<<k, b>>] = Load!Untouched
    <3>1. <<k, b>> # <<Req, block>> /\ <<k, b>> \in Load!Slots /\ b \in Nat
      BY <1>1, <1>2, <1>3, <2>3, BlockFacts
    <3> QED BY <1>1, <1>2, <1>3, <1>4, <1>6, <2>3, <3>1 DEF LoadOK, MemoryOK
  <2> QED BY <1>3, <1>4, <2>2, <2>3 DEF MemoryOK
<1>11. OutcomesOK'
  BY <1>2, <1>3 DEF LoadOK, OutcomesOK
<1> QED BY <1>3, <1>5, <1>8, <1>9, <1>10, <1>11 DEF LoadOK

(* A task ends: fpy_copy_bytes returns NULL with its part complete, or an  *)
(* error, and the next request is the one to serve.                        *)
LEMMA Finished ==
  ASSUME IInv, LoadOK, FloppyDma \/ FloppyDmaSetupRead \/ TaskDone \/ TaskFails \/ CopyDone
  PROVE  /\ LoadOK'
         /\ \/ UNCHANGED result
            \/ \E k \in 1..Len(Requests) : Load!Succeed(k) \/ Load!Fail(k)
<1>1. TypeOK /\ ScriptOK /\ outcome \in [1..Len(Requests) -> {"pending", "ok", "error"}]
  BY DEF IInv, TypeOK, ResultTypeOK
<1>2. Finish /\ UNCHANGED <<step, sector, count, block, cmd, sent, taken, dest>> /\ pc["main"] # "stopped"
  BY DEF FloppyDma, FloppyDmaSetupRead, TaskDone, TaskFails, CopyDone, At, result
<1>3. /\ task' = task + 1 /\ task \in Nat /\ pc'["main"] \in {"task", "stopped"}
  BY <1>1, <1>2, FinishFacts
<1>4. Req' = Req + 1 /\ Req \in Int /\ ~Copying' /\ ~Fetching'
  BY <1>1, <1>3, ReqAt DEF Req, Prologue, Copying, Fetching
<1>5. LocalsOK'
  BY <1>4 DEF LocalsOK
<1>6. MemoryOK'
  <2>1. ASSUME NEW k \in 1..Len(Requests), NEW b \in 1..Load!Blocks(k), k >= Req'
        PROVE dest[<<k, b>>] = Load!Untouched
    BY <1>4, <2>1 DEF LoadOK, MemoryOK
  <2> QED BY <1>2, <1>4, <2>1 DEF MemoryOK
<1>7. CASE Job(task) # "copy"
  <2>1. UNCHANGED result
    BY <1>7 DEF FloppyDma, FloppyDmaSetupRead, TaskDone, TaskFails, CopyDone, At, ScriptOK, IInv, result
  <2>2. Req < 1
    BY <1>1, <1>4, <1>7, ReqAt
  <2>3. OutcomesOK'
    BY <1>4, <2>1, <2>2 DEF LoadOK, OutcomesOK, result
  <2> QED BY <1>5, <1>6, <2>1, <2>3 DEF LoadOK
<1>8. CASE Job(task) = "copy"
  <2>1. Req \in 1..Len(Requests) /\ Load!Current(Req)
    BY <1>2, <1>8, Serving
  <2>2. \/ outcome' = [outcome EXCEPT ![Req] = "error"]
        \/ outcome' = [outcome EXCEPT ![Req] = "ok"] /\ CopyDone
    BY <1>8 DEF FloppyDma, FloppyDmaSetupRead, TaskDone, TaskFails, CopyDone, At
  <2>3. ASSUME NEW k \in 1..Len(Requests) PROVE outcome'[k] = "pending" <=> k >= Req + 1
    BY <1>1, <1>4, <2>1, <2>2, <2>3 DEF LoadOK, OutcomesOK
  <2>4. OutcomesOK'
    BY <1>4, <2>3 DEF OutcomesOK
  <2>5. outcome' = [outcome EXCEPT ![Req] = "error"] => Load!Fail(Req)
    BY <1>2, <2>1 DEF Load!Fail
  <2>6. ASSUME outcome' = [outcome EXCEPT ![Req] = "ok"], CopyDone PROVE Load!Succeed(Req)
    <3>1. pc["main"] = "loop" /\ count <= 0 /\ Copying
      BY <1>8, <2>6 DEF CopyDone, At, Copying
    <3>2. /\ count = Requests[Req].bytes - Load!BlockSize * (block - 1)
          /\ block \in Nat \ {0} /\ count \in Int
          /\ block <= Load!Blocks(Req) + 1 /\ Load!Written(Req, block - 1)
      BY <1>1, <3>1 DEF LoadOK, LocalsOK, MemoryOK, TypeOK, ProgTypeOK
    <3>3. block = Load!Blocks(Req) + 1
      <4>1. count > 0 <=> block <= Load!Blocks(Req)
        BY <2>1, <3>2, BlockFacts
      <4>2. Load!Blocks(Req) \in Nat
        BY <2>1, RequestFacts
      <4> QED BY <3>1, <3>2, <4>1, <4>2
    <3>4. Load!Written(Req, Load!Blocks(Req))
      BY <2>1, <3>2, <3>3, RequestFacts
    <3> QED BY <1>2, <2>1, <2>6, <3>4 DEF Load!Succeed
  <2> QED BY <1>5, <1>6, <2>1, <2>2, <2>4, <2>5, <2>6 DEF LoadOK
<1> QED BY <1>7, <1>8

(* With the invariant, each step of the driver is a step of SectorLoad or  *)
(* leaves what is loaded alone.                                            *)
LEMMA Loaded == ASSUME Numbered PROVE Spec => [](IInv /\ LoadOK) /\ LoadsImage
<1>1. Init => Load!Init /\ LoadOK
  <2> SUFFICES ASSUME Init PROVE Load!Init /\ LoadOK
    OBVIOUS
  <2>0. TypeOK
    BY InitIInv DEF IInv
  <2>1. Load!Init /\ task = 1
    BY DEF Init
  <2>2. Req < 1 /\ Req \in Int /\ ~Copying /\ ~Fetching
    <3>1. Len(Prologue) = 5
      BY DEF Prologue
    <3>2. Req < 1 /\ Req \in Int
      BY <2>1, <3>1 DEF Req
    <3> QED BY <2>0, <3>2, ReqAt DEF Copying, Fetching
  <2>3. MemoryOK
    <3>1. \A k \in 1..Len(Requests) : \A b \in 1..Load!Blocks(k) : <<k, b>> \in Load!Slots
      BY DEF Load!Slots
    <3> QED BY <2>1, <2>2, <3>1 DEF MemoryOK, Load!Init
  <2>4. OutcomesOK
    BY <2>1, <2>2 DEF OutcomesOK, Load!Init
  <2> QED BY <2>1, <2>2, <2>3, <2>4 DEF LoadOK, LocalsOK
<1>2. IInv /\ LoadOK /\ [Next]_vars => LoadOK' /\ [Load!Next]_<<dest, outcome>>
  <2> SUFFICES ASSUME IInv, LoadOK, [Next]_vars PROVE LoadOK' /\ [Load!Next]_<<dest, outcome>>
    OBVIOUS
  <2>1. CASE Driver("main") \/ WaitIrq \/ ClearIrq \/ Isr \/ Controller
    BY <2>1, WithinDriver DEF result
  <2>2. CASE FloppyInit \/ FloppyTest \/ CopyLoop \/ NextCommand
    BY <2>2, WithinTasks DEF result
  <2>3. CASE CopyBytes
    BY <2>3, Called DEF result
  <2>4. CASE CopySector
    BY <2>4, Copied DEF Load!Next
  <2>5. CASE FloppyDma \/ FloppyDmaSetupRead \/ TaskDone \/ TaskFails \/ CopyDone
    BY <2>5, Finished DEF Load!Next, result
  <2>6. CASE UNCHANGED vars
    <3>1. (Copying' <=> Copying) /\ (Fetching' <=> Fetching)
      BY <2>6 DEF vars, Copying, Fetching, Job
    <3> QED BY <2>6, <3>1, Within DEF vars, IInv
  <2> QED BY <2>1, <2>2, <2>3, <2>4, <2>5, <2>6 DEF Next, Main
<1> QED BY <1>1, <1>2, Invariance, PTL DEF Spec, LoadsImage, Load!Spec

(* The driver with its devices implements the loading of sectors, for      *)
(* every list of requests whose sectors fit the counter of fpy_copy_bytes, *)
(* every geometry and every failure: each block that is written holds what *)
(* the image holds there, in order, and NULL means a complete part.        *)
THEOREM Implementation == ASSUME Numbered PROVE Spec => LoadsImage
BY Loaded, PTL

(* What the driver has done is always known: the second recalibration ends *)
(* with its state asked for, the loop of fpy_copy_bytes is as far as the   *)
(* memory, and the parts before the one it is at are over.                 *)
THEOREM HistoryInvariance == ASSUME Numbered PROVE Spec => []HistoryOK
<1>1. SettledOK /\ LoadOK => HistoryOK
  BY DEF HistoryOK, LoadOK
<1> QED BY <1>1, Settled, Loaded, PTL
=============================================================================
