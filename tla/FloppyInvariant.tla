--------------------------- MODULE FloppyInvariant ---------------------------
(***************************************************************************)
(* The inductive invariant of Floppy: who may use the controller when, and *)
(* what an unread result or an unfinished transfer keeps from happening.   *)
(* FloppyProofs proves that every step preserves it.                       *)
(***************************************************************************)
EXTENDS Floppy

Sending == {"spin", "poll", "put"}          \* a command is being written
Reading == {"poll_result", "get"}           \* a result is being read

(* No head movement and no interrupt is under way.                         *)
Calm == ~seeking /\ ~irr /\ pc["isr"] = "idle"

(* An interrupt may come, and the handler will leave the controller alone. *)
Masked == /\ pc["isr"] \in {"idle", "entry", "eoi"}
          /\ seeking \/ irr \/ pc["isr"] = "entry" => handleState = 1
          /\ irr => pc["isr"] = "idle"

(* Where main is.                                                          *)
InRead(labels) == cmd["main"] = "read" /\ pc["main"] \in labels
InSeek(labels) == cmd["main"] = "seek" /\ pc["main"] \in labels
InRecalibrate(labels) == cmd["main"] = "recalibrate" /\ pc["main"] \in labels

(* The handler is writing its command or reading the answer.               *)
IsrSends == pc["isr"] \in Sending
IsrDrains == pc["isr"] = "drain"
IsrReads == pc["isr"] \in Reading

-----------------------------------------------------------------------------
(* Control: each label goes with the job and the command that lead to it.  *)
ScriptOK ==
    /\ pc["main"] \notin {"task", "loop", "stopped"} =>
         /\ step \in 1..Len(Script(Job(task)))
         /\ cmd["main"] = Script(Job(task))[step]
    /\ pc["main"] = "loop" => Job(task) = "copy"
    /\ pc["main"] = "drain" => cmd["main"] \notin {"version", "recalibrate"}
    /\ pc["main"] \in {"wait", "clear"} => cmd["main"] \in {"recalibrate", "read"}
    /\ pc["main"] \in Reading => cmd["main"] \in {"version", "read"}
    /\ InRead({"ok"}) => taken["main"] = 7
    /\ inService <=> pc["isr"] # "idle"

(* DMA set up by the tasks that precede the first read.                    *)
ChannelOK ==
    /\ task >= 4 => auto
    /\ task >= 3 /\ cursor # 0 => task >= 4

(* When an interrupt can come: only after a seek or a recalibration, and   *)
(* at the end of a read, while main waits for the result.                  *)
InterruptsOK ==
    /\ seeking => ~irr /\ pc["isr"] = "idle"
    /\ \/ Calm
       \/ InRecalibrate({"wait", "hang"}) /\ (irr => pc["isr"] = "idle")
       \/ InSeek({"drain", "ok"})
       \/ InRead({"status"} \union Sending) /\ Masked
       \/ InRead({"drain"})

(* Who is writing a command.                                               *)
SendingOK ==
    /\ pc["main"] \in Sending =>
         /\ phase = "command"
         /\ got = sent["main"] /\ got < CommandSize[cmd["main"]]
         /\ got > 0 => op = cmd["main"]
         /\ pc["main"] # "spin" => rqm
    /\ IsrSends =>
         /\ phase = "command" /\ rqm /\ got = 0 /\ sent["isr"] = 0
         /\ InRecalibrate({"wait", "hang"}) \/ InSeek({"drain", "ok"})
    /\ IsrDrains \/ IsrReads => InRecalibrate({"wait", "hang"}) \/ InSeek({"drain", "ok"})

(* A command the controller has begun to receive is main's or the          *)
(* handler's, still being written or written and awaited.                  *)
ReceivingOK ==
    /\ phase # "command" => got = 0
    /\ phase = "command" /\ got > 0 =>
         \/ pc["main"] \in Sending
         \/ /\ op = cmd["main"] /\ got = CommandSize[op] /\ ~rqm
            /\ pc["main"] = "drain" \/ InRecalibrate({"wait", "hang"})
         \/ IsrDrains /\ op = "sense" /\ got = 1 /\ ~rqm
         \/ /\ op = "version" /\ got = 1 /\ ~rqm
            /\ Job(task) = "floppy_init" =>
                 cmd["main"] = "version" /\ pc["main"] \in {"poll_result", "error"}

(* A seek or a recalibration is received, and goes on, in quiet; a moving  *)
(* head leaves the controller ready for the read that follows the seek.    *)
MovingOK ==
    /\ phase = "command" /\ got > 0 /\ op \in {"seek", "recalibrate"} => Calm
    /\ seeking /\ (InSeek({"drain", "ok"}) \/ InRead({"status"})) =>
         phase = "command" /\ got = 0 /\ rqm

(* The flag floppy_init waits for is raised by nothing but the end of the  *)
(* recalibration it waits for.                                             *)
FlagOK ==
    /\ Job(task) = "floppy_init" /\ pc["main"] \in {"status", "drain", "ok"} \union Sending \union Reading =>
         irqReceived = 0
    /\ InRecalibrate({"wait"}) /\ irqReceived # 0 =>
         /\ ~seeking /\ ~irr /\ pc["isr"] \in {"idle", "eoi"}
         /\ ~(phase = "command" /\ got > 0)

(* The answer to a command and who reads it.                               *)
AnswerOK ==
    /\ pc["main"] = "task" /\ task = 1 => phase = "command" /\ got = 0 /\ rqm
    /\ pc["main"] \in {"status", "drain", "wait", "clear"} \union Sending => taken["main"] = 0
    /\ pc["main"] = "status" => sent["main"] = 0
    /\ pc["isr"] = "status" => sent["isr"] = 0
    /\ pc["isr"] \in {"status", "drain"} \union Sending => taken["isr"] = 0
    /\ phase = "execute" => InRead({"drain"}) /\ ~rqm /\ ~seeking /\ op = "read"
    /\ InRead({"drain"}) => \/ phase = "command" /\ got = 9 /\ op = "read" /\ ~rqm
                            \/ phase = "execute"
                            \/ phase = "result" /\ op = "read" /\ out = 0 /\ rqm /\ ~seeking
    /\ InRead({"wait", "clear"} \union Reading) => op = "read" /\ got = 0
    /\ InRead({"wait", "clear"}) => phase = "result" /\ op = "read" /\ out = 0 /\ rqm
    /\ InRead(Reading) =>
         /\ taken["main"] < 7
         /\ taken["main"] < 3 => /\ phase = "result" /\ op = "read"
                                 /\ out = taken["main"]
                                 /\ (pc["main"] = "get" => rqm)
    /\ pc["main"] \in Reading /\ cmd["main"] = "version" =>
         /\ taken["main"] = 0
         /\ \/ phase = "command" /\ got = 1 /\ op = "version" /\ ~rqm /\ pc["main"] # "get"
            \/ phase = "result" /\ op = "version" /\ out = 0 /\ rqm
    /\ IsrDrains => \/ phase = "command" /\ got = 1 /\ op = "sense" /\ ~rqm
                    \/ phase = "result" /\ op \in {"sense", "invalid"} /\ out = 0 /\ rqm
    /\ IsrReads => /\ phase = "result" /\ op \in {"sense", "invalid"}
                   /\ out = taken["isr"] /\ taken["isr"] < 2
                   /\ pc["isr"] = "get" => rqm
    /\ ((IsrDrains /\ phase = "result") \/ IsrReads) /\ op = "invalid" =>
         flaw = 1 /\ taken["isr"] = 0

(* An unfinished transfer leaves a result that main rejects, and that is   *)
(* then never read: the controller accepts no command any more.            *)
UnfinishedOK ==
    task >= 4 /\ cursor # 0 =>
      /\ phase = "result" /\ op = "read" /\ flaw # 0 /\ out <= 3
      /\ ~IsrSends /\ ~IsrDrains /\ ~IsrReads
      /\ pc["main"] \notin Sending \union {"ok"}
      /\ pc["main"] \in {"drain", "wait", "clear"} \union Reading =>
           cmd["main"] = "read" /\ taken["main"] < flaw

(* What a read puts in the transfer buffer.                                *)
Fetched == \A half \in 0..1 : buf[half] = Load!HalfSector(sector, half)

TransferOK ==
    /\ phase = "execute" \/ (phase = "command" /\ got > 0 /\ op = "read") => arg = Address
    /\ InRead({"wait", "clear"} \union Reading) \/ (InRead({"drain"}) /\ phase = "result") =>
         /\ flaw # 0 => taken["main"] < flaw
         /\ flaw = 0 /\ Job(task) = "copy" => Fetched
    /\ InRead({"ok"}) /\ Job(task) = "copy" => Fetched

-----------------------------------------------------------------------------
(* The inductive invariant: it holds initially, every step preserves it,   *)
(* and the safety properties of Floppy follow from it.                     *)
IInv == /\ TypeOK /\ ScriptOK /\ ChannelOK /\ InterruptsOK /\ SendingOK /\ ReceivingOK
        /\ MovingOK /\ FlagOK /\ AnswerOK /\ UnfinishedOK /\ TransferOK
-----------------------------------------------------------------------------
(* What the callers of the driver rely on, beside IInv.  Its second part   *)
(* needs requests whose sectors all have a number (Numbered).              *)

(* The handler is asking the controller about the end of a movement.       *)
IsrAsks == pc["isr"] \in {"status", "drain", "ok", "error"} \union Sending \union Reading

(* The wait for a recalibration has seen its end, or is about to.          *)
WaitOver == \/ InRecalibrate({"wait"}) /\ irqReceived = 1
            \/ InRecalibrate({"clear"}) /\ waited = 1
            \/ InRecalibrate({"ok"})

(* Whatever the memory holds at first, one interrupt is enough for the     *)
(* handler to ask about the next one; a sense command that has been        *)
(* answered leaves nothing to ask about, and the end of the second         *)
(* recalibration comes from such a one.                                    *)
SettledOK ==
    /\ Job(task) = "floppy_init" /\ (step = 5 \/ WaitOver \/ IsrAsks) => handleState = 0
    /\ (IsrDrains /\ phase = "result") \/ IsrReads \/ pc["isr"] = "ok" => ~senseDue
    /\ step = 5 /\ WaitOver => ~senseDue
    /\ pc["main"] = "clear" => waited # 0

(* Every sector of every request fits fpy_copy_bytes' counter.             *)
Numbered == \A k \in 1..Len(Requests) :
               Requests[k].first + Load!Blocks(k) <= SectorValues

(* fpy_copy_bytes is being executed, before its last block or after it.    *)
Copying == Job(task) = "copy" /\ pc["main"] \notin {"task", "stopped"}
Fetching == Copying /\ pc["main"] # "loop"

(* The locals of fpy_copy_bytes say how far it is.                         *)
LocalsOK ==
    Copying =>
      /\ block <= Load!Blocks(Req) + 1
      /\ count = Requests[Req].bytes - Load!BlockSize * (block - 1)
      /\ block <= Load!Blocks(Req) => sector = Requests[Req].first + block - 1
      /\ Fetching => block <= Load!Blocks(Req)

(* The blocks before that are written, those after are not.                *)
MemoryOK ==
    /\ Copying => Load!Written(Req, block - 1)
    /\ \A k \in 1..Len(Requests) : \A b \in 1..Load!Blocks(k) :
         k > Req \/ (k = Req /\ (Copying => b >= block)) => dest[<<k, b>>] = Load!Untouched

(* The requests before the one being served are over.                      *)
OutcomesOK == \A k \in 1..Len(Requests) : outcome[k] = "pending" <=> k >= Req

HistoryOK == SettledOK /\ LocalsOK /\ MemoryOK /\ OutcomesOK
=============================================================================
