---------------------------- MODULE Stage2Tasks ----------------------------
(***************************************************************************)
(* stage2_load: the tasks of stage 2 one after another, from the table the *)
(* linker makes of the objects in the Makefile's order, with what is on    *)
(* the screen (module Screen): the memory map, those of cpuid.c (module    *)
(* Cpuid), a20 (module A20), and the two that BootChain takes up, of which *)
(* there are only the messages here.                                       *)
(***************************************************************************)
EXTENDS Integers, FiniteSets, SequencesExt

CONSTANTS Leaf1C, Leaf1D, LeafX1C, LeafX1D, ApicIds,   \* the processor: see Cpuid
          Bioses, OtherBits,                           \* the machine: see A20
          Columns                                      \* the screen: see Screen

ASSUME CpuidAssumption == /\ Leaf1C \union Leaf1D \union LeafX1C \union LeafX1D \subseteq 0..31
                          /\ ApicIds \subseteq 0..255

ASSUME A20Assumption == /\ Bioses \subseteq {"opens", "refuses", "absent"}
                        /\ OtherBits \subseteq BOOLEAN

ASSUME ScreenAssumption == Columns \in Nat \ {0}

VARIABLES cpu, task, max_cpuid, loc_apic_id, proc_features, cpuid_infos_extra_1c,
          cpuid_infos_extra_1d, printed,
          bios, others, pc, a, said, input, output, command, expecting, keyboard, port,
          cursor_pos, cur_color, progress_cursor, drawn, reach, clobbered,
          current_task, at     \* the task of the loop, and where in its iteration it is

identity == <<cpu, task, max_cpuid, loc_apic_id, proc_features, cpuid_infos_extra_1c,
              cpuid_infos_extra_1d, printed>>
line     == <<bios, others, pc, a, said, input, output, command, expecting, keyboard, port>>
screen   == <<cursor_pos, cur_color, progress_cursor, drawn, reach, clobbered>>
loop     == <<current_task, at>>
vars     == <<identity, line, screen, loop>>

Identify == INSTANCE Cpuid
Line     == INSTANCE A20
Display  == INSTANCE Screen

Tasks == <<"set_memory_size", "cpuid_0x80000000", "cpuid_0x80000001", "cpuid_1", "a20",
           "gdt_setup", "disk_props">>
Count == Len(Tasks)

Init ==
    /\ Identify!Init /\ Line!Init /\ Display!Init
    /\ current_task = 0 /\ at = "begin"

-----------------------------------------------------------------------------
(* The messages: a letter stands for a word or more.                       *)

Executing == <<"e", "blue", "t", "light_gray", "i", "blue", "f", "light_gray", "(",
               "blue", "n", "light_gray", "o", "blue", "c", "light_gray", ")", "newline">>
DoneText == <<"done", "newline", "newline">>
Message  == <<"|", "m", "newline">>

(* print_state, for a feature that is there; in red when it is not. As the *)
(* screen is, the list is scaled down: one feature stands for four.        *)
StateText == <<"blank", "f", "green", "Y", "light_gray">>
FeaturesText(states) ==
    Message \o [i \in 1..(Len(StateText) * (Cardinality(states) \div 4)) |->
                   StateText[1 + ((i - 1) % Len(StateText))]] \o <<"newline">>

(* cpuid_1 has two lines more before the list.                             *)
TwoLines == <<"m", "newline", "m", "newline">>
CpuidText == CASE printed' = printed -> Message
               [] printed' # printed /\ task = "cpuid_1" ->
                    TwoLines \o FeaturesText(printed' \ printed)
               [] OTHER -> FeaturesText(printed' \ printed)

-----------------------------------------------------------------------------
Go(to) == at' = to /\ UNCHANGED <<current_task, identity, line>>

Begin == /\ at = "begin" /\ Display!Begin /\ at' = "bar" /\ current_task' = 1
         /\ UNCHANGED <<identity, line>>

ProgressBar == /\ at = "bar" /\ Display!UpdateProgressBar(current_task, Count)
               /\ Go(IF current_task > Count THEN "finished" ELSE "executing")

PrintExecuting == /\ at = "executing" /\ Display!Puts(Executing) /\ Go("task")
                  /\ UNCHANGED progress_cursor

Running(name) == at = "task" /\ Tasks[current_task] = name

PrintDone == /\ at = "done" /\ Display!Puts(DoneText)
             /\ at' = "bar" /\ current_task' = current_task + 1
             /\ UNCHANGED <<progress_cursor, identity, line>>

Finish == /\ at = "finished" /\ Display!Puts(<<"stage_2_finished", "newline", "newline", "blank">>)
          /\ Go("end") /\ UNCHANGED progress_cursor

(* The map's first area is printed, or the error.                          *)
SetMemorySize ==
    /\ Running("set_memory_size")
    /\ \/ Display!Puts(Message \o Message)
       \/ Display!Puts(<<"[", "b", "l", "t", "newline", "red", "TODO", "dark_gray", "newline">>)
    /\ Go("done") /\ UNCHANGED progress_cursor

CpuidTask ==
    /\ Running(task) /\ Identify!Next
    /\ Display!Puts(CpuidText)
    /\ at' = "done" /\ UNCHANGED <<current_task, progress_cursor, line>>

(* A message before each way of opening the line, and one after it.        *)
A20Text == CASE pc = 0 /\ said' = "success" -> Message \o Message
             [] pc = 0 /\ said' = "failed"  -> Message \o Message \o Message
             [] pc # 0 /\ pc' = Line!Done   -> Message
             [] OTHER                       -> <<>>

A20Task ==
    /\ Running("a20") /\ Line!Task /\ Display!Puts(A20Text)
    /\ at' = IF pc' = Line!Done THEN "done" ELSE "task"
    /\ UNCHANGED <<current_task, progress_cursor, identity>>

GdtSetup == /\ Running("gdt_setup") /\ Display!Puts(Message)
            /\ Go("done") /\ UNCHANGED progress_cursor

DiskProps ==
    /\ Running("disk_props")
    /\ \/ Display!Puts(Message \o <<"red", "cannot_read", "light_gray", "newline">>)
       \/ Display!Puts(Message \o Message \o Message \o Message \o Message \o Message)
    /\ Go("done") /\ UNCHANGED progress_cursor

(* The keyboard and its controller do not wait for a task.                 *)
Device == Line!Device /\ UNCHANGED <<identity, screen, loop>>

Next == \/ Begin \/ ProgressBar \/ PrintExecuting \/ PrintDone \/ Finish
        \/ SetMemorySize \/ CpuidTask \/ A20Task \/ GdtSetup \/ DiskProps
        \/ Device

Spec == Init /\ [][Next]_vars

-----------------------------------------------------------------------------
(* Every variable keeps its type.                                          *)
TypeOK == /\ Identify!TypeOK /\ Line!TypeOK /\ Display!TypeOK
          /\ current_task \in 0..(Count + 1)
          /\ at \in {"begin", "bar", "executing", "task", "done", "finished", "end"}

(* Of the extended features each is printed as the processor reports it,   *)
(* through the widths of the structures' gaps, by the time a20 starts;     *)
(* none is printed when the processor does not have their leaf.            *)
ExtendedReported == Identify!ExtendedReported

(* Whatever keys are pressed, before a20 and in it, none is written to the *)
(* keyboard controller's output port, where it could reset the machine.    *)
KeepsRunning == Line!KeepsRunning

(* Of Screen, see there, for the bar of these tasks.                       *)
BarAndTextApart  == [][Display!BarAndTextApart(Count)]_screen
OnlyWrapsClobber == Display!OnlyWrapsClobber

-----------------------------------------------------------------------------
(* The inductive invariant.                                                *)

(* Of a20 and of cpuid, see there.                                         *)
Kept == Line!PortOK /\ Identify!Reported

LoopOK == /\ at = "begin" <=> current_task = 0
          /\ at \in {"executing", "task", "done"} => current_task <= Count
          /\ at \in {"finished", "end"} => current_task = Count + 1

(* The rows at most that each task's messages take, and the row it starts  *)
(* in: 13 more are for what the loop prints before and after it.  They end *)
(* well before the row's byte overflows, however narrow the screen.        *)
RowsOf == <<9, 3, 24, 88, 12, 3, 18>>
Before == <<2, 24, 40, 77, 178, 203, 219, 250>>
LastRow == CASE at = "executing" \/ at = "bar" \/ at = "finished" -> Before[current_task]
             [] at = "task" -> Before[current_task] + (IF current_task = 5 /\ pc # 0 THEN 19 ELSE 10)
             [] at = "done" -> Before[current_task] + 10 + RowsOf[current_task]
             [] OTHER       -> 254

ScreenOK ==
    /\ OnlyWrapsClobber /\ Display!Ahead(cursor_pos, reach)
    /\ at = "begin" => /\ cursor_pos = [row |-> 0, column |-> 0] /\ progress_cursor = cursor_pos
    /\ at # "begin" => /\ progress_cursor = [row |-> 1, column |-> 1]
                       /\ cursor_pos.row \in 2..LastRow

IInv == TypeOK /\ Kept /\ LoopOK /\ ScreenOK
=============================================================================
