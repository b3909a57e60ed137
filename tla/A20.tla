-------------------------------- MODULE A20 --------------------------------
(***************************************************************************)
(* The task a20 of stage 2: the BIOS is asked to open address line 20, and *)
(* if it answers 0 the keyboard controller is, byte by byte, with a wait   *)
(* for its status before each.  Between the last read of the status and    *)
(* the access after it, the controller works and keys are pressed.         *)
(*                                                                         *)
(* A byte is the set of the bits of the controller's output port that      *)
(* matter in it: "a20" opens the line, "run" keeps the processor running.  *)
(***************************************************************************)
EXTENDS Naturals, Sequences

CONSTANTS Bioses,       \* what int 0x15 may do: see Answer
          OtherBits     \* whether the status has bits set that no access here changes

VARIABLES
  bios, others,         \* the machine
  pc,                   \* 0 in a20_int15, then the index in Script
  a,                    \* the local a of a20_keyboard
  said,                 \* what a20 has printed last
  input, output,        \* the controller's buffers, <<>> or one item
  command,              \* its status: what it was last sent is a command
  expecting, keyboard,  \* it waits for the output port's byte; keys come in
  port                  \* its output port

code == <<pc, a, said>>
controller == <<input, output, command, expecting, keyboard>>
vars == <<bios, others, code, controller, port>>

Bits  == {"a20", "run"}
Byte  == SUBSET Bits

(* a20_keyboard: the waits, of both kinds, and the access after each.      *)
Script == <<"false", "AD", "false", "D0", "true", "in", "false", "D1",
            "false", "out", "false", "AE", "false", "return">>
Done   == Len(Script) + 1

(* What the BIOS last sent may be waiting still: a command, or a byte for  *)
(* the keyboard.                                                           *)
Init ==
    /\ bios \in Bioses /\ others \in OtherBits
    /\ pc = 0 /\ a = {} /\ said = "nothing"
    /\ input \in {<<>>, << <<"command", "AE">> >>, << <<"data", {}>> >>}
    /\ command \in IF input = <<>> THEN BOOLEAN ELSE {input[1][1] = "command"}
    /\ output = <<>>
    /\ expecting = FALSE /\ keyboard = TRUE
    /\ port \in {{"run"}, Bits}

-----------------------------------------------------------------------------
(* The BIOS: 0x2401 opens the line, 0x2402 tells whether it is open.  An   *)
(* error leaves a code in ax, which is not 0.                              *)

Opened == IF bios = "opens" THEN Bits ELSE port
Answer == CASE bios = "opens"   -> 1
            [] bios = "refuses" -> 0
            [] bios = "absent"  -> 34306   \* 0x8602, not supported

A20Int15 ==
    /\ pc = 0
    /\ port' = Opened
    /\ IF Answer # 0 THEN pc' = Done /\ said' = "success"
                     ELSE pc' = 1 /\ said' = "failed"
    /\ UNCHANGED <<bios, others, a, controller>>

-----------------------------------------------------------------------------
(* The status byte is 2: the input buffer is full, and nothing else is    *)
(* so; the output buffer is empty, and the input no command.               *)
StatusIs2 == input # <<>> /\ output = <<>> /\ ~command /\ ~others

(* while (n == (a == 2)): this iteration is not the last one.              *)
WaitsForBit(n) == n # (input # <<>>)
Waits(n) == n = StatusIs2

A20KeyboardWait ==
    /\ pc \in 1..Len(Script) /\ Script[pc] \in {"false", "true"}
    /\ ~Waits(Script[pc] = "true")
    /\ pc' = pc + 1
    /\ UNCHANGED <<bios, others, a, said, controller, port>>

WriteQueued(kind, item) ==
    input' = Append(input, <<kind, item>>) /\ command' = (kind = "command")
Write(kind, item) == input' = << <<kind, item>> >> /\ command' = (kind = "command")

Written == a \union {"a20"}

A20KeyboardAccess ==
    /\ pc \in 1..Len(Script)
    /\ LET access == Script[pc]
       IN  \/ /\ access \in {"AD", "D0", "D1", "AE"}
              /\ Write("command", access)
              /\ pc' = pc + 1 /\ UNCHANGED <<a, said, output>>
           \/ /\ access = "in"
              /\ \E byte \in Byte : (output # <<>> => byte = output[1]) /\ a' = byte
              /\ output' = <<>>
              /\ pc' = pc + 1 /\ UNCHANGED <<said, input, command>>
           \/ /\ access = "out"
              /\ Write("data", Written)
              /\ pc' = pc + 1 /\ UNCHANGED <<a, said, output>>
           \/ /\ access = "return"
              /\ pc' = Done /\ said' = "success"
              /\ UNCHANGED <<a, input, output, command>>
    /\ UNCHANGED <<bios, others, expecting, keyboard, port>>

-----------------------------------------------------------------------------
(* The controller takes the byte in its input buffer.                      *)
Consume ==
    /\ input # <<>> /\ input' = <<>>
    /\ LET kind == input[1][1]
           item == input[1][2]
       IN  /\ output' = IF kind = "command" /\ item = "D0" THEN <<port>> ELSE output
           /\ expecting' = (kind = "command" /\ item = "D1")
           /\ keyboard' = IF kind = "command" /\ item \in {"AD", "AE"} THEN item = "AE"
                          ELSE keyboard
           /\ port' = IF kind = "data" /\ expecting THEN item ELSE port
    /\ UNCHANGED <<bios, others, code, command>>

(* A key is pressed.                                                       *)
Key ==
    /\ keyboard /\ output = <<>>
    /\ \E byte \in Byte : output' = <<byte>>
    /\ UNCHANGED <<bios, others, code, input, command, expecting, keyboard, port>>

Task   == A20Int15 \/ A20KeyboardWait \/ A20KeyboardAccess
Device == Consume \/ Key

Next == Task \/ Device

Spec == Init /\ [][Next]_vars

(* The processor executes, and the controller takes what it is given.      *)
FairSpec == Spec /\ WF_vars(Task) /\ WF_vars(Consume)

-----------------------------------------------------------------------------
(* Every variable keeps its type.                                          *)
TypeOK ==
    /\ bios \in Bioses /\ others \in OtherBits
    /\ pc \in 0..Done
    /\ a \in Byte /\ said \in {"nothing", "failed", "success"}
    /\ Len(input) <= 1 /\ Len(output) <= 1 /\ (output # <<>> => output[1] \in Byte)
    /\ command \in BOOLEAN /\ expecting \in BOOLEAN /\ keyboard \in BOOLEAN /\ port \in Byte

(* The task never resets the machine: neither a key read in place of the   *)
(* output port nor what an empty buffer holds is ever written to that      *)
(* port.  It is not the waits' order that sees to this: between a wait and *)
(* its access the controller may take 0xD1, and then the byte would be the *)
(* port's.  It is that no wait for a status of 2 is over once a command    *)
(* has been sent, for the status says so, and 0xD1 is never reached.       *)
KeepsRunning == "run" \in port

(* The inductive invariant: the task does not come past the second wait.   *)
PortOK == /\ KeepsRunning /\ ~expecting
          /\ pc \in {0, 1, 2, 3, Done} /\ (pc = 3 => command)
          /\ input # <<>> => /\ command = (input[1][1] = "command")
                             /\ ~(command /\ input[1][2] = "D1")

(* a20 opens line 20, one way or the other, and then says so.              *)
Opens == <>(said = "success" /\ "a20" \in port)
=============================================================================
