------------------------------ MODULE Printing ------------------------------
(***************************************************************************)
(* Every call of printf that is compiled into stages 2 to 5, each with the *)
(* stage's own copy (module Printf): in stages 2 to 4 a word holds an int  *)
(* and a long, in stage 5 a long is wider.  Widths are scaled down: an int *)
(* has 8 bits and a long of stage 5 has 12, three figures of a pointer.    *)
(*                                                                         *)
(* A call is its directives, with a text between any two, and arguments    *)
(* from small sets.  The texts themselves are left out.                    *)
(***************************************************************************)
EXTENDS Integers, Sequences

CONSTANT Words     \* values of an int that calls are made with

ASSUME WordsAssumption == Words \subseteq 0..255

VARIABLES stage, call, pos, args, str, stored

printf == <<call, pos, args, str, stored>>
vars   == <<stage, call, pos, args, str, stored>>

Plain(conv) == [conv |-> conv, flags |-> {}, width |-> -1, precision |-> -1,
                qualifier |-> "none", text |-> <<>>]
Text == [Plain("text") EXCEPT !.text = <<46>>]
Long(conv) == [Plain(conv) EXCEPT !.qualifier = "l"]
Short(conv) == [Plain(conv) EXCEPT !.qualifier = "h"]

Format(directives) ==
    [i \in 1..((2 * Len(directives)) + 1) |-> IF i % 2 = 0 THEN directives[i \div 2] ELSE Text]
Call(directives, arguments) == [fmt |-> Format(directives), arguments |-> arguments]

(* Names and files of tasks, error messages, features: where strings are.  *)
Memory == [p \in {16, 32} |-> IF p = 16 THEN <<>> ELSE <<97, 98, 99>>]

Color == 240          \* COLOR(black); the others are 1 to 15 more

Message == Call(<<>>, <<>>)

-----------------------------------------------------------------------------
(* Stage 2.                                                                *)
ExecutingInColor ==
    {Call([i \in 1..12 |-> IF i \in {2, 5} THEN Plain("s") ELSE IF i \in {8, 11} THEN Short("u")
                           ELSE Plain("c")],
          [i \in 1..12 |-> IF i \in {2, 5} THEN <<f>> ELSE IF i \in {8, 11} THEN <<n>>
                           ELSE IF i % 3 = 1 THEN <<Color + 1>> ELSE <<Color + 7>>])
     : f \in DOMAIN Memory, n \in {1, 15}}

PrintProp == {Call(<<Plain("x")>>, << <<n>> >>) : n \in Words}
CannotRead == {Call(<<Plain("c"), Plain("s"), Plain("c")>>, << <<Color + 4>>, <<f>>, <<Color + 7>> >>)
               : f \in DOMAIN Memory}
PrintState == {Call(<<Plain("s"), Plain("c"), Plain("c"), Plain("c")>>,
                    << <<f>>, <<Color + e[1]>>, <<e[2]>>, <<Color + 7>> >>)
               : f \in DOMAIN Memory, e \in {<<2, 89>>, <<4, 78>>}}
Decimal == {Call(<<Plain("d")>>, << <<n>> >>) : n \in Words}
MemoryError == {Call(<<Plain("d"), Plain("x")>>, << <<carry>>, <<a>> >>) : carry \in 0..1, a \in Words}
Todo == Call(<<Plain("c"), Plain("c")>>, << <<Color + 4>>, <<Color + 8>> >>)

(* The fields of struct mem_sec: two of 64 bits, which take two slots, and *)
(* two of 32.  One call is given three of them, the other the structure.   *)
PrintMemSec == {Call(<<Long("p"), Long("x"), Plain("d")>>,
                     << <<base, 0>>, <<length, 0>>, <<type>> >>)
                : base \in Words, length \in Words, type \in 1..2}
BufferShown == {Call(<<Plain("p")>>, << <<n, m, n, m, n, m>> >>) : n \in Words, m \in Words}
MemoryCalls == PrintMemSec \union BufferShown

Calls2 == ExecutingInColor \union PrintProp \union CannotRead \union PrintState
          \union Decimal \union MemoryError \union MemoryCalls \union {Message, Todo}

-----------------------------------------------------------------------------
(* Stages 3, 4 and 5.                                                      *)
Executing == {Call(<<Plain("s"), Plain("s"), Plain("u"), Plain("u")>>,
                   << <<f>>, <<g>>, <<n>>, <<7>> >>)
              : f \in DOMAIN Memory, g \in DOMAIN Memory, n \in 1..7}

(* A nibble each, as a letter or a figure.                                 *)
Hexdump == {Call(<<Plain("c"), Plain("c")>>, << <<h>>, <<l>> >>) : h \in {48, 57}, l \in {65, 70}}
Registers == {Call([i \in 1..6 |-> Plain("x")], [i \in 1..6 |-> <<IF i % 2 = 0 THEN n ELSE m>>])
              : n \in Words, m \in Words}
CopyingBytesWide == {Call(<<Plain("d"), Plain("d"), Plain("p")>>, << <<n, 0>>, <<m>>, <<p>> >>)
                     : n \in Words, m \in Words, p \in Words}
CopyingBytes == {Call(<<Plain("d"), Plain("d"), Plain("p")>>, << <<n>>, <<m>>, <<p>> >>)
                 : n \in Words, m \in Words, p \in Words}
CommandFailed == {Call(<<Plain("s"), Plain("u"), Plain("s")>>, << <<f>>, <<n>>, <<g>> >>)
                  : f \in DOMAIN Memory, g \in DOMAIN Memory, n \in Words}
ErrorIs == {Call(<<Plain("s")>>, << <<f>> >>) : f \in DOMAIN Memory}

Calls3 == Executing \union Hexdump \union Registers \union CopyingBytes \union CommandFailed
          \union ErrorIs \union Decimal \union PrintProp \union {Message}

Calls4 == {Message}

Calls5 == Executing \union {Message}

-----------------------------------------------------------------------------
Stage2 == INSTANCE Printf WITH ShortBits <- 4, IntBits <- 8, LongBits <- 8, Memory <- Memory
Stage3 == INSTANCE Printf WITH ShortBits <- 4, IntBits <- 8, LongBits <- 8, Memory <- Memory
Stage4 == INSTANCE Printf WITH ShortBits <- 4, IntBits <- 8, LongBits <- 8, Memory <- Memory
Stage5 == INSTANCE Printf WITH ShortBits <- 4, IntBits <- 8, LongBits <- 12, Memory <- Memory

Init == \/ stage = 2 /\ call \in Calls2 /\ Stage2!Init
        \/ stage = 3 /\ call \in Calls3 /\ Stage3!Init
        \/ stage = 4 /\ call \in Calls4 /\ Stage4!Init
        \/ stage = 5 /\ call \in Calls5 /\ Stage5!Init

Print2 == stage = 2 /\ Stage2!Next /\ UNCHANGED stage
Print3 == stage = 3 /\ Stage3!Next /\ UNCHANGED stage
Print4 == stage = 4 /\ Stage4!Next /\ UNCHANGED stage
Print5 == stage = 5 /\ Stage5!Next /\ UNCHANGED stage

Next == Print2 \/ Print3 \/ Print4 \/ Print5

Spec == Init /\ [][Next]_vars

-----------------------------------------------------------------------------
(* Every variable keeps its type.                                          *)
TypeOK == /\ stage \in 2..5
          /\ CASE stage = 2 -> Stage2!TypeOK [] stage = 3 -> Stage3!TypeOK
               [] stage = 4 -> Stage4!TypeOK [] stage = 5 -> Stage5!TypeOK

(* In every call of the stages but the two that show a struct mem_sec each *)
(* directive reads the whole of the argument written for it, and in the    *)
(* end nothing is left over.                                               *)
InStep == IF stage = 5 THEN Stage5!ArgumentsInStep ELSE Stage2!ArgumentsInStep
ArgumentsInStep == call \notin MemoryCalls => InStep

(* So it is for the line of the memory map, too.                           *)
MapInStep == call \in PrintMemSec => InStep

(* A number printed, read in its base, is the number given, as wide as the *)
(* directive says, the most negative one included; only negative ones have *)
(* a minus, and there are no fewer figures than the precision.             *)
NumbersReadBack == [][IF stage = 5 THEN Stage5!ReadsBack ELSE Stage2!ReadsBack]_vars

(* A field is as wide as asked for, wider only by what its argument needs, *)
(* and filled on the side asked for.                                       *)
FieldsFilled == [][IF stage = 5 THEN Stage5!Filled ELSE Stage2!Filled]_vars
=============================================================================
