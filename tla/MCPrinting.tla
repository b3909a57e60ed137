----------------------------- MODULE MCPrinting -----------------------------
(* Instances of Printing.                                                  *)
EXTENDS Printing

(* Around 0, the most negative int of 8 bits, and what a char can hold.    *)
MCWords == {0, 1, 9, 127, 128, 255}

(* Directives of every kind, one in a call.                                *)
Slots  == {0, 1, 7, 8, 120, 127, 128, 200, 255}
Widths == {-2, -1, 2, 9}
Precisions == {-2, -1, 0, 3}

Flagged == [conv : {"d", "u", "o", "x", "X", "p"}, width : Widths, precision : Precisions,
            flags : SUBSET {"ZEROPAD", "PLUS", "SPACE", "LEFT", "SPECIAL"},
            qualifier : {"none"}, text : {<<>>}]
Qualified == [conv : {"d", "u", "o", "x", "X"}, width : {-1, 9}, precision : {-1},
              flags : SUBSET {"PLUS"}, qualifier : {"h", "l"}, text : {<<>>}]
Strings == [conv : {"c", "s"}, width : Widths, precision : Precisions,
            flags : SUBSET {"ZEROPAD", "LEFT"}, qualifier : {"none"}, text : {<<>>}]

StarValues(n) == IF n = -2 THEN {<< <<3>> >>, << <<251>> >>} ELSE {<<>>}   \* 251 is -5
Given(d, slots) ==
    \E w \in StarValues(d.width), p \in StarValues(d.precision), v \in slots :
       call = [fmt |-> <<d>>, arguments |-> w \o p \o << <<v>> >>]

OneDirective ==
    \/ \E d \in Flagged \union Qualified : Given(d, Slots)
    \/ \E d \in Strings : Given(d, {16, 32})

(* In stage 5, where a slot is wider than an int, with anything above it.  *)
WideSlots == \E d \in Qualified \union {Plain(c) : c \in {"d", "u", "x", "p", "c"}} :
                 Given(d, {2048, 2175, 3968, 4095})

(* A count, and what is not a directive.                                   *)
Mixed == \E w \in Slots :
    call = [fmt |-> <<Text, Plain("n"), [Plain("other") EXCEPT !.text = <<122>>], Plain("%"),
                      Plain("i"), Plain("other")>>,
            arguments |-> << <<16>>, <<w>> >>]

MCSpec == /\ \/ Init
             \/ stage = 5 /\ (OneDirective \/ WideSlots \/ Mixed) /\ Stage5!Init
             \/ stage = 2 /\ OneDirective /\ Stage2!Init
          /\ [][Next]_vars
=============================================================================
