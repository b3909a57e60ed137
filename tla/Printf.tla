------------------------------- MODULE Printf -------------------------------
(***************************************************************************)
(* vsprintf, of which stages 2 to 5 have a copy each: one call, one item   *)
(* of its format at a time.  An item is a text, or a directive as the      *)
(* parsing of flags, width, precision and qualifier leaves it.  An         *)
(* argument is read by what the directive says, not by what the caller     *)
(* wrote: the arguments are a row of slots, each as wide as a long, and    *)
(* one wider than that takes several.                                      *)
(*                                                                         *)
(* Characters are their codes.  The widths of the types are parameters:    *)
(* the stages differ in them, and TLC's integers are too small for them.   *)
(***************************************************************************)
EXTENDS Integers, SequencesExt

CONSTANTS ShortBits, IntBits, LongBits,   \* none wider than the next
          Memory     \* the strings that pointers point to

VARIABLES call,      \* [fmt: the items, arguments: for each its slots]
          pos,       \* index of the item to convert; beyond the last: returned
          args,      \* the va_list: the slots not read yet
          str,       \* what is in buf
          stored     \* what %n has stored through its pointers

vars == <<call, pos, args, str, stored>>

None == -1           \* no width or precision
Star == -2           \* it is the next argument

Flags == {"ZEROPAD", "PLUS", "SPACE", "LEFT", "SPECIAL"}
Directive(conv, flags, width, precision, qualifier) ==
    [conv |-> conv, flags |-> flags, width |-> width, precision |-> precision,
     qualifier |-> qualifier, text |-> <<>>]
Text(s) == [Directive("text", {}, None, None, "none") EXCEPT !.text = s]

-----------------------------------------------------------------------------
(* number: its parts, and the order in which they are put out.             *)

Unsigned(n, bits) == n % (2 ^ bits)
Signed(n, bits) ==
    LET u == Unsigned(n, bits) IN IF u < 2 ^ (bits - 1) THEN u ELSE u - (2 ^ bits)

Repeat(c, n) == [i \in 1..n |-> c]

Minus == 45  Plus == 43  Space == 32  Zero == 48
Digit(d, small) == IF d < 10 THEN Zero + d ELSE (IF small THEN 87 ELSE 55) + d

(* __do_div, until nothing is left; digits come from the last to the first *)
Digits(n, base, small) ==
    LET digits[m \in Nat] ==
            IF m < base THEN <<Digit(m, small)>>
            ELSE Append(digits[m \div base], Digit(m % base, small))
    IN  digits[n]

Sign(num, flags) == IF "SIGN" \notin flags THEN <<>>
                    ELSE IF num < 0 THEN <<Minus>>
                    ELSE IF "PLUS" \in flags THEN <<Plus>>
                    ELSE IF "SPACE" \in flags THEN <<Space>> ELSE <<>>

Prefix(base, flags) == IF "SPECIAL" \notin flags THEN <<>>
                       ELSE CASE base = 8  -> <<Zero>>
                              [] base = 16 -> <<Zero, IF "SMALL" \in flags THEN 120 ELSE 88>>
                              [] OTHER     -> <<>>

MagnitudeSigned(num, flags) == IF num < 0 THEN -(num + 1) ELSE num
Magnitude(num, flags) ==
    Unsigned(IF "SIGN" \in flags /\ num < 0 THEN -num ELSE num, LongBits)

PaddedUnsigned(sign, prefix, figures, size, flags) ==
    LET padding == Repeat(IF "ZEROPAD" \in flags THEN Zero ELSE Space,
                          size - Len(prefix \o figures))
    IN  IF "LEFT" \in flags THEN sign \o prefix \o figures \o padding
        ELSE padding \o sign \o prefix \o figures
Padded(sign, prefix, figures, size, flags) ==
    LET missing == size - Len(sign \o prefix \o figures)
    IN  CASE "LEFT" \in flags    -> sign \o prefix \o figures \o Repeat(Space, missing)
          [] "ZEROPAD" \in flags /\ "LEFT" \notin flags
                                 -> sign \o prefix \o Repeat(Zero, missing) \o figures
          [] OTHER               -> Repeat(Space, missing) \o sign \o prefix \o figures

Number(num, base, size, precision, flags) ==
    LET digits  == Digits(Magnitude(num, flags), base, "SMALL" \in flags)
        figures == Repeat(Zero, precision - Len(digits)) \o digits
    IN  Padded(Sign(num, flags), Prefix(base, flags), figures, size, flags)

-----------------------------------------------------------------------------
(* vsprintf.                                                               *)

Item == call.fmt[pos]

(* The widths and precisions that are arguments come first.                *)
Stars(d) == (IF d.width = Star THEN 1 ELSE 0) + (IF d.precision = Star THEN 1 ELSE 0)
StarWidth(d) == IF d.width = Star THEN Signed(args[1], IntBits) ELSE d.width
Width(d) ==      \* the most negative one is its own negation
    IF d.width = Star /\ StarWidth(d) < 0 THEN Signed(-StarWidth(d), IntBits) ELSE StarWidth(d)
FlagsOf(d) == IF d.width = Star /\ StarWidth(d) < 0 THEN d.flags \union {"LEFT"} ELSE d.flags
Precision(d) ==
    IF d.precision # Star THEN d.precision
    ELSE LET n == Signed(args[Stars(d)], IntBits) IN IF n < 0 THEN 0 ELSE n

(* The slot of the argument itself, and the list after it.                 *)
Slot == args[Stars(Item) + 1]
Taken(n) == SubSeq(args, n + 1, Len(args))

Put(s) == str' = str \o s
Step == pos' = pos + 1 /\ UNCHANGED call
Read == args' = Taken(Stars(Item) + 1) /\ Step /\ UNCHANGED stored
Skip == args' = Taken(Stars(Item)) /\ Step /\ UNCHANGED stored

ConvertingOf(convs) == pos <= Len(call.fmt) /\ Item.conv \in convs

Literal == ConvertingOf({"text"}) /\ Put(Item.text) /\ Skip

Aligned(s, d) == LET blanks == Repeat(Space, Width(d) - Len(s))
                 IN  IF "LEFT" \in FlagsOf(d) THEN s \o blanks ELSE blanks \o s

WholeSlot(slot) == slot
Char(slot) == Unsigned(slot, 8)

Character == ConvertingOf({"c"}) /\ Put(Aligned(<<Char(Slot)>>, Item)) /\ Read

(* strnlen: a precision that is missing is the largest size_t.             *)
Strnlen(s, precision) ==
    IF precision = None \/ precision >= Len(s) THEN s ELSE SubSeq(s, 1, precision)

String ==
    /\ ConvertingOf({"s"}) /\ Put(Aligned(Strnlen(Memory[Slot], Precision(Item)), Item)) /\ Read

Pointer ==
    /\ ConvertingOf({"p"})
    /\ LET given == Width(Item) # None
           flags == FlagsOf(Item) \union (IF given THEN {} ELSE {"ZEROPAD"})
           size  == IF given THEN Width(Item) ELSE LongBits \div 4
       IN  Put(Number(Signed(Slot, LongBits), 16, size, Precision(Item), flags))
    /\ Read

CountWritten ==
    /\ ConvertingOf({"n"})
    /\ stored' = Append(stored, Len(str))
    /\ args' = Taken(Stars(Item) + 1) /\ Step /\ UNCHANGED str

(* Another character after the %, which is printed, or none, at the end.   *)
Percent == ConvertingOf({"%"}) /\ Put(<<37>>) /\ Skip
Unknown == ConvertingOf({"other"}) /\ Put(<<37>> \o Item.text) /\ Skip

Base(d) == CASE d.conv = "o" -> 8 [] d.conv \in {"x", "X"} -> 16 [] OTHER -> 10
NumberFlags(d) == FlagsOf(d) \union (IF d.conv \in {"d", "i"} THEN {"SIGN"} ELSE {})
                             \union (IF d.conv = "x" THEN {"SMALL"} ELSE {})

Num(d, slot) ==
    LET read == IF d.conv \in {"d", "i"} THEN Signed(slot, IF d.qualifier = "h" THEN ShortBits
                                                           ELSE IntBits)
                ELSE Unsigned(slot, IF d.qualifier = "h" THEN ShortBits ELSE IntBits)
    IN  IF d.qualifier = "l" THEN Signed(slot, LongBits) ELSE Signed(read, LongBits)

Integer ==
    /\ ConvertingOf({"d", "i", "u", "o", "x", "X"})
    /\ Put(Number(Num(Item, Slot), Base(Item), Width(Item), Precision(Item), NumberFlags(Item)))
    /\ Read

(* va_start, and an empty buffer.                                          *)
Init == pos = 1 /\ args = FlattenSeq(call.arguments) /\ str = <<>> /\ stored = <<>>

Next == \/ Literal \/ Character \/ String \/ Pointer \/ CountWritten
        \/ Percent \/ Unknown \/ Integer

Spec == Init /\ [][Next]_vars
-----------------------------------------------------------------------------
Reading == {"c", "s", "p", "n", "d", "i", "u", "o", "x", "X"}
Numeric == {"p", "d", "i", "u", "o", "x", "X"}

(* How many arguments the items before the i-th are written for.           *)
NamedBy(d) == (IF d.conv \in Reading THEN 1 ELSE 0) + (IF d.width = Star THEN 1 ELSE 0)
                                                  + (IF d.precision = Star THEN 1 ELSE 0)
Named(i) == LET named[k \in 0..Len(call.fmt)] ==
                    IF k = 0 THEN 0 ELSE named[k - 1] + NamedBy(call.fmt[k])
            IN  named[i - 1]

(* Every variable keeps its type.                                          *)
TypeOK ==
    /\ pos \in 1..(Len(call.fmt) + 1)
    /\ \A i \in DOMAIN args : args[i] \in 0..((2 ^ LongBits) - 1)
    /\ \A i \in DOMAIN str : str[i] \in 0..255
    /\ \A i \in DOMAIN stored : stored[i] \in 0..Len(str)

(* Each directive of a format reads the argument that was written for it,  *)
(* all of it: what is left in the va_list is what the directives after it  *)
(* are written for, and in the end nothing.                                *)
ArgumentsInStep ==
    args = FlattenSeq(SubSeq(call.arguments, Named(pos) + 1, Len(call.arguments)))

(* What the standard says the argument of a directive is.                  *)
Meant(d, slot) ==
    LET bits == CASE d.conv = "p" \/ d.qualifier = "l" -> LongBits
                  [] d.conv # "p" /\ d.qualifier = "h" -> ShortBits
                  [] OTHER -> IntBits
    IN  IF d.conv \in {"d", "i"} THEN Signed(slot, bits) ELSE Unsigned(slot, bits)

Bare(s) == LET inner == {i \in 1..Len(s) : s[i] # Space}
           IN  SubSeq(s, Min(inner), Max(inner))
DigitValue(c) == IF c <= 57 THEN c - Zero ELSE IF c < 97 THEN c - 55 ELSE c - 87
ValueOf(s, base) == LET value[k \in 0..Len(s)] ==
                            IF k = 0 THEN 0 ELSE (base * value[k - 1]) + DigitValue(s[k])
                    IN  value[Len(s)]

ReadBase(d) == CASE d.conv = "o" -> 8 [] d.conv \in {"x", "X", "p"} -> 16 [] OTHER -> 10
Marked(d)   == "SPECIAL" \in d.flags /\ ReadBase(d) = 16
Signs(s)    == IF s[1] \in {Minus, Plus} THEN 1 ELSE 0
FiguresIn(d, s) == SubSeq(s, Signs(s) + (IF Marked(d) THEN 2 ELSE 0) + 1, Len(s))

Added == SubSeq(str', Len(str) + 1, Len(str'))

(* The text of a number says which it is: within the blanks there are a    *)
(* minus exactly if it is negative, 0x if asked for, and figures of the    *)
(* base and case of the conversion whose value is the argument's, the most *)
(* negative one included, and no fewer than the precision.                 *)
ReadsBack ==
    pos' # pos /\ Item.conv \in Numeric =>
        LET text    == Bare(Added)
            figures == FiguresIn(Item, text)
            value   == Meant(Item, Slot)
        IN  /\ (text[1] = Minus) = (value < 0)
            /\ text[1] = Plus => "PLUS" \in Item.flags /\ Item.conv \in {"d", "i"}
            /\ Marked(Item) =>
                 SubSeq(text, Signs(text) + 1, Signs(text) + 2) \in {<<48, 88>>, <<48, 120>>}
            /\ \A i \in DOMAIN figures : DigitValue(figures[i]) \in 0..(ReadBase(Item) - 1)
            /\ \A i \in DOMAIN figures : figures[i] >= 97 => Item.conv = "x"
            /\ Len(figures) >= Precision(Item)
            /\ ValueOf(figures, ReadBase(Item)) = IF value < 0 THEN -value ELSE value

Larger(m, n) == IF m < n THEN n ELSE m
FewestFigures(v, base) ==
    LET power[k \in 0..(v + 1)] == IF k = 0 THEN 1 ELSE base * power[k - 1]
    IN  CHOOSE k \in 1..(v + 1) : power[k] > v /\ (k > 1 => power[k - 1] <= v)

(* The columns that the argument itself needs, for the standard.           *)
Needed(d, slot) ==
    LET value == Meant(d, slot)
        signed == d.conv \in {"d", "i"} /\ (value < 0 \/ {"PLUS", "SPACE"} \intersect d.flags # {})
        mark == IF "SPECIAL" \notin d.flags THEN 0
                ELSE CASE ReadBase(d) = 16 -> 2 [] ReadBase(d) = 8 -> 1 [] OTHER -> 0
    IN  (IF signed THEN 1 ELSE 0) + mark
        + Larger(Precision(d), FewestFigures(IF value < 0 THEN -value ELSE value, ReadBase(d)))

Shown(d, slot) == IF d.conv = "c" THEN <<slot % 256>>
                  ELSE IF Precision(d) = None \/ Len(Memory[slot]) < Precision(d) THEN Memory[slot]
                  ELSE SubSeq(Memory[slot], 1, Precision(d))

ToTheLeft(d) == "LEFT" \in d.flags \/ (d.width = Star /\ StarWidth(d) < 0)
WidthMeant(d) == IF d.conv = "p" /\ d.width = None THEN LongBits \div 4 ELSE Width(d)

(* A field is as wide as asked for, and wider only by what the argument    *)
(* needs; a string or number stands on the side asked for.                 *)
Filled ==
    pos' # pos =>
        /\ Item.conv \in Numeric =>
             /\ Len(Added) = Larger(WidthMeant(Item), Needed(Item, Slot))
             /\ ToTheLeft(Item) => Added[1] # Space \/ "SPACE" \in Item.flags
             /\ ~ToTheLeft(Item) => Added[Len(Added)] # Space
        /\ Item.conv \in {"c", "s"} =>
             LET shown == Shown(Item, Slot)
             IN  /\ Len(Added) = Larger(Width(Item), Len(shown))
                 /\ IF ToTheLeft(Item) THEN IsPrefix(shown, Added) ELSE IsSuffix(shown, Added)
=============================================================================
