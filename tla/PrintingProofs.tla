--------------------------- MODULE PrintingProofs ---------------------------
(***************************************************************************)
(* What the calls of printf of stages 2 to 5 put out (module Printing).    *)
(* What vsprintf does for a call is proved in PrintfProofs for any sizes:  *)
(* if it has slots enough, and more if it is well formed.  Here: every     *)
(* call of the stages has enough, all but those that show a struct mem_sec *)
(* are well formed, and each stage's copy is vsprintf with its sizes.      *)
(* Words is any set of values of an int.                                   *)
(***************************************************************************)
EXTENDS Printing, TLAPS

(* vsprintf with the sizes of stages 2 to 4, and with those of stage 5.    *)
Narrow == INSTANCE PrintfProofs WITH ShortBits <- 4, IntBits <- 8, LongBits <- 8, Memory <- Memory
Wide == INSTANCE PrintfProofs WITH ShortBits <- 4, IntBits <- 8, LongBits <- 12, Memory <- Memory

-----------------------------------------------------------------------------
(* The copies of the stages.                                               *)
LEMMA Same2 ==
  /\ Stage2!Init <=> Narrow!Init
  /\ Stage2!Next <=> Narrow!Next
  /\ Stage2!TypeOK <=> Narrow!TypeOK
  /\ Stage2!ArgumentsInStep <=> Narrow!ArgumentsInStep
  /\ Stage2!ReadsBack <=> Narrow!ReadsBack
  /\ Stage2!Filled <=> Narrow!Filled
<1> USE DEF Stage2!None, Narrow!None, Stage2!Star, Narrow!Star, Stage2!Unsigned, Narrow!Unsigned,
      Stage2!Signed, Narrow!Signed, Stage2!Repeat, Narrow!Repeat, Stage2!Minus,
      Narrow!Minus, Stage2!Plus, Narrow!Plus, Stage2!Space, Narrow!Space, Stage2!Zero,
      Narrow!Zero, Stage2!Digit, Narrow!Digit, Stage2!Item, Narrow!Item,
      Stage2!StarWidth, Narrow!StarWidth, Stage2!Slot, Narrow!Slot, Stage2!Taken,
      Narrow!Taken, Stage2!Put, Narrow!Put, Stage2!Step, Narrow!Step, Stage2!Read,
      Narrow!Read, Stage2!Skip, Narrow!Skip, Stage2!ConvertingOf, Narrow!ConvertingOf,
      Stage2!Char, Narrow!Char, Stage2!Strnlen, Narrow!Strnlen, Stage2!Base,
      Narrow!Base, Stage2!Reading, Narrow!Reading, Stage2!Numeric, Narrow!Numeric,
      Stage2!Added, Narrow!Added, Stage2!DigitValue, Narrow!DigitValue, Stage2!ReadBase,
      Narrow!ReadBase, Stage2!Marked, Narrow!Marked, Stage2!Signs, Narrow!Signs,
      Stage2!Min, Narrow!Min, Stage2!Max, Narrow!Max, Stage2!Reverse, Narrow!Reverse
<1>1. \A d : Stage2!Stars(d) = Narrow!Stars(d)
  BY SMT DEF Stage2!Stars, Narrow!Stars
<1>2. \A d : Stage2!NamedBy(d) = Narrow!NamedBy(d)
  BY SMT DEF Stage2!NamedBy, Narrow!NamedBy
<1>3. \A d : Stage2!Width(d) = Narrow!Width(d)
  BY Zenon DEF Stage2!Width, Narrow!Width
<1>4. \A d : Stage2!FlagsOf(d) = Narrow!FlagsOf(d)
  BY Zenon DEF Stage2!FlagsOf, Narrow!FlagsOf
<1>5. \A d : Stage2!Precision(d) = Narrow!Precision(d)
  BY <1>1, Zenon DEF Stage2!Precision, Narrow!Precision
<1>6. \A n, base, small : Stage2!Digits(n, base, small) = Narrow!Digits(n, base, small)
  BY Zenon DEF Stage2!Digits, Narrow!Digits
<1>7. \A n, flags : Stage2!Sign(n, flags) = Narrow!Sign(n, flags)
  BY Zenon DEF Stage2!Sign, Narrow!Sign
<1>8. \A base, flags : Stage2!Prefix(base, flags) = Narrow!Prefix(base, flags)
  BY Zenon DEF Stage2!Prefix, Narrow!Prefix
<1>9. \A n, flags : Stage2!Magnitude(n, flags) = Narrow!Magnitude(n, flags)
  BY Zenon DEF Stage2!Magnitude, Narrow!Magnitude
<1>10. \A s, p, f, size, flags :
       Stage2!Padded(s, p, f, size, flags) = Narrow!Padded(s, p, f, size, flags)
  BY SMT DEF Stage2!Padded, Narrow!Padded
<1>11. \A num, base, size, precision, flags :
         Stage2!Number(num, base, size, precision, flags)
            = Narrow!Number(num, base, size, precision, flags)
  <2> TAKE num, base, size, precision, flags
  <2>1. PICK m : m = Narrow!Magnitude(num, flags)
    OBVIOUS
  <2>2. PICK digits : digits = Narrow!Digits(m, base, "SMALL" \in flags)
    OBVIOUS
  <2>3. digits = Stage2!Digits(m, base, "SMALL" \in flags)
    BY <2>2, Zenon DEF Stage2!Digits, Narrow!Digits
  <2>4. Stage2!Magnitude(num, flags) = m
    BY <2>1, <1>9, Zenon
  <2>5. PICK figures : figures = Narrow!Repeat(48, precision - Len(digits)) \o digits
    OBVIOUS
  <2>6. Narrow!Number(num, base, size, precision, flags)
           = Narrow!Padded(Narrow!Sign(num, flags), Narrow!Prefix(base, flags), figures, size, flags)
    BY <2>1, <2>2, <2>5, Zenon DEF Narrow!Number
  <2>7. Stage2!Number(num, base, size, precision, flags)
           = Stage2!Padded(Stage2!Sign(num, flags), Stage2!Prefix(base, flags), figures, size, flags)
    BY <2>3, <2>4, <2>5, Zenon DEF Stage2!Number
  <2> QED BY <2>6, <2>7, <1>7, <1>8, <1>10, Zenon
<1>12. \A d : Stage2!NumberFlags(d) = Narrow!NumberFlags(d)
  BY <1>4, Zenon DEF Stage2!NumberFlags, Narrow!NumberFlags
<1>13. \A d, slot : Stage2!Num(d, slot) = Narrow!Num(d, slot)
  BY Zenon DEF Stage2!Num, Narrow!Num
<1>14. \A s, d : Stage2!Aligned(s, d) = Narrow!Aligned(s, d)
  BY <1>3, <1>4, Zenon DEF Stage2!Aligned, Narrow!Aligned
<1>15. \A s : Stage2!FlattenSeq(s) = Narrow!FlattenSeq(s)
  BY Zenon DEF Stage2!FlattenSeq, Narrow!FlattenSeq
<1>16. \A i : Stage2!Named(i) = Narrow!Named(i)
  BY <1>2, Zenon DEF Stage2!Named, Narrow!Named
<1>17. \A d, slot : Stage2!Meant(d, slot) = Narrow!Meant(d, slot)
  BY Zenon DEF Stage2!Meant, Narrow!Meant
<1>18. \A s : Stage2!Bare(s) = Narrow!Bare(s)
  BY Zenon DEF Stage2!Bare, Narrow!Bare
<1>19. \A s, base : Stage2!ValueOf(s, base) = Narrow!ValueOf(s, base)
  BY Zenon DEF Stage2!ValueOf, Narrow!ValueOf
<1>20. \A d, s : Stage2!FiguresIn(d, s) = Narrow!FiguresIn(d, s)
  BY Zenon DEF Stage2!FiguresIn, Narrow!FiguresIn
<1>21. \A m, n : Stage2!Larger(m, n) = Narrow!Larger(m, n)
  BY Zenon DEF Stage2!Larger, Narrow!Larger
<1>22. \A n, base : Stage2!FewestFigures(n, base) = Narrow!FewestFigures(n, base)
  BY Zenon DEF Stage2!FewestFigures, Narrow!FewestFigures
<1>23. \A d, slot : Stage2!Needed(d, slot) = Narrow!Needed(d, slot)
  BY <1>17, <1>21, <1>22, <1>5, SMT DEF Stage2!Needed, Narrow!Needed
<1>24. \A d, slot : Stage2!Shown(d, slot) = Narrow!Shown(d, slot)
  BY <1>5, Zenon DEF Stage2!Shown, Narrow!Shown
<1>25. \A d : Stage2!ToTheLeft(d) = Narrow!ToTheLeft(d)
  BY Zenon DEF Stage2!ToTheLeft, Narrow!ToTheLeft
<1>26. \A d : Stage2!WidthMeant(d) = Narrow!WidthMeant(d)
  BY <1>3, Zenon DEF Stage2!WidthMeant, Narrow!WidthMeant
<1>27. \A s, t : Stage2!IsPrefix(s, t) = Narrow!IsPrefix(s, t)
  BY Zenon DEF Stage2!IsPrefix, Narrow!IsPrefix
<1>28. \A s, t : Stage2!IsSuffix(s, t) = Narrow!IsSuffix(s, t)
  BY <1>27, Zenon DEF Stage2!IsSuffix, Narrow!IsSuffix
<1>29. Stage2!Literal <=> Narrow!Literal
  BY <1>1, Zenon DEF Stage2!Literal, Narrow!Literal
<1>30. Stage2!Character <=> Narrow!Character
  BY <1>1, <1>14, Zenon DEF Stage2!Character, Narrow!Character
<1>31. Stage2!String <=> Narrow!String
  BY <1>1, <1>14, <1>5, Zenon DEF Stage2!String, Narrow!String
<1>32. Stage2!Pointer <=> Narrow!Pointer
  BY <1>1, <1>11, <1>3, <1>5, <1>4, Zenon DEF Stage2!Pointer, Narrow!Pointer
<1>33. Stage2!CountWritten <=> Narrow!CountWritten
  BY <1>1, Zenon DEF Stage2!CountWritten, Narrow!CountWritten
<1>34. Stage2!Percent <=> Narrow!Percent
  BY <1>1, Zenon DEF Stage2!Percent, Narrow!Percent
<1>35. Stage2!Unknown <=> Narrow!Unknown
  BY <1>1, Zenon DEF Stage2!Unknown, Narrow!Unknown
<1>36. Stage2!Integer <=> Narrow!Integer
  BY <1>1, <1>11, <1>13, <1>3, <1>5, <1>12, Zenon DEF Stage2!Integer, Narrow!Integer
<1>37. Stage2!Next <=> Narrow!Next
    BY <1>29, <1>30, <1>31, <1>32, <1>33, <1>34, <1>35, <1>36, Zenon DEF Stage2!Next,
     Narrow!Next
<1>38. Stage2!Init <=> Narrow!Init
  BY <1>15, Zenon DEF Stage2!Init, Narrow!Init
<1>39. Stage2!TypeOK <=> Narrow!TypeOK
  BY Zenon DEF Stage2!TypeOK, Narrow!TypeOK
<1>40. Stage2!ArgumentsInStep <=> Narrow!ArgumentsInStep
  BY <1>15, <1>16, Zenon DEF Stage2!ArgumentsInStep, Narrow!ArgumentsInStep
<1>41. Stage2!ReadsBack <=> Narrow!ReadsBack
  BY <1>1, <1>5, <1>17, <1>18, <1>19, <1>20, SMT DEF Stage2!ReadsBack, Narrow!ReadsBack
<1>42. Stage2!Filled <=> Narrow!Filled
    BY <1>1, <1>21, <1>26, <1>23, <1>25, <1>3, <1>24, <1>27, <1>28, Zenon DEF Stage2!Filled,
     Narrow!Filled
<1> QED BY <1>38, <1>37, <1>39, <1>40, <1>41, <1>42

LEMMA Same3 ==
  /\ Stage3!Init <=> Narrow!Init
  /\ Stage3!Next <=> Narrow!Next
  /\ Stage3!TypeOK <=> Narrow!TypeOK
  /\ Stage3!ArgumentsInStep <=> Narrow!ArgumentsInStep
  /\ Stage3!ReadsBack <=> Narrow!ReadsBack
  /\ Stage3!Filled <=> Narrow!Filled
<1> USE DEF Stage3!None, Narrow!None, Stage3!Star, Narrow!Star, Stage3!Unsigned, Narrow!Unsigned,
      Stage3!Signed, Narrow!Signed, Stage3!Repeat, Narrow!Repeat, Stage3!Minus,
      Narrow!Minus, Stage3!Plus, Narrow!Plus, Stage3!Space, Narrow!Space, Stage3!Zero,
      Narrow!Zero, Stage3!Digit, Narrow!Digit, Stage3!Item, Narrow!Item,
      Stage3!StarWidth, Narrow!StarWidth, Stage3!Slot, Narrow!Slot, Stage3!Taken,
      Narrow!Taken, Stage3!Put, Narrow!Put, Stage3!Step, Narrow!Step, Stage3!Read,
      Narrow!Read, Stage3!Skip, Narrow!Skip, Stage3!ConvertingOf, Narrow!ConvertingOf,
      Stage3!Char, Narrow!Char, Stage3!Strnlen, Narrow!Strnlen, Stage3!Base,
      Narrow!Base, Stage3!Reading, Narrow!Reading, Stage3!Numeric, Narrow!Numeric,
      Stage3!Added, Narrow!Added, Stage3!DigitValue, Narrow!DigitValue, Stage3!ReadBase,
      Narrow!ReadBase, Stage3!Marked, Narrow!Marked, Stage3!Signs, Narrow!Signs,
      Stage3!Min, Narrow!Min, Stage3!Max, Narrow!Max, Stage3!Reverse, Narrow!Reverse
<1>1. \A d : Stage3!Stars(d) = Narrow!Stars(d)
  BY SMT DEF Stage3!Stars, Narrow!Stars
<1>2. \A d : Stage3!NamedBy(d) = Narrow!NamedBy(d)
  BY SMT DEF Stage3!NamedBy, Narrow!NamedBy
<1>3. \A d : Stage3!Width(d) = Narrow!Width(d)
  BY Zenon DEF Stage3!Width, Narrow!Width
<1>4. \A d : Stage3!FlagsOf(d) = Narrow!FlagsOf(d)
  BY Zenon DEF Stage3!FlagsOf, Narrow!FlagsOf
<1>5. \A d : Stage3!Precision(d) = Narrow!Precision(d)
  BY <1>1, Zenon DEF Stage3!Precision, Narrow!Precision
<1>6. \A n, base, small : Stage3!Digits(n, base, small) = Narrow!Digits(n, base, small)
  BY Zenon DEF Stage3!Digits, Narrow!Digits
<1>7. \A n, flags : Stage3!Sign(n, flags) = Narrow!Sign(n, flags)
  BY Zenon DEF Stage3!Sign, Narrow!Sign
<1>8. \A base, flags : Stage3!Prefix(base, flags) = Narrow!Prefix(base, flags)
  BY Zenon DEF Stage3!Prefix, Narrow!Prefix
<1>9. \A n, flags : Stage3!Magnitude(n, flags) = Narrow!Magnitude(n, flags)
  BY Zenon DEF Stage3!Magnitude, Narrow!Magnitude
<1>10. \A s, p, f, size, flags :
       Stage3!Padded(s, p, f, size, flags) = Narrow!Padded(s, p, f, size, flags)
  BY SMT DEF Stage3!Padded, Narrow!Padded
<1>11. \A num, base, size, precision, flags :
         Stage3!Number(num, base, size, precision, flags)
            = Narrow!Number(num, base, size, precision, flags)
  <2> TAKE num, base, size, precision, flags
  <2>1. PICK m : m = Narrow!Magnitude(num, flags)
    OBVIOUS
  <2>2. PICK digits : digits = Narrow!Digits(m, base, "SMALL" \in flags)
    OBVIOUS
  <2>3. digits = Stage3!Digits(m, base, "SMALL" \in flags)
    BY <2>2, Zenon DEF Stage3!Digits, Narrow!Digits
  <2>4. Stage3!Magnitude(num, flags) = m
    BY <2>1, <1>9, Zenon
  <2>5. PICK figures : figures = Narrow!Repeat(48, precision - Len(digits)) \o digits
    OBVIOUS
  <2>6. Narrow!Number(num, base, size, precision, flags)
           = Narrow!Padded(Narrow!Sign(num, flags), Narrow!Prefix(base, flags), figures, size, flags)
    BY <2>1, <2>2, <2>5, Zenon DEF Narrow!Number
  <2>7. Stage3!Number(num, base, size, precision, flags)
           = Stage3!Padded(Stage3!Sign(num, flags), Stage3!Prefix(base, flags), figures, size, flags)
    BY <2>3, <2>4, <2>5, Zenon DEF Stage3!Number
  <2> QED BY <2>6, <2>7, <1>7, <1>8, <1>10, Zenon
<1>12. \A d : Stage3!NumberFlags(d) = Narrow!NumberFlags(d)
  BY <1>4, Zenon DEF Stage3!NumberFlags, Narrow!NumberFlags
<1>13. \A d, slot : Stage3!Num(d, slot) = Narrow!Num(d, slot)
  BY Zenon DEF Stage3!Num, Narrow!Num
<1>14. \A s, d : Stage3!Aligned(s, d) = Narrow!Aligned(s, d)
  BY <1>3, <1>4, Zenon DEF Stage3!Aligned, Narrow!Aligned
<1>15. \A s : Stage3!FlattenSeq(s) = Narrow!FlattenSeq(s)
  BY Zenon DEF Stage3!FlattenSeq, Narrow!FlattenSeq
<1>16. \A i : Stage3!Named(i) = Narrow!Named(i)
  BY <1>2, Zenon DEF Stage3!Named, Narrow!Named
<1>17. \A d, slot : Stage3!Meant(d, slot) = Narrow!Meant(d, slot)
  BY Zenon DEF Stage3!Meant, Narrow!Meant
<1>18. \A s : Stage3!Bare(s) = Narrow!Bare(s)
  BY Zenon DEF Stage3!Bare, Narrow!Bare
<1>19. \A s, base : Stage3!ValueOf(s, base) = Narrow!ValueOf(s, base)
  BY Zenon DEF Stage3!ValueOf, Narrow!ValueOf
<1>20. \A d, s : Stage3!FiguresIn(d, s) = Narrow!FiguresIn(d, s)
  BY Zenon DEF Stage3!FiguresIn, Narrow!FiguresIn
<1>21. \A m, n : Stage3!Larger(m, n) = Narrow!Larger(m, n)
  BY Zenon DEF Stage3!Larger, Narrow!Larger
<1>22. \A n, base : Stage3!FewestFigures(n, base) = Narrow!FewestFigures(n, base)
  BY Zenon DEF Stage3!FewestFigures, Narrow!FewestFigures
<1>23. \A d, slot : Stage3!Needed(d, slot) = Narrow!Needed(d, slot)
  BY <1>17, <1>21, <1>22, <1>5, SMT DEF Stage3!Needed, Narrow!Needed
<1>24. \A d, slot : Stage3!Shown(d, slot) = Narrow!Shown(d, slot)
  BY <1>5, Zenon DEF Stage3!Shown, Narrow!Shown
<1>25. \A d : Stage3!ToTheLeft(d) = Narrow!ToTheLeft(d)
  BY Zenon DEF Stage3!ToTheLeft, Narrow!ToTheLeft
<1>26. \A d : Stage3!WidthMeant(d) = Narrow!WidthMeant(d)
  BY <1>3, Zenon DEF Stage3!WidthMeant, Narrow!WidthMeant
<1>27. \A s, t : Stage3!IsPrefix(s, t) = Narrow!IsPrefix(s, t)
  BY Zenon DEF Stage3!IsPrefix, Narrow!IsPrefix
<1>28. \A s, t : Stage3!IsSuffix(s, t) = Narrow!IsSuffix(s, t)
  BY <1>27, Zenon DEF Stage3!IsSuffix, Narrow!IsSuffix
<1>29. Stage3!Literal <=> Narrow!Literal
  BY <1>1, Zenon DEF Stage3!Literal, Narrow!Literal
<1>30. Stage3!Character <=> Narrow!Character
  BY <1>1, <1>14, Zenon DEF Stage3!Character, Narrow!Character
<1>31. Stage3!String <=> Narrow!String
  BY <1>1, <1>14, <1>5, Zenon DEF Stage3!String, Narrow!String
<1>32. Stage3!Pointer <=> Narrow!Pointer
  BY <1>1, <1>11, <1>3, <1>5, <1>4, Zenon DEF Stage3!Pointer, Narrow!Pointer
<1>33. Stage3!CountWritten <=> Narrow!CountWritten
  BY <1>1, Zenon DEF Stage3!CountWritten, Narrow!CountWritten
<1>34. Stage3!Percent <=> Narrow!Percent
  BY <1>1, Zenon DEF Stage3!Percent, Narrow!Percent
<1>35. Stage3!Unknown <=> Narrow!Unknown
  BY <1>1, Zenon DEF Stage3!Unknown, Narrow!Unknown
<1>36. Stage3!Integer <=> Narrow!Integer
  BY <1>1, <1>11, <1>13, <1>3, <1>5, <1>12, Zenon DEF Stage3!Integer, Narrow!Integer
<1>37. Stage3!Next <=> Narrow!Next
    BY <1>29, <1>30, <1>31, <1>32, <1>33, <1>34, <1>35, <1>36, Zenon DEF Stage3!Next,
     Narrow!Next
<1>38. Stage3!Init <=> Narrow!Init
  BY <1>15, Zenon DEF Stage3!Init, Narrow!Init
<1>39. Stage3!TypeOK <=> Narrow!TypeOK
  BY Zenon DEF Stage3!TypeOK, Narrow!TypeOK
<1>40. Stage3!ArgumentsInStep <=> Narrow!ArgumentsInStep
  BY <1>15, <1>16, Zenon DEF Stage3!ArgumentsInStep, Narrow!ArgumentsInStep
<1>41. Stage3!ReadsBack <=> Narrow!ReadsBack
  BY <1>1, <1>5, <1>17, <1>18, <1>19, <1>20, SMT DEF Stage3!ReadsBack, Narrow!ReadsBack
<1>42. Stage3!Filled <=> Narrow!Filled
    BY <1>1, <1>21, <1>26, <1>23, <1>25, <1>3, <1>24, <1>27, <1>28, Zenon DEF Stage3!Filled,
     Narrow!Filled
<1> QED BY <1>38, <1>37, <1>39, <1>40, <1>41, <1>42

LEMMA Same4 ==
  /\ Stage4!Init <=> Narrow!Init
  /\ Stage4!Next <=> Narrow!Next
  /\ Stage4!TypeOK <=> Narrow!TypeOK
  /\ Stage4!ArgumentsInStep <=> Narrow!ArgumentsInStep
  /\ Stage4!ReadsBack <=> Narrow!ReadsBack
  /\ Stage4!Filled <=> Narrow!Filled
<1> USE DEF Stage4!None, Narrow!None, Stage4!Star, Narrow!Star, Stage4!Unsigned, Narrow!Unsigned,
      Stage4!Signed, Narrow!Signed, Stage4!Repeat, Narrow!Repeat, Stage4!Minus,
      Narrow!Minus, Stage4!Plus, Narrow!Plus, Stage4!Space, Narrow!Space, Stage4!Zero,
      Narrow!Zero, Stage4!Digit, Narrow!Digit, Stage4!Item, Narrow!Item,
      Stage4!StarWidth, Narrow!StarWidth, Stage4!Slot, Narrow!Slot, Stage4!Taken,
      Narrow!Taken, Stage4!Put, Narrow!Put, Stage4!Step, Narrow!Step, Stage4!Read,
      Narrow!Read, Stage4!Skip, Narrow!Skip, Stage4!ConvertingOf, Narrow!ConvertingOf,
      Stage4!Char, Narrow!Char, Stage4!Strnlen, Narrow!Strnlen, Stage4!Base,
      Narrow!Base, Stage4!Reading, Narrow!Reading, Stage4!Numeric, Narrow!Numeric,
      Stage4!Added, Narrow!Added, Stage4!DigitValue, Narrow!DigitValue, Stage4!ReadBase,
      Narrow!ReadBase, Stage4!Marked, Narrow!Marked, Stage4!Signs, Narrow!Signs,
      Stage4!Min, Narrow!Min, Stage4!Max, Narrow!Max, Stage4!Reverse, Narrow!Reverse
<1>1. \A d : Stage4!Stars(d) = Narrow!Stars(d)
  BY SMT DEF Stage4!Stars, Narrow!Stars
<1>2. \A d : Stage4!NamedBy(d) = Narrow!NamedBy(d)
  BY SMT DEF Stage4!NamedBy, Narrow!NamedBy
<1>3. \A d : Stage4!Width(d) = Narrow!Width(d)
  BY Zenon DEF Stage4!Width, Narrow!Width
<1>4. \A d : Stage4!FlagsOf(d) = Narrow!FlagsOf(d)
  BY Zenon DEF Stage4!FlagsOf, Narrow!FlagsOf
<1>5. \A d : Stage4!Precision(d) = Narrow!Precision(d)
  BY <1>1, Zenon DEF Stage4!Precision, Narrow!Precision
<1>6. \A n, base, small : Stage4!Digits(n, base, small) = Narrow!Digits(n, base, small)
  BY Zenon DEF Stage4!Digits, Narrow!Digits
<1>7. \A n, flags : Stage4!Sign(n, flags) = Narrow!Sign(n, flags)
  BY Zenon DEF Stage4!Sign, Narrow!Sign
<1>8. \A base, flags : Stage4!Prefix(base, flags) = Narrow!Prefix(base, flags)
  BY Zenon DEF Stage4!Prefix, Narrow!Prefix
<1>9. \A n, flags : Stage4!Magnitude(n, flags) = Narrow!Magnitude(n, flags)
  BY Zenon DEF Stage4!Magnitude, Narrow!Magnitude
<1>10. \A s, p, f, size, flags :
       Stage4!Padded(s, p, f, size, flags) = Narrow!Padded(s, p, f, size, flags)
  BY SMT DEF Stage4!Padded, Narrow!Padded
<1>11. \A num, base, size, precision, flags :
         Stage4!Number(num, base, size, precision, flags)
            = Narrow!Number(num, base, size, precision, flags)
  <2> TAKE num, base, size, precision, flags
  <2>1. PICK m : m = Narrow!Magnitude(num, flags)
    OBVIOUS
  <2>2. PICK digits : digits = Narrow!Digits(m, base, "SMALL" \in flags)
    OBVIOUS
  <2>3. digits = Stage4!Digits(m, base, "SMALL" \in flags)
    BY <2>2, Zenon DEF Stage4!Digits, Narrow!Digits
  <2>4. Stage4!Magnitude(num, flags) = m
    BY <2>1, <1>9, Zenon
  <2>5. PICK figures : figures = Narrow!Repeat(48, precision - Len(digits)) \o digits
    OBVIOUS
  <2>6. Narrow!Number(num, base, size, precision, flags)
           = Narrow!Padded(Narrow!Sign(num, flags), Narrow!Prefix(base, flags), figures, size, flags)
    BY <2>1, <2>2, <2>5, Zenon DEF Narrow!Number
  <2>7. Stage4!Number(num, base, size, precision, flags)
           = Stage4!Padded(Stage4!Sign(num, flags), Stage4!Prefix(base, flags), figures, size, flags)
    BY <2>3, <2>4, <2>5, Zenon DEF Stage4!Number
  <2> QED BY <2>6, <2>7, <1>7, <1>8, <1>10, Zenon
<1>12. \A d : Stage4!NumberFlags(d) = Narrow!NumberFlags(d)
  BY <1>4, Zenon DEF Stage4!NumberFlags, Narrow!NumberFlags
<1>13. \A d, slot : Stage4!Num(d, slot) = Narrow!Num(d, slot)
  BY Zenon DEF Stage4!Num, Narrow!Num
<1>14. \A s, d : Stage4!Aligned(s, d) = Narrow!Aligned(s, d)
  BY <1>3, <1>4, Zenon DEF Stage4!Aligned, Narrow!Aligned
<1>15. \A s : Stage4!FlattenSeq(s) = Narrow!FlattenSeq(s)
  BY Zenon DEF Stage4!FlattenSeq, Narrow!FlattenSeq
<1>16. \A i : Stage4!Named(i) = Narrow!Named(i)
  BY <1>2, Zenon DEF Stage4!Named, Narrow!Named
<1>17. \A d, slot : Stage4!Meant(d, slot) = Narrow!Meant(d, slot)
  BY Zenon DEF Stage4!Meant, Narrow!Meant
<1>18. \A s : Stage4!Bare(s) = Narrow!Bare(s)
  BY Zenon DEF Stage4!Bare, Narrow!Bare
<1>19. \A s, base : Stage4!ValueOf(s, base) = Narrow!ValueOf(s, base)
  BY Zenon DEF Stage4!ValueOf, Narrow!ValueOf
<1>20. \A d, s : Stage4!FiguresIn(d, s) = Narrow!FiguresIn(d, s)
  BY Zenon DEF Stage4!FiguresIn, Narrow!FiguresIn
<1>21. \A m, n : Stage4!Larger(m, n) = Narrow!Larger(m, n)
  BY Zenon DEF Stage4!Larger, Narrow!Larger
<1>22. \A n, base : Stage4!FewestFigures(n, base) = Narrow!FewestFigures(n, base)
  BY Zenon DEF Stage4!FewestFigures, Narrow!FewestFigures
<1>23. \A d, slot : Stage4!Needed(d, slot) = Narrow!Needed(d, slot)
  BY <1>17, <1>21, <1>22, <1>5, SMT DEF Stage4!Needed, Narrow!Needed
<1>24. \A d, slot : Stage4!Shown(d, slot) = Narrow!Shown(d, slot)
  BY <1>5, Zenon DEF Stage4!Shown, Narrow!Shown
<1>25. \A d : Stage4!ToTheLeft(d) = Narrow!ToTheLeft(d)
  BY Zenon DEF Stage4!ToTheLeft, Narrow!ToTheLeft
<1>26. \A d : Stage4!WidthMeant(d) = Narrow!WidthMeant(d)
  BY <1>3, Zenon DEF Stage4!WidthMeant, Narrow!WidthMeant
<1>27. \A s, t : Stage4!IsPrefix(s, t) = Narrow!IsPrefix(s, t)
  BY Zenon DEF Stage4!IsPrefix, Narrow!IsPrefix
<1>28. \A s, t : Stage4!IsSuffix(s, t) = Narrow!IsSuffix(s, t)
  BY <1>27, Zenon DEF Stage4!IsSuffix, Narrow!IsSuffix
<1>29. Stage4!Literal <=> Narrow!Literal
  BY <1>1, Zenon DEF Stage4!Literal, Narrow!Literal
<1>30. Stage4!Character <=> Narrow!Character
  BY <1>1, <1>14, Zenon DEF Stage4!Character, Narrow!Character
<1>31. Stage4!String <=> Narrow!String
  BY <1>1, <1>14, <1>5, Zenon DEF Stage4!String, Narrow!String
<1>32. Stage4!Pointer <=> Narrow!Pointer
  BY <1>1, <1>11, <1>3, <1>5, <1>4, Zenon DEF Stage4!Pointer, Narrow!Pointer
<1>33. Stage4!CountWritten <=> Narrow!CountWritten
  BY <1>1, Zenon DEF Stage4!CountWritten, Narrow!CountWritten
<1>34. Stage4!Percent <=> Narrow!Percent
  BY <1>1, Zenon DEF Stage4!Percent, Narrow!Percent
<1>35. Stage4!Unknown <=> Narrow!Unknown
  BY <1>1, Zenon DEF Stage4!Unknown, Narrow!Unknown
<1>36. Stage4!Integer <=> Narrow!Integer
  BY <1>1, <1>11, <1>13, <1>3, <1>5, <1>12, Zenon DEF Stage4!Integer, Narrow!Integer
<1>37. Stage4!Next <=> Narrow!Next
    BY <1>29, <1>30, <1>31, <1>32, <1>33, <1>34, <1>35, <1>36, Zenon DEF Stage4!Next,
     Narrow!Next
<1>38. Stage4!Init <=> Narrow!Init
  BY <1>15, Zenon DEF Stage4!Init, Narrow!Init
<1>39. Stage4!TypeOK <=> Narrow!TypeOK
  BY Zenon DEF Stage4!TypeOK, Narrow!TypeOK
<1>40. Stage4!ArgumentsInStep <=> Narrow!ArgumentsInStep
  BY <1>15, <1>16, Zenon DEF Stage4!ArgumentsInStep, Narrow!ArgumentsInStep
<1>41. Stage4!ReadsBack <=> Narrow!ReadsBack
  BY <1>1, <1>5, <1>17, <1>18, <1>19, <1>20, SMT DEF Stage4!ReadsBack, Narrow!ReadsBack
<1>42. Stage4!Filled <=> Narrow!Filled
    BY <1>1, <1>21, <1>26, <1>23, <1>25, <1>3, <1>24, <1>27, <1>28, Zenon DEF Stage4!Filled,
     Narrow!Filled
<1> QED BY <1>38, <1>37, <1>39, <1>40, <1>41, <1>42

LEMMA Same5 ==
  /\ Stage5!Init <=> Wide!Init
  /\ Stage5!Next <=> Wide!Next
  /\ Stage5!TypeOK <=> Wide!TypeOK
  /\ Stage5!ArgumentsInStep <=> Wide!ArgumentsInStep
  /\ Stage5!ReadsBack <=> Wide!ReadsBack
  /\ Stage5!Filled <=> Wide!Filled
<1> USE DEF Stage5!None, Wide!None, Stage5!Star, Wide!Star, Stage5!Unsigned, Wide!Unsigned,
      Stage5!Signed, Wide!Signed, Stage5!Repeat, Wide!Repeat, Stage5!Minus, Wide!Minus,
      Stage5!Plus, Wide!Plus, Stage5!Space, Wide!Space, Stage5!Zero, Wide!Zero,
      Stage5!Digit, Wide!Digit, Stage5!Item, Wide!Item, Stage5!StarWidth,
      Wide!StarWidth, Stage5!Slot, Wide!Slot, Stage5!Taken, Wide!Taken, Stage5!Put,
      Wide!Put, Stage5!Step, Wide!Step, Stage5!Read, Wide!Read, Stage5!Skip, Wide!Skip,
      Stage5!ConvertingOf, Wide!ConvertingOf, Stage5!Char, Wide!Char, Stage5!Strnlen,
      Wide!Strnlen, Stage5!Base, Wide!Base, Stage5!Reading, Wide!Reading,
      Stage5!Numeric, Wide!Numeric, Stage5!Added, Wide!Added, Stage5!DigitValue,
      Wide!DigitValue, Stage5!ReadBase, Wide!ReadBase, Stage5!Marked, Wide!Marked,
      Stage5!Signs, Wide!Signs, Stage5!Min, Wide!Min, Stage5!Max, Wide!Max,
      Stage5!Reverse, Wide!Reverse
<1>1. \A d : Stage5!Stars(d) = Wide!Stars(d)
  BY SMT DEF Stage5!Stars, Wide!Stars
<1>2. \A d : Stage5!NamedBy(d) = Wide!NamedBy(d)
  BY SMT DEF Stage5!NamedBy, Wide!NamedBy
<1>3. \A d : Stage5!Width(d) = Wide!Width(d)
  BY Zenon DEF Stage5!Width, Wide!Width
<1>4. \A d : Stage5!FlagsOf(d) = Wide!FlagsOf(d)
  BY Zenon DEF Stage5!FlagsOf, Wide!FlagsOf
<1>5. \A d : Stage5!Precision(d) = Wide!Precision(d)
  BY <1>1, Zenon DEF Stage5!Precision, Wide!Precision
<1>6. \A n, base, small : Stage5!Digits(n, base, small) = Wide!Digits(n, base, small)
  BY Zenon DEF Stage5!Digits, Wide!Digits
<1>7. \A n, flags : Stage5!Sign(n, flags) = Wide!Sign(n, flags)
  BY Zenon DEF Stage5!Sign, Wide!Sign
<1>8. \A base, flags : Stage5!Prefix(base, flags) = Wide!Prefix(base, flags)
  BY Zenon DEF Stage5!Prefix, Wide!Prefix
<1>9. \A n, flags : Stage5!Magnitude(n, flags) = Wide!Magnitude(n, flags)
  BY Zenon DEF Stage5!Magnitude, Wide!Magnitude
<1>10. \A s, p, f, size, flags :
       Stage5!Padded(s, p, f, size, flags) = Wide!Padded(s, p, f, size, flags)
  BY SMT DEF Stage5!Padded, Wide!Padded
<1>11. \A num, base, size, precision, flags :
         Stage5!Number(num, base, size, precision, flags)
            = Wide!Number(num, base, size, precision, flags)
  <2> TAKE num, base, size, precision, flags
  <2>1. PICK m : m = Wide!Magnitude(num, flags)
    OBVIOUS
  <2>2. PICK digits : digits = Wide!Digits(m, base, "SMALL" \in flags)
    OBVIOUS
  <2>3. digits = Stage5!Digits(m, base, "SMALL" \in flags)
    BY <2>2, Zenon DEF Stage5!Digits, Wide!Digits
  <2>4. Stage5!Magnitude(num, flags) = m
    BY <2>1, <1>9, Zenon
  <2>5. PICK figures : figures = Wide!Repeat(48, precision - Len(digits)) \o digits
    OBVIOUS
  <2>6. Wide!Number(num, base, size, precision, flags)
           = Wide!Padded(Wide!Sign(num, flags), Wide!Prefix(base, flags), figures, size, flags)
    BY <2>1, <2>2, <2>5, Zenon DEF Wide!Number
  <2>7. Stage5!Number(num, base, size, precision, flags)
           = Stage5!Padded(Stage5!Sign(num, flags), Stage5!Prefix(base, flags), figures, size, flags)
    BY <2>3, <2>4, <2>5, Zenon DEF Stage5!Number
  <2> QED BY <2>6, <2>7, <1>7, <1>8, <1>10, Zenon
<1>12. \A d : Stage5!NumberFlags(d) = Wide!NumberFlags(d)
  BY <1>4, Zenon DEF Stage5!NumberFlags, Wide!NumberFlags
<1>13. \A d, slot : Stage5!Num(d, slot) = Wide!Num(d, slot)
  BY Zenon DEF Stage5!Num, Wide!Num
<1>14. \A s, d : Stage5!Aligned(s, d) = Wide!Aligned(s, d)
  BY <1>3, <1>4, Zenon DEF Stage5!Aligned, Wide!Aligned
<1>15. \A s : Stage5!FlattenSeq(s) = Wide!FlattenSeq(s)
  BY Zenon DEF Stage5!FlattenSeq, Wide!FlattenSeq
<1>16. \A i : Stage5!Named(i) = Wide!Named(i)
  BY <1>2, Zenon DEF Stage5!Named, Wide!Named
<1>17. \A d, slot : Stage5!Meant(d, slot) = Wide!Meant(d, slot)
  BY Zenon DEF Stage5!Meant, Wide!Meant
<1>18. \A s : Stage5!Bare(s) = Wide!Bare(s)
  BY Zenon DEF Stage5!Bare, Wide!Bare
<1>19. \A s, base : Stage5!ValueOf(s, base) = Wide!ValueOf(s, base)
  BY Zenon DEF Stage5!ValueOf, Wide!ValueOf
<1>20. \A d, s : Stage5!FiguresIn(d, s) = Wide!FiguresIn(d, s)
  BY Zenon DEF Stage5!FiguresIn, Wide!FiguresIn
<1>21. \A m, n : Stage5!Larger(m, n) = Wide!Larger(m, n)
  BY Zenon DEF Stage5!Larger, Wide!Larger
<1>22. \A n, base : Stage5!FewestFigures(n, base) = Wide!FewestFigures(n, base)
  BY Zenon DEF Stage5!FewestFigures, Wide!FewestFigures
<1>23. \A d, slot : Stage5!Needed(d, slot) = Wide!Needed(d, slot)
  BY <1>17, <1>21, <1>22, <1>5, SMT DEF Stage5!Needed, Wide!Needed
<1>24. \A d, slot : Stage5!Shown(d, slot) = Wide!Shown(d, slot)
  BY <1>5, Zenon DEF Stage5!Shown, Wide!Shown
<1>25. \A d : Stage5!ToTheLeft(d) = Wide!ToTheLeft(d)
  BY Zenon DEF Stage5!ToTheLeft, Wide!ToTheLeft
<1>26. \A d : Stage5!WidthMeant(d) = Wide!WidthMeant(d)
  BY <1>3, Zenon DEF Stage5!WidthMeant, Wide!WidthMeant
<1>27. \A s, t : Stage5!IsPrefix(s, t) = Wide!IsPrefix(s, t)
  BY Zenon DEF Stage5!IsPrefix, Wide!IsPrefix
<1>28. \A s, t : Stage5!IsSuffix(s, t) = Wide!IsSuffix(s, t)
  BY <1>27, Zenon DEF Stage5!IsSuffix, Wide!IsSuffix
<1>29. Stage5!Literal <=> Wide!Literal
  BY <1>1, Zenon DEF Stage5!Literal, Wide!Literal
<1>30. Stage5!Character <=> Wide!Character
  BY <1>1, <1>14, Zenon DEF Stage5!Character, Wide!Character
<1>31. Stage5!String <=> Wide!String
  BY <1>1, <1>14, <1>5, Zenon DEF Stage5!String, Wide!String
<1>32. Stage5!Pointer <=> Wide!Pointer
  BY <1>1, <1>11, <1>3, <1>5, <1>4, Zenon DEF Stage5!Pointer, Wide!Pointer
<1>33. Stage5!CountWritten <=> Wide!CountWritten
  BY <1>1, Zenon DEF Stage5!CountWritten, Wide!CountWritten
<1>34. Stage5!Percent <=> Wide!Percent
  BY <1>1, Zenon DEF Stage5!Percent, Wide!Percent
<1>35. Stage5!Unknown <=> Wide!Unknown
  BY <1>1, Zenon DEF Stage5!Unknown, Wide!Unknown
<1>36. Stage5!Integer <=> Wide!Integer
  BY <1>1, <1>11, <1>13, <1>3, <1>5, <1>12, Zenon DEF Stage5!Integer, Wide!Integer
<1>37. Stage5!Next <=> Wide!Next
  BY <1>29, <1>30, <1>31, <1>32, <1>33, <1>34, <1>35, <1>36, Zenon DEF Stage5!Next, Wide!Next
<1>38. Stage5!Init <=> Wide!Init
  BY <1>15, Zenon DEF Stage5!Init, Wide!Init
<1>39. Stage5!TypeOK <=> Wide!TypeOK
  BY Zenon DEF Stage5!TypeOK, Wide!TypeOK
<1>40. Stage5!ArgumentsInStep <=> Wide!ArgumentsInStep
  BY <1>15, <1>16, Zenon DEF Stage5!ArgumentsInStep, Wide!ArgumentsInStep
<1>41. Stage5!ReadsBack <=> Wide!ReadsBack
  BY <1>1, <1>5, <1>17, <1>18, <1>19, <1>20, SMT DEF Stage5!ReadsBack, Wide!ReadsBack
<1>42. Stage5!Filled <=> Wide!Filled
    BY <1>1, <1>21, <1>26, <1>23, <1>25, <1>3, <1>24, <1>27, <1>28, Zenon DEF Stage5!Filled,
     Wide!Filled
<1> QED BY <1>38, <1>37, <1>39, <1>40, <1>41, <1>42

-----------------------------------------------------------------------------
(* A call that gives each directive an argument of its kind.               *)

Directives == {Plain(conv) : conv \in {"c", "s", "p", "d", "u", "x"}} \union {Short("u")}

Sound(directives, arguments) ==
    /\ directives \in Seq(Directives) /\ arguments \in Seq([1..1 -> 0..255])
    /\ Len(arguments) = Len(directives)
    /\ \A k \in 1..Len(directives) : directives[k].conv = "s" => arguments[k][1] \in DOMAIN Memory

Given(c) == \E directives, arguments : c = Call(directives, arguments) /\ Sound(directives, arguments)

LEMMA Kinds ==
  /\ Plain("c") \in Directives /\ Plain("s") \in Directives /\ Plain("p") \in Directives
  /\ Plain("d") \in Directives /\ Plain("u") \in Directives /\ Plain("x") \in Directives
  /\ Short("u") \in Directives
  /\ \A conv : Plain(conv).conv = conv
  /\ Short("u").conv = "u"
<1>1. \A conv : Plain(conv).conv = conv
  BY DEF Plain
<1>2. Short("u").conv = "u"
  BY DEF Plain, Short
<1> QED BY <1>1, <1>2 DEF Directives

Fits(d, n) == d \in Directives /\ n \in 0..255 /\ (d.conv = "s" => n \in DOMAIN Memory)

LEMMA FitsIs ==
  /\ \A f \in DOMAIN Memory : Fits(Plain("s"), f)
  /\ \A n \in 0..255 : /\ Fits(Plain("c"), n) /\ Fits(Plain("p"), n) /\ Fits(Plain("d"), n)
                        /\ Fits(Plain("u"), n) /\ Fits(Plain("x"), n)
  /\ \A n \in Words : n \in 0..255
<1>1. \A f \in DOMAIN Memory : Fits(Plain("s"), f)
  BY Kinds DEF Fits, Memory
<1>2. ASSUME NEW conv \in {"c", "p", "d", "u", "x"}, NEW n \in 0..255 PROVE Fits(Plain(conv), n)
  <2>1. Plain(conv).conv # "s" /\ Plain(conv) \in Directives
    BY Kinds
  <2> QED BY <2>1 DEF Fits
<1> QED BY <1>1, <1>2, WordsAssumption

LEMMA Row == ASSUME NEW S, NEW n \in Nat, NEW s \in [1..n -> S] PROVE s \in Seq(S) /\ Len(s) = n
  OBVIOUS

LEMMA Rows == ASSUME NEW S, NEW s
  PROVE  /\ s \in [1..12 -> S] => s \in Seq(S) /\ Len(s) = 12
         /\ s \in [1..6 -> S] => s \in Seq(S) /\ Len(s) = 6
<1>1. ASSUME s \in [1..12 -> S] PROVE s \in Seq(S) /\ Len(s) = 12
  <2>1. PICK n : n = 12
    OBVIOUS
  <2>2. n \in Nat /\ s \in [1..n -> S]
    BY <1>1, <2>1
  <2>3. s \in Seq(S) /\ Len(s) = n
    BY <2>2, Row
  <2> QED BY <2>1, <2>3, Zenon
<1>2. ASSUME s \in [1..6 -> S] PROVE s \in Seq(S) /\ Len(s) = 6
  <2>1. PICK n : n = 6
    OBVIOUS
  <2>2. n \in Nat /\ s \in [1..n -> S]
    BY <1>2, <2>1
  <2>3. s \in Seq(S) /\ Len(s) = n
    BY <2>2, Row
  <2> QED BY <2>1, <2>3, Zenon
<1> QED BY <1>1, <1>2

LEMMA One == ASSUME NEW n \in 0..255 PROVE <<n>> \in [1..1 -> 0..255] /\ <<n>>[1] = n
  OBVIOUS

LEMMA AddressIs == \A f \in DOMAIN Memory : f \in 0..255
  BY DEF Memory

LEMMA NoneGiven == Given(Message)
<1>1. Sound(<<>>, <<>>)
  BY DEF Sound
<1> QED BY <1>1, Zenon DEF Message, Given

(* One directive.                                                          *)
LEMMA OneGiven == ASSUME NEW d, NEW n, Fits(d, n)
  PROVE  Given(Call(<<d>>, << <<n>> >>))
<1>1. PICK a : a = <<n>>
  OBVIOUS
<1>2. a \in [1..1 -> 0..255] /\ a[1] = n
  BY <1>1, One DEF Fits
<1>3. Sound(<<d>>, <<a>>)
  BY <1>2 DEF Sound, Fits
<1> QED BY <1>1, <1>3, Zenon DEF Given

LEMMA TwoGiven == ASSUME NEW d, NEW e, NEW n, NEW m, Fits(d, n), Fits(e, m)
  PROVE  Given(Call(<<d, e>>, << <<n>>, <<m>> >>))
<1>1. PICK a, b : a = <<n>> /\ b = <<m>>
  OBVIOUS
<1>2. a \in [1..1 -> 0..255] /\ a[1] = n /\ b \in [1..1 -> 0..255] /\ b[1] = m
  BY <1>1, One DEF Fits
<1>3. Sound(<<d, e>>, <<a, b>>)
  BY <1>2 DEF Sound, Fits
<1> QED BY <1>1, <1>3, Zenon DEF Given

LEMMA ThreeGiven ==
  ASSUME NEW d, NEW e, NEW f, NEW n, NEW m, NEW o, Fits(d, n), Fits(e, m), Fits(f, o)
  PROVE  Given(Call(<<d, e, f>>, << <<n>>, <<m>>, <<o>> >>))
<1>1. PICK a, b, c : a = <<n>> /\ b = <<m>> /\ c = <<o>>
  OBVIOUS
<1>2. /\ a \in [1..1 -> 0..255] /\ a[1] = n /\ b \in [1..1 -> 0..255] /\ b[1] = m
      /\ c \in [1..1 -> 0..255] /\ c[1] = o
  BY <1>1, One DEF Fits
<1>3. Sound(<<d, e, f>>, <<a, b, c>>)
  BY <1>2 DEF Sound, Fits
<1> QED BY <1>1, <1>3, Zenon DEF Given

LEMMA FourGiven ==
  ASSUME NEW d, NEW e, NEW f, NEW g, NEW n, NEW m, NEW o, NEW p,
         Fits(d, n), Fits(e, m), Fits(f, o), Fits(g, p)
  PROVE  Given(Call(<<d, e, f, g>>, << <<n>>, <<m>>, <<o>>, <<p>> >>))
<1>1. PICK a, b, c, q : a = <<n>> /\ b = <<m>> /\ c = <<o>> /\ q = <<p>>
  OBVIOUS
<1>2. /\ a \in [1..1 -> 0..255] /\ a[1] = n /\ b \in [1..1 -> 0..255] /\ b[1] = m
      /\ c \in [1..1 -> 0..255] /\ c[1] = o /\ q \in [1..1 -> 0..255] /\ q[1] = p
  BY <1>1, One DEF Fits
<1>3. Sound(<<d, e, f, g>>, <<a, b, c, q>>)
  BY <1>2 DEF Sound, Fits
<1> QED BY <1>1, <1>3, Zenon DEF Given

LEMMA NumberGiven ==
  (\A c \in PrintProp : Given(c)) /\ (\A c \in Decimal : Given(c))
<1>1. \A c \in PrintProp : Given(c)
  <2> TAKE c \in PrintProp
  <2>1. PICK n \in Words : c = Call(<<Plain("x")>>, << <<n>> >>)
    BY DEF PrintProp
  <2>2. n \in 0..255
    BY WordsAssumption
  <2> QED BY <2>1, <2>2, FitsIs, OneGiven, Zenon
<1>2. \A c \in Decimal : Given(c)
  <2> TAKE c \in Decimal
  <2>1. PICK n \in Words : c = Call(<<Plain("d")>>, << <<n>> >>)
    BY DEF Decimal
  <2>2. n \in 0..255
    BY WordsAssumption
  <2> QED BY <2>1, <2>2, FitsIs, OneGiven, Zenon
<1> QED BY <1>1, <1>2

LEMMA Given2 == \A c \in Calls2 : c \notin MemoryCalls => Given(c)
<1>1. \A c \in ExecutingInColor : Given(c)
  <2> TAKE c \in ExecutingInColor
  <2> DEFINE F(f, n) == Call([i \in 1..12 |-> IF i \in {2, 5} THEN Plain("s")
                                              ELSE IF i \in {8, 11} THEN Short("u") ELSE Plain("c")],
                             [i \in 1..12 |-> IF i \in {2, 5} THEN <<f>> ELSE IF i \in {8, 11} THEN <<n>>
                                              ELSE IF i % 3 = 1 THEN <<Color + 1>> ELSE <<Color + 7>>])
  <2>a. ExecutingInColor = {F(f, n) : f \in DOMAIN Memory, n \in {1, 15}}
    BY DEF ExecutingInColor
  <2>1. PICK f \in DOMAIN Memory, n \in {1, 15} : c = F(f, n)
    <3> HIDE DEF F
    <3> QED BY <2>a
  <2>2. PICK ds : ds = [i \in 1..12 |-> IF i \in {2, 5} THEN Plain("s")
                                        ELSE IF i \in {8, 11} THEN Short("u") ELSE Plain("c")]
    OBVIOUS
  <2>3. PICK as : as = [i \in 1..12 |-> IF i \in {2, 5} THEN <<f>> ELSE IF i \in {8, 11} THEN <<n>>
                                        ELSE IF i % 3 = 1 THEN <<Color + 1>> ELSE <<Color + 7>>]
    OBVIOUS
  <2>4. PICK a, b, x, y : a = <<f>> /\ b = <<n>> /\ x = Color + 1 /\ y = Color + 7
    OBVIOUS
  <2>5. PICK u, v : u = <<x>> /\ v = <<y>>
    OBVIOUS
  <2>6. f \in 0..255 /\ n \in 0..255 /\ x \in 0..255 /\ y \in 0..255
    BY <2>4, AddressIs DEF Color
  <2>7. a \in [1..1 -> 0..255] /\ a[1] = f
    BY <2>4, <2>6, One, Zenon
  <2>8. b \in [1..1 -> 0..255] /\ u \in [1..1 -> 0..255] /\ v \in [1..1 -> 0..255]
    BY <2>4, <2>5, <2>6, One, Zenon
  <2>9. as = [i \in 1..12 |-> IF i \in {2, 5} THEN a ELSE IF i \in {8, 11} THEN b
                              ELSE IF i % 3 = 1 THEN u ELSE v]
    BY <2>3, <2>4, <2>5, Zenon
  <2>10. ds \in Seq(Directives) /\ Len(ds) = 12
    <3>1. PICK s, h, k : s = Plain("s") /\ h = Short("u") /\ k = Plain("c")
      OBVIOUS
    <3>2. ds = [i \in 1..12 |-> IF i \in {2, 5} THEN s ELSE IF i \in {8, 11} THEN h ELSE k]
      BY <2>2, <3>1, Zenon
    <3>3. s \in Directives /\ h \in Directives /\ k \in Directives
      BY <3>1, Kinds, Zenon
    <3>4. ds \in [1..12 -> Directives]
      BY <3>2, <3>3
    <3> QED BY <3>4, Rows, Zenon
  <2>11. as \in Seq([1..1 -> 0..255]) /\ Len(as) = 12
    <3>1. PICK S : S = [1..1 -> 0..255]
      OBVIOUS
    <3>2. a \in S /\ b \in S /\ u \in S /\ v \in S
      BY <2>7, <2>8, <3>1, Zenon
    <3>3. as \in [1..12 -> S]
      BY <2>9, <3>2
    <3> QED BY <3>1, <3>3, Rows, Zenon
  <2>12. ASSUME NEW k \in 1..12, ds[k].conv = "s" PROVE as[k][1] \in DOMAIN Memory
    <3>1. k \in {2, 5}
      <4> SUFFICES ASSUME k \notin {2, 5} PROVE FALSE
        OBVIOUS
      <4>1. ds[k] = Short("u") \/ ds[k] = Plain("c")
        BY <2>2
      <4>2. ds[k].conv = "u" \/ ds[k].conv = "c"
        BY <4>1, Kinds, Zenon
      <4> QED BY <2>12, <4>2
    <3>2. as[k] = a
      BY <2>9, <3>1
    <3> QED BY <2>7, <3>2, Zenon
  <2>13. Sound(ds, as)
    BY <2>10, <2>11, <2>12, Zenon DEF Sound
  <2> QED BY <2>1, <2>2, <2>3, <2>13, Zenon DEF Given
<1>2. \A c \in PrintProp : Given(c)
  BY NumberGiven
<1>3. \A c \in CannotRead : Given(c)
  <2> TAKE c \in CannotRead
  <2>1. PICK f \in DOMAIN Memory : c = Call(<<Plain("c"), Plain("s"), Plain("c")>>,
                                      << <<Color + 4>>, <<f>>, <<Color + 7>> >>)
    BY DEF CannotRead
  <2>2. Color + 4 \in 0..255 /\ Color + 7 \in 0..255
    BY DEF Color
  <2> QED BY <2>1, <2>2, FitsIs, ThreeGiven, Zenon
<1>4. \A c \in PrintState : Given(c)
  <2> TAKE c \in PrintState
  <2> DEFINE F(f, e) == Call(<<Plain("s"), Plain("c"), Plain("c"), Plain("c")>>,
                            << <<f>>, <<Color + e[1]>>, <<e[2]>>, <<Color + 7>> >>)
  <2>a. PrintState = {F(f, e) : f \in DOMAIN Memory, e \in {<<2, 89>>, <<4, 78>>}}
    BY DEF PrintState
  <2>1. PICK f \in DOMAIN Memory, e \in {<<2, 89>>, <<4, 78>>} : c = F(f, e)
    <3> HIDE DEF F
    <3> QED BY <2>a
  <2>2. Color + e[1] \in 0..255 /\ e[2] \in 0..255 /\ Color + 7 \in 0..255
    BY DEF Color
  <2> QED BY <2>1, <2>2, FitsIs, FourGiven, Zenon
<1>5. \A c \in Decimal : Given(c)
  BY NumberGiven
<1>6. \A c \in MemoryError : Given(c)
  <2> TAKE c \in MemoryError
  <2> DEFINE F(carry, a) == Call(<<Plain("d"), Plain("x")>>, << <<carry>>, <<a>> >>)
  <2>a. MemoryError = {F(carry, a) : carry \in 0..1, a \in Words}
    BY DEF MemoryError
  <2>1. PICK carry \in 0..1, a \in Words : c = F(carry, a)
    <3> HIDE DEF F
    <3> QED BY <2>a
  <2>2. carry \in 0..255 /\ a \in 0..255
    <3>1. carry \in 0..255
      OBVIOUS
    <3>2. a \in 0..255
      BY WordsAssumption
    <3> QED BY <3>1, <3>2
  <2> QED BY <2>1, <2>2, FitsIs, TwoGiven, Zenon
<1>7. Given(Todo)
  <2>1. Color + 4 \in 0..255 /\ Color + 8 \in 0..255
    BY DEF Color
  <2> QED BY <2>1, FitsIs, TwoGiven, Zenon DEF Todo
<1> QED BY <1>1, <1>2, <1>3, <1>4, <1>5, <1>6, <1>7, NoneGiven DEF Calls2

LEMMA Given5 == \A c \in Calls5 : Given(c)
<1>1. \A c \in Executing : Given(c)
  <2> TAKE c \in Executing
  <2> DEFINE F(f, g, n) == Call(<<Plain("s"), Plain("s"), Plain("u"), Plain("u")>>,
                               << <<f>>, <<g>>, <<n>>, <<7>> >>)
  <2>a. Executing = {F(f, g, n) : f \in DOMAIN Memory, g \in DOMAIN Memory, n \in 1..7}
    BY DEF Executing
  <2>1. PICK f \in DOMAIN Memory, g \in DOMAIN Memory, n \in 1..7 : c = F(f, g, n)
    <3> HIDE DEF F
    <3> QED BY <2>a
  <2>2. n \in 0..255 /\ 7 \in 0..255
    OBVIOUS
  <2> QED BY <2>1, <2>2, FitsIs, FourGiven, Zenon
<1> QED BY <1>1, NoneGiven DEF Calls5

LEMMA Given3 == \A c \in Calls3 : Given(c)
<1>1. \A c \in Executing : Given(c)
  BY Given5 DEF Calls5
<1>2. \A c \in Hexdump : Given(c)
  <2> TAKE c \in Hexdump
  <2> DEFINE F(h, l) == Call(<<Plain("c"), Plain("c")>>, << <<h>>, <<l>> >>)
  <2>a. Hexdump = {F(h, l) : h \in {48, 57}, l \in {65, 70}}
    BY DEF Hexdump
  <2>1. PICK h \in {48, 57}, l \in {65, 70} : c = F(h, l)
    <3> HIDE DEF F
    <3> QED BY <2>a
  <2>2. h \in 0..255 /\ l \in 0..255
    OBVIOUS
  <2> QED BY <2>1, <2>2, FitsIs, TwoGiven, Zenon
<1>3. \A c \in Registers : Given(c)
  <2> TAKE c \in Registers
  <2> DEFINE F(n, m) == Call([i \in 1..6 |-> Plain("x")],
                             [i \in 1..6 |-> <<IF i % 2 = 0 THEN n ELSE m>>])
  <2>a. Registers = {F(n, m) : n \in Words, m \in Words}
    BY DEF Registers
  <2>1. PICK n \in Words, m \in Words : c = F(n, m)
    <3> HIDE DEF F
    <3> QED BY <2>a
  <2>2. PICK ds, as : /\ ds = [i \in 1..6 |-> Plain("x")]
                      /\ as = [i \in 1..6 |-> <<IF i % 2 = 0 THEN n ELSE m>>]
    OBVIOUS
  <2>3. ds \in Seq(Directives) /\ Len(ds) = 6
    <3>1. PICK x : x = Plain("x")
      OBVIOUS
    <3>2. x \in Directives /\ ds = [i \in 1..6 |-> x]
      BY <2>2, <3>1, Kinds, Zenon
    <3>3. ds \in [1..6 -> Directives]
      BY <3>2
    <3> QED BY <3>3, Rows, Zenon
  <2>4. as \in Seq([1..1 -> 0..255]) /\ Len(as) = 6
    <3>1. PICK a, b, S : a = <<n>> /\ b = <<m>> /\ S = [1..1 -> 0..255]
      OBVIOUS
    <3>2. a \in S /\ b \in S
      BY <3>1, FitsIs, One, Zenon
    <3>3. as = [i \in 1..6 |-> IF i % 2 = 0 THEN a ELSE b]
      BY <2>2, <3>1
    <3>4. as \in [1..6 -> S]
      BY <3>2, <3>3
    <3> QED BY <3>1, <3>4, Rows, Zenon
  <2>5. ASSUME NEW k \in 1..6 PROVE ds[k].conv # "s"
    <3>1. ds[k] = Plain("x")
      BY <2>2
    <3>2. ds[k].conv = "x"
      BY <3>1, Kinds, Zenon
    <3> QED BY <3>2
  <2>6. Sound(ds, as)
    BY <2>3, <2>4, <2>5, Zenon DEF Sound
  <2> QED BY <2>1, <2>2, <2>6, Zenon DEF Given
<1>4. \A c \in CopyingBytes : Given(c)
  <2> TAKE c \in CopyingBytes
  <2> DEFINE F(n, m, p) == Call(<<Plain("d"), Plain("d"), Plain("p")>>, << <<n>>, <<m>>, <<p>> >>)
  <2>a. CopyingBytes = {F(n, m, p) : n \in Words, m \in Words, p \in Words}
    BY DEF CopyingBytes
  <2>1. PICK n \in Words, m \in Words, p \in Words : c = F(n, m, p)
    <3> HIDE DEF F
    <3> QED BY <2>a
  <2>2. n \in 0..255 /\ m \in 0..255 /\ p \in 0..255
    BY WordsAssumption
  <2> QED BY <2>1, <2>2, FitsIs, ThreeGiven, Zenon
<1>5. \A c \in CommandFailed : Given(c)
  <2> TAKE c \in CommandFailed
  <2> DEFINE F(f, g, n) == Call(<<Plain("s"), Plain("u"), Plain("s")>>, << <<f>>, <<n>>, <<g>> >>)
  <2>a. CommandFailed = {F(f, g, n) : f \in DOMAIN Memory, g \in DOMAIN Memory, n \in Words}
    BY DEF CommandFailed
  <2>1. PICK f \in DOMAIN Memory, g \in DOMAIN Memory, n \in Words : c = F(f, g, n)
    <3> HIDE DEF F
    <3> QED BY <2>a
  <2>2. n \in 0..255
    BY WordsAssumption
  <2> QED BY <2>1, <2>2, FitsIs, ThreeGiven, Zenon
<1>6. \A c \in ErrorIs : Given(c)
  <2> TAKE c \in ErrorIs
  <2>1. PICK f \in DOMAIN Memory : c = Call(<<Plain("s")>>, << <<f>> >>)
    BY DEF ErrorIs
  <2> QED BY <2>1, FitsIs, OneGiven, Zenon
<1>7. (\A c \in Decimal : Given(c)) /\ (\A c \in PrintProp : Given(c))
  BY NumberGiven
<1> QED BY <1>1, <1>2, <1>3, <1>4, <1>5, <1>6, <1>7, NoneGiven DEF Calls3

LEMMA Given4 == \A c \in Calls4 : Given(c)
  BY NoneGiven DEF Calls4

-----------------------------------------------------------------------------
(* So these calls are well formed, for the sizes of their stage.           *)

LEMMA NarrowWidths == Narrow!Widths
<1>1. 2 ^ 3 = 8 /\ 2 ^ 4 = 16 /\ 2 ^ 7 = 128 /\ 2 ^ 8 = 256
  OBVIOUS
<1> QED BY <1>1 DEF Narrow!Widths

LEMMA WideWidths == Wide!Widths
<1>1. 2 ^ 3 = 8 /\ 2 ^ 4 = 16 /\ 2 ^ 7 = 128 /\ 2 ^ 8 = 256 /\ 2 ^ 11 = 2048 /\ 2 ^ 12 = 4096
  OBVIOUS
<1> QED BY <1>1 DEF Wide!Widths

LEMMA DirectiveIs ==
  ASSUME NEW d \in Directives
  PROVE  /\ d \in Narrow!Directives /\ d \in Wide!Directives
         /\ d.conv \in {"c", "s", "p", "d", "u", "x"} /\ d.width = -1 /\ d.precision = -1
<1>1. CASE d = Short("u")
  <2>1. d = [conv |-> "u", flags |-> {}, width |-> -1, precision |-> -1,
             qualifier |-> "h", text |-> <<>>]
    BY <1>1 DEF Short, Plain
  <2> QED BY <2>1 DEF Narrow!Directives, Narrow!Flags, Narrow!None, Narrow!Star,
                      Wide!Directives, Wide!Flags, Wide!None, Wide!Star
<1>2. CASE \E conv \in {"c", "s", "p", "d", "u", "x"} : d = Plain(conv)
  <2>1. PICK conv \in {"c", "s", "p", "d", "u", "x"} : d = Plain(conv)
    BY <1>2
  <2>2. d = [conv |-> conv, flags |-> {}, width |-> -1, precision |-> -1,
             qualifier |-> "none", text |-> <<>>]
    BY <2>1, Zenon DEF Plain
  <2> QED BY <2>2 DEF Narrow!Directives, Narrow!Flags, Narrow!None, Narrow!Star,
                      Wide!Directives, Wide!Flags, Wide!None, Wide!Star
<1> QED BY <1>1, <1>2 DEF Directives

LEMMA TextIs ==
  /\ Text \in Narrow!Directives /\ Text \in Wide!Directives
  /\ Text.conv = "text" /\ Text.width = -1 /\ Text.precision = -1
<1>1. Text = [conv |-> "text", flags |-> {}, width |-> -1, precision |-> -1,
              qualifier |-> "none", text |-> <<46>>]
  BY DEF Text, Plain
<1> QED BY <1>1 DEF Narrow!Directives, Narrow!Flags, Narrow!None, Narrow!Star,
                    Wide!Directives, Wide!Flags, Wide!None, Wide!Star

LEMMA StringsAre ==
  DOMAIN Memory \subseteq Narrow!Strings /\ DOMAIN Memory \subseteq Wide!Strings
<1>1. \A p \in DOMAIN Memory : Memory[p] \in Seq(0..255)
  <2>1. \A p \in DOMAIN Memory : Memory[p] = <<>> \/ Memory[p] = <<97, 98, 99>>
    BY DEF Memory
  <2>2. <<>> \in Seq(0..255) /\ <<97, 98, 99>> \in Seq(0..255)
    OBVIOUS
  <2> QED BY <2>1, <2>2, Zenon
<1> QED BY <1>1, Zenon DEF Narrow!Strings, Narrow!Codes, Wide!Strings, Wide!Codes

LEMMA Wider == ASSUME NEW A, NEW B, A \subseteq B, NEW s \in Seq(A) PROVE s \in Seq(B)
<1>1. PICK n : n = Len(s)
  OBVIOUS
<1>2. n \in Nat /\ s \in [1..n -> B]
  BY <1>1
<1> QED BY <1>2, Row

LEMMA GivenIsWellFormed == ASSUME Given(call) PROVE Narrow!WellFormed /\ Wide!WellFormed
<1>1. PICK directives, arguments :
        call = Call(directives, arguments) /\ Sound(directives, arguments)
  BY Zenon DEF Given
<1>2. /\ directives \in Seq(Directives) /\ arguments \in Seq([1..1 -> 0..255])
      /\ Len(arguments) = Len(directives)
      /\ \A k \in 1..Len(directives) : directives[k].conv = "s" => arguments[k][1] \in DOMAIN Memory
  BY <1>1, Zenon DEF Sound
<1>3. /\ call.fmt = [i \in 1..((2 * Len(directives)) + 1) |->
                      IF i % 2 = 0 THEN directives[i \div 2] ELSE Text]
      /\ call.arguments = arguments
  BY <1>1, Zenon DEF Call, Format
<1>4. \A k \in 1..Len(directives) : directives[k] \in Directives
  BY <1>2
<1>5. directives \in Seq(Narrow!Directives) /\ directives \in Seq(Wide!Directives)
  <2>1. PICK n : n = Len(directives)
    OBVIOUS
  <2>2. n \in Nat /\ directives = [k \in 1..n |-> directives[k]]
    BY <1>2, <2>1
  <2>3. \A k \in 1..n : directives[k] \in Narrow!Directives /\ directives[k] \in Wide!Directives
    BY <1>4, <2>1, DirectiveIs, Zenon
  <2>4. directives \in [1..n -> Narrow!Directives] /\ directives \in [1..n -> Wide!Directives]
    BY <2>2, <2>3
  <2> QED BY <2>2, <2>4, Row
<1>6. \A k \in 1..Len(directives) :
        /\ directives[k].conv \in Narrow!Reading /\ directives[k].conv \in Wide!Reading
        /\ directives[k].width # -2 /\ directives[k].precision # -2
  <2> TAKE k \in 1..Len(directives)
  <2>1. PICK d : d = directives[k]
    OBVIOUS
  <2>2. d \in Directives
    BY <1>4, <2>1, Zenon
  <2>3. d.conv \in {"c", "s", "p", "d", "u", "x"} /\ d.width = -1 /\ d.precision = -1
    BY <2>2, DirectiveIs, Zenon
  <2>4. d.conv \in Narrow!Reading /\ d.conv \in Wide!Reading /\ d.width # -2 /\ d.precision # -2
    BY <2>3 DEF Narrow!Reading, Wide!Reading
  <2> QED BY <2>1, <2>4, Zenon
<1>7. arguments \in Seq([1..1 -> Narrow!Slots]) /\ arguments \in Seq([1..1 -> Wide!Slots])
  <2>1. 2 ^ 8 = 256 /\ 2 ^ 12 = 4096
    OBVIOUS
  <2>2. Narrow!Slots = 0..255 /\ Wide!Slots = 0..4095
    BY <2>1 DEF Narrow!Slots, Wide!Slots
  <2>3. arguments \in Seq([1..1 -> Narrow!Slots])
    BY <1>2, <2>2
  <2>4. [1..1 -> Narrow!Slots] \subseteq [1..1 -> Wide!Slots]
    BY <2>2
  <2> QED BY <2>3, <2>4, Wider
<1>8. Text.conv = "text" /\ Text.width # -2 /\ Text.precision # -2
  BY TextIs
<1>9. \A k \in 1..Len(directives) : directives[k].conv = "s" =>
        arguments[k][1] \in Narrow!Strings /\ arguments[k][1] \in Wide!Strings
  BY <1>2, StringsAre, Zenon
<1>10. Narrow!Spaced(directives, Text) /\ Wide!Spaced(directives, Text)
  BY <1>3, <1>5, <1>6, <1>8, TextIs, Zenon
     DEF Narrow!Spaced, Narrow!Star, Wide!Spaced, Wide!Star
<1>11. Narrow!WellFormed
  BY <1>2, <1>3, <1>7, <1>9, <1>10, Narrow!SpacedWellFormed, Zenon
<1>12. Wide!WellFormed
  BY <1>2, <1>3, <1>7, <1>9, <1>10, Wide!SpacedWellFormed, Zenon
<1> QED BY <1>11, <1>12

(* The two others have slots enough.                                       *)
LEMMA Joined == ASSUME NEW S, NEW s \in Seq(S), NEW t \in Seq(S)
  PROVE  s \o t \in Seq(S) /\ Len(s \o t) = Len(s) + Len(t)
  OBVIOUS

LEMMA MemoryEnough == ASSUME call \in MemoryCalls PROVE Narrow!Enough
<1>1. 2 ^ 8 = 256
  OBVIOUS
<1>2. Narrow!Slots = 0..255
  BY <1>1 DEF Narrow!Slots
<1>3. PICK p, x, d, lp : /\ p = Plain("p") /\ d = Plain("d")
                         /\ x = Long("x") /\ lp = Long("p")
  OBVIOUS
<1>4. /\ p = [conv |-> "p", flags |-> {}, width |-> -1, precision |-> -1,
              qualifier |-> "none", text |-> <<>>]
      /\ d = [conv |-> "d", flags |-> {}, width |-> -1, precision |-> -1,
              qualifier |-> "none", text |-> <<>>]
      /\ x = [conv |-> "x", flags |-> {}, width |-> -1, precision |-> -1,
              qualifier |-> "l", text |-> <<>>]
      /\ lp = [conv |-> "p", flags |-> {}, width |-> -1, precision |-> -1,
               qualifier |-> "l", text |-> <<>>]
  BY <1>3 DEF Long, Plain
<1>5. ASSUME NEW e \in {p, x, d, lp}
      PROVE  /\ e \in Narrow!Directives /\ e.conv \in Narrow!Reading /\ e.conv # "s"
             /\ e.width # Narrow!Star /\ e.precision # Narrow!Star
  <2>1. PICK conv \in {"p", "d", "x"}, qualifier \in {"none", "l"} :
          e = [conv |-> conv, flags |-> {}, width |-> -1, precision |-> -1,
               qualifier |-> qualifier, text |-> <<>>]
    BY <1>4
  <2>2. conv \in Narrow!Reading /\ conv # "s" /\ Narrow!Star = -2 /\ Narrow!None = -1
    BY DEF Narrow!Reading, Narrow!Star, Narrow!None
  <2>3. e \in Narrow!Directives
    BY <2>1 DEF Narrow!Directives, Narrow!Flags, Narrow!None, Narrow!Star
  <2>4. e.conv = conv /\ e.width = -1 /\ e.precision = -1
    BY <2>1
  <2> QED BY <2>2, <2>3, <2>4
<1>6. ASSUME NEW directives \in Seq({p, x, d, lp}), NEW arguments,
             call = Call(directives, arguments),
             Narrow!FlattenSeq(arguments) \in Seq(Narrow!Slots),
             Len(directives) <= Len(Narrow!FlattenSeq(arguments))
      PROVE  Narrow!Enough
  <2>1. PICK n : n = Len(directives)
    OBVIOUS
  <2>2. n \in Nat /\ directives \in [1..n -> {p, x, d, lp}]
    BY <1>6, <2>1
  <2>3. \A k \in 1..n : directives[k] \in {p, x, d, lp}
    BY <2>2
  <2>4. directives \in [1..n -> Narrow!Directives]
    <3>1. {p, x, d, lp} \subseteq Narrow!Directives
      BY <1>5
    <3> QED BY <2>2, <3>1
  <2>5. directives \in Seq(Narrow!Directives)
    BY <2>2, <2>4, Row, Zenon
  <2>6. call.fmt = [i \in 1..((2 * Len(directives)) + 1) |->
                      IF i % 2 = 0 THEN directives[i \div 2] ELSE Text]
    BY <1>6, Zenon DEF Call, Format
  <2>7. call.arguments = arguments
    BY <1>6, Zenon DEF Call
  <2>8. Text.conv = "text" /\ Text.width # Narrow!Star /\ Text.precision # Narrow!Star
    BY TextIs DEF Narrow!Star
  <2>9. Narrow!Spaced(directives, Text)
    BY <1>5, <2>1, <2>3, <2>5, <2>6, <2>8, TextIs, Zenon DEF Narrow!Spaced
  <2>10. \A k \in 1..Len(directives) : directives[k].conv # "s"
    BY <1>5, <2>1, <2>3, Zenon
  <2>11. Narrow!AllSlots \in Seq(Narrow!Slots) /\ Len(directives) <= Len(Narrow!AllSlots)
    BY <1>6, <2>7, Zenon DEF Narrow!AllSlots
  <2> QED BY <2>9, <2>10, <2>11, Narrow!SpacedEnough, Zenon
<1>7. CASE call \in PrintMemSec
  <2> DEFINE F(base, length, type) == Call(<<Long("p"), Long("x"), Plain("d")>>,
                                           << <<base, 0>>, <<length, 0>>, <<type>> >>)
  <2>a. PrintMemSec = {F(base, length, type) : base \in Words, length \in Words, type \in 1..2}
    BY DEF PrintMemSec
  <2>1. PICK base \in Words, length \in Words, type \in 1..2 : call = F(base, length, type)
    <3> HIDE DEF F
    <3> QED BY <1>7, <2>a
  <2>2. base \in 0..255 /\ length \in 0..255 /\ type \in 0..255 /\ 0 \in 0..255
    BY WordsAssumption
  <2>3. PICK a, b, c, row : a = <<base, 0>> /\ b = <<length, 0>> /\ c = <<type>> /\ row = (a \o b) \o c
    <3>1. PICK a, b, c : a = <<base, 0>> /\ b = <<length, 0>> /\ c = <<type>>
      OBVIOUS
    <3> QED BY <3>1
  <2>4. /\ a \in Seq(0..255) /\ Len(a) = 2 /\ b \in Seq(0..255) /\ Len(b) = 2
        /\ c \in Seq(0..255) /\ Len(c) = 1
    BY <2>2, <2>3
  <2>5. row \in Seq(0..255) /\ Len(row) = 5
    <3>1. PICK ab : ab = a \o b
      OBVIOUS
    <3>2. PICK S : S = 0..255
      OBVIOUS
    <3>3. a \in Seq(S) /\ b \in Seq(S) /\ c \in Seq(S)
      BY <2>4, <3>2, Zenon
    <3>4. ab \in Seq(S) /\ Len(ab) = Len(a) + Len(b)
      BY <3>1, <3>3, Joined
    <3>5. ab \o c \in Seq(S) /\ Len(ab \o c) = Len(ab) + Len(c)
      <4>1. ab \in Seq(S)
        BY <3>4
      <4>2. c \in Seq(S)
        BY <3>3
      <4> QED BY <4>1, <4>2, Joined
    <3>6. row = ab \o c
      BY <2>3, <3>1, Zenon
    <3>7. Len(ab) + Len(c) = 5
      BY <2>4, <3>4
    <3> QED BY <3>2, <3>5, <3>6, <3>7, Zenon
  <2>6. Narrow!FlattenSeq(<<a, b, c>>) = row
    <3>1. row = (a \o b) \o c
      BY <2>3
    <3> QED BY <3>1, Narrow!FlattenedThree
  <2>7. PICK directives : directives = <<lp, x, d>>
    OBVIOUS
  <2>8. directives \in Seq({p, x, d, lp}) /\ Len(directives) = 3
    BY <2>7
  <2>9. call = Call(directives, <<a, b, c>>)
    BY <1>3, <2>1, <2>3, <2>7, Zenon
  <2>10. Len(directives) <= Len(row)
    BY <2>5, <2>8
  <2> QED BY <1>2, <1>6, <2>5, <2>6, <2>8, <2>9, <2>10, Zenon
<1>8. CASE call \in BufferShown
  <2> DEFINE F(n, m) == Call(<<Plain("p")>>, << <<n, m, n, m, n, m>> >>)
  <2>a. BufferShown = {F(n, m) : n \in Words, m \in Words}
    BY DEF BufferShown
  <2>1. PICK n \in Words, m \in Words : call = F(n, m)
    <3> HIDE DEF F
    <3> QED BY <1>8, <2>a
  <2>2. PICK row, directives : row = <<n, m, n, m, n, m>> /\ directives = <<p>>
    OBVIOUS
  <2>3. n \in 0..255 /\ m \in 0..255
    BY WordsAssumption
  <2>4. row \in Seq(0..255) /\ Len(row) = 6
    BY <2>2, <2>3
  <2>5. directives \in Seq({p, x, d, lp}) /\ Len(directives) <= Len(row)
    BY <2>2, <2>4
  <2>6. Narrow!FlattenSeq(<<row>>) = row
    BY Narrow!FlattenedOne, Zenon
  <2>7. call = Call(directives, <<row>>)
    BY <1>3, <2>1, <2>2, Zenon
  <2> QED BY <1>2, <1>6, <2>4, <2>5, <2>6, <2>7, Zenon
<1> QED BY <1>7, <1>8 DEF MemoryCalls

-----------------------------------------------------------------------------
(* The inductive invariant: the one of vsprintf, for the sizes of the      *)
(* stage, which never changes, and a call that is well formed unless it is *)
(* one of the two.                                                         *)
PrintingIInv ==
    /\ stage \in 2..5
    /\ stage = 5 => Wide!IInv /\ (call \notin MemoryCalls => Wide!WellFormed)
    /\ stage # 5 => Narrow!IInv /\ (call \notin MemoryCalls => Narrow!WellFormed)

LEMMA PrintingInitially == ASSUME Init PROVE PrintingIInv
<1>1. ASSUME Narrow!WellFormed, Narrow!Init PROVE Narrow!IInv
  BY <1>1, Narrow!WellFormedEnough, Narrow!InitInvariant, Zenon
<1>2. CASE stage = 2 /\ call \in Calls2 /\ Stage2!Init
  <2>1. Narrow!Init
    BY <1>2, Same2, Zenon
  <2>2. CASE call \in MemoryCalls
    <3>1. Narrow!IInv
      BY <2>1, <2>2, MemoryEnough, Narrow!InitInvariant, Zenon
    <3> QED BY <1>2, <2>2, <3>1 DEF PrintingIInv
  <2>3. CASE call \notin MemoryCalls
    <3>1. Narrow!WellFormed
      BY <1>2, <2>3, Given2, GivenIsWellFormed, Zenon
    <3> QED BY <1>1, <1>2, <2>1, <3>1 DEF PrintingIInv
  <2> QED BY <2>2, <2>3
<1>3. CASE stage = 3 /\ call \in Calls3 /\ Stage3!Init
  <2>1. Narrow!WellFormed /\ Narrow!Init
    BY <1>3, Given3, GivenIsWellFormed, Same3, Zenon
  <2> QED BY <1>1, <1>3, <2>1 DEF PrintingIInv
<1>4. CASE stage = 4 /\ call \in Calls4 /\ Stage4!Init
  <2>1. Narrow!WellFormed /\ Narrow!Init
    BY <1>4, Given4, GivenIsWellFormed, Same4, Zenon
  <2> QED BY <1>1, <1>4, <2>1 DEF PrintingIInv
<1>5. CASE stage = 5 /\ call \in Calls5 /\ Stage5!Init
  <2>1. Wide!WellFormed /\ Wide!Init
    BY <1>5, Given5, GivenIsWellFormed, Same5, Zenon
  <2>2. Wide!IInv
    BY <2>1, Wide!WellFormedEnough, Wide!InitInvariant, Zenon
  <2> QED BY <1>5, <2>1, <2>2 DEF PrintingIInv
<1> QED BY <1>2, <1>3, <1>4, <1>5, Zenon DEF Init

LEMMA PrintingStep ==
  ASSUME PrintingIInv, [Next]_vars
  PROVE  /\ stage' = stage
         /\ stage = 5 => Wide!Right
         /\ stage # 5 => Narrow!Right
         /\ (stage = 5 /\ Wide!WellFormed) => Wide!WellFormed'
         /\ (stage # 5 /\ Narrow!WellFormed) => Narrow!WellFormed'
         /\ call' = call
<1>1. CASE Print2
  <2>1. Narrow!Next /\ stage = 2 /\ stage' = stage
    BY <1>1, Same2, Zenon DEF Print2
  <2>2. Narrow!IInv
    BY <2>1 DEF PrintingIInv
  <2>3. call' = call /\ (Narrow!WellFormed => Narrow!WellFormed')
    BY <2>1, Narrow!CallKept, Narrow!WellFormedKept, Zenon
  <2> QED BY <2>1, <2>2, <2>3, Narrow!StepRight, NarrowWidths
<1>2. CASE Print3
  <2>1. Narrow!Next /\ stage = 3 /\ stage' = stage
    BY <1>2, Same3, Zenon DEF Print3
  <2>2. Narrow!IInv
    BY <2>1 DEF PrintingIInv
  <2>3. call' = call /\ (Narrow!WellFormed => Narrow!WellFormed')
    BY <2>1, Narrow!CallKept, Narrow!WellFormedKept, Zenon
  <2> QED BY <2>1, <2>2, <2>3, Narrow!StepRight, NarrowWidths
<1>3. CASE Print4
  <2>1. Narrow!Next /\ stage = 4 /\ stage' = stage
    BY <1>3, Same4, Zenon DEF Print4
  <2>2. Narrow!IInv
    BY <2>1 DEF PrintingIInv
  <2>3. call' = call /\ (Narrow!WellFormed => Narrow!WellFormed')
    BY <2>1, Narrow!CallKept, Narrow!WellFormedKept, Zenon
  <2> QED BY <2>1, <2>2, <2>3, Narrow!StepRight, NarrowWidths
<1>4. CASE Print5
  <2>1. Wide!Next /\ stage = 5 /\ stage' = stage
    BY <1>4, Same5, Zenon DEF Print5
  <2>2. Wide!IInv
    BY <2>1 DEF PrintingIInv
  <2>3. call' = call /\ (Wide!WellFormed => Wide!WellFormed')
    BY <2>1, Wide!CallKept, Wide!WellFormedKept, Zenon
  <2> QED BY <2>1, <2>2, <2>3, Wide!StepRight, WideWidths
<1>5. CASE UNCHANGED vars
  <2>1. stage' = stage /\ UNCHANGED Narrow!vars /\ UNCHANGED Wide!vars
    BY <1>5 DEF vars, Narrow!vars, Wide!vars
  <2>2. stage # 5 => Narrow!Right
    BY <2>1, Narrow!StutterRight, Zenon DEF PrintingIInv
  <2>3. stage = 5 => Wide!Right
    BY <2>1, Wide!StutterRight, Zenon DEF PrintingIInv
  <2>4. call' = call /\ (Narrow!WellFormed => Narrow!WellFormed') /\ (Wide!WellFormed => Wide!WellFormed')
    <3>1. call' = call
      BY <1>5 DEF vars
    <3> QED BY <2>1, <3>1, Narrow!WellFormedKept, Wide!WellFormedKept, Zenon
  <2> QED BY <2>1, <2>2, <2>3, <2>4
<1> QED BY <1>1, <1>2, <1>3, <1>4, <1>5, Zenon DEF Next

LEMMA PrintingInductive == ASSUME PrintingIInv, [Next]_vars PROVE PrintingIInv'
<1>1. /\ stage' = stage /\ stage \in 2..5
      /\ stage = 5 => Wide!Right
      /\ stage # 5 => Narrow!Right
      /\ (stage = 5 /\ Wide!WellFormed) => Wide!WellFormed'
      /\ (stage # 5 /\ Narrow!WellFormed) => Narrow!WellFormed'
      /\ (call \notin MemoryCalls)' = (call \notin MemoryCalls)
  <2>1. call' = call
    BY PrintingStep, Zenon
  <2>2. MemoryCalls' = MemoryCalls
    BY DEF MemoryCalls, PrintMemSec, BufferShown, Call, Format, Long, Plain, Text
  <2> QED BY <2>1, <2>2, PrintingStep, Zenon DEF PrintingIInv
<1>2. stage = 5 => Wide!IInv' /\ ((call \notin MemoryCalls)' => Wide!WellFormed')
  BY <1>1, Zenon DEF Wide!Right, PrintingIInv
<1>3. stage # 5 => Narrow!IInv' /\ ((call \notin MemoryCalls)' => Narrow!WellFormed')
  BY <1>1, Zenon DEF Narrow!Right, PrintingIInv
<1> QED BY <1>1, <1>2, <1>3, Zenon DEF PrintingIInv

(* The invariant holds in every call of every stage: it reads the slots    *)
(* that its directives name, in their order, and unless it shows a struct  *)
(* mem_sec its arguments are those slots.                                  *)
THEOREM PrintingInvariance == Spec => []PrintingIInv
<1>1. Init => PrintingIInv
  BY PrintingInitially
<1>2. PrintingIInv /\ [Next]_vars => PrintingIInv'
  BY PrintingInductive
<1> QED BY <1>1, <1>2, PTL DEF Spec

-----------------------------------------------------------------------------
(* While any stage prints, every variable of its vsprintf keeps its type.  *)
THEOREM PrintingTypes == Spec => []TypeOK
<1>1. PrintingIInv => TypeOK
  <2> SUFFICES ASSUME PrintingIInv PROVE TypeOK
    OBVIOUS
  <2>1. stage \in 2..5 /\ (stage = 5 => Wide!TypeOK) /\ (stage # 5 => Narrow!TypeOK)
    BY Narrow!InvariantTypes, Wide!InvariantTypes, Zenon DEF PrintingIInv
  <2>2. /\ stage = 5 => Stage5!TypeOK
        /\ stage # 5 => Stage2!TypeOK /\ Stage3!TypeOK /\ Stage4!TypeOK
    BY <2>1, Same2, Same3, Same4, Same5, Zenon
  <2>3. CASE stage = 2
    BY <2>2, <2>3 DEF TypeOK
  <2>4. CASE stage = 3
    BY <2>2, <2>4 DEF TypeOK
  <2>5. CASE stage = 4
    BY <2>2, <2>5 DEF TypeOK
  <2>6. CASE stage = 5
    BY <2>2, <2>6 DEF TypeOK
  <2> QED BY <2>1, <2>3, <2>4, <2>5, <2>6
<1> QED BY <1>1, PrintingInvariance, PTL

(* In every call of every stage but the two that show a struct mem_sec     *)
(* each directive reads the whole of the argument written for it, and      *)
(* nothing is left over.                                                   *)
THEOREM PrintingInStep == Spec => []ArgumentsInStep
<1>1. PrintingIInv => ArgumentsInStep
  <2> SUFFICES ASSUME PrintingIInv, call \notin MemoryCalls PROVE InStep
    BY Zenon DEF ArgumentsInStep
  <2>1. (stage = 5 => Wide!ArgumentsInStep) /\ (stage # 5 => Narrow!ArgumentsInStep)
    BY Narrow!InvariantInStep, Wide!InvariantInStep, Zenon DEF PrintingIInv
  <2>2. (stage = 5 => Stage5!ArgumentsInStep) /\ (stage # 5 => Stage2!ArgumentsInStep)
    BY <2>1, Same2, Same5, Zenon
  <2> QED BY <2>2, Zenon DEF InStep
<1> QED BY <1>1, PrintingInvariance, PTL

(* Every number that a stage prints, read in its base, is the number given. *)
THEOREM PrintingReadsBack == Spec => NumbersReadBack
<1>1. PrintingIInv /\ [Next]_vars => IF stage = 5 THEN Stage5!ReadsBack ELSE Stage2!ReadsBack
  <2> SUFFICES ASSUME PrintingIInv, [Next]_vars
               PROVE  IF stage = 5 THEN Stage5!ReadsBack ELSE Stage2!ReadsBack
    OBVIOUS
  <2>1. (stage = 5 => Wide!ReadsBack) /\ (stage # 5 => Narrow!ReadsBack)
    BY PrintingStep, Zenon DEF Wide!Right, Narrow!Right
  <2> QED BY <2>1, Same2, Same5, Zenon
<1> QED BY <1>1, PrintingInvariance, PTL DEF Spec, NumbersReadBack

(* Every field that a stage prints is as wide as it was asked for.         *)
THEOREM PrintingFills == Spec => FieldsFilled
<1>1. PrintingIInv /\ [Next]_vars => IF stage = 5 THEN Stage5!Filled ELSE Stage2!Filled
  <2> SUFFICES ASSUME PrintingIInv, [Next]_vars
               PROVE  IF stage = 5 THEN Stage5!Filled ELSE Stage2!Filled
    OBVIOUS
  <2>1. (stage = 5 => Wide!Filled) /\ (stage # 5 => Narrow!Filled)
    BY PrintingStep, Zenon DEF Wide!Right, Narrow!Right
  <2> QED BY <2>1, Same2, Same5, Zenon
<1> QED BY <1>1, PrintingInvariance, PTL DEF Spec, FieldsFilled
=============================================================================
