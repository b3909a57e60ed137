---------------------------- MODULE PortsProofs ----------------------------
(***************************************************************************)
(* What Ports says of the serial port and of the DMA controllers, for      *)
(* every size of the FIFO and whatever the BIOS left in the devices.       *)
(***************************************************************************)
EXTENDS Ports, SequenceTheorems, TLAPS

-----------------------------------------------------------------------------
(* What the stages write to the serial port.                               *)

Values == {3, 0, 199, "character", "return", "newline"} \union SUBSET {"parity", "eight", "latch"}
Accesses == [port : 1016..1023, value : Values, part : TextParts \union {"none"}]

(* Two sequences, one after the other.                                     *)
LEMMA Flatten == ASSUME NEW S, NEW s \in Seq(S), NEW t \in Seq(S)
  PROVE Com!FlattenSeq(<<s, t>>) = s \o t
<1> DEFINE two == <<s, t>>
           f == [i \in 1..2 |-> IF i = 1 THEN s ELSE s \o t]
           Is(g) == g = [i \in 1..Len(two) |-> IF i = 1 THEN two[i] ELSE g[i-1] \o two[i]]
<1>1. Len(two) = 2 /\ two[1] = s /\ two[2] = t
  OBVIOUS
<1>2. Is(f)
  BY <1>1
<1>3. \A g : Is(g) => g[2] = s \o t
  BY <1>1
<1>4. LET g == CHOOSE g : Is(g) IN g[2] = s \o t
  BY <1>2, <1>3
<1>5. Com!FlattenSeq(two) = (CHOOSE g : Is(g))[2]
  BY <1>1 DEF Com!FlattenSeq
<1> QED BY <1>4, <1>5

(* A line of text ends with two bytes.                                     *)
LEMMA LineBytes == Com!Bytes(Line) \in Seq({"character", "return", "newline"})
<1> DEFINE S == {"character", "return", "newline"}
           parts == [i \in DOMAIN Line |->
                       IF Line[i] = "newline" THEN <<"return", "newline">> ELSE <<Line[i]>>]
<1>1. parts = << <<"character">>, <<"return", "newline">> >>
  BY DEF Line
<1>2. <<"character">> \in Seq(S) /\ <<"return", "newline">> \in Seq(S)
  OBVIOUS
<1>3. Com!FlattenSeq(parts) = <<"character">> \o <<"return", "newline">>
  BY <1>1, <1>2, Flatten
<1> QED BY <1>2, <1>3, ConcatProperties DEF Com!Bytes

(* Short sequences put together.                                           *)
LEMMA Joined == ASSUME NEW a, NEW b, NEW c, NEW d, NEW e
  PROVE /\ <<a>> \o <<b, c>> \o <<d>> = <<a, b, c, d>>
        /\ <<a, b, c, d>> \o <<e>> = <<a, b, c, d, e>>
<1> DEFINE S == {a, b, c, d, e}
<1>1. /\ <<a>> \in Seq(S) /\ <<b, c>> \in Seq(S) /\ <<d>> \in Seq(S) /\ <<e>> \in Seq(S)
      /\ <<a, b, c>> \in Seq(S) /\ <<a, b, c, d>> \in Seq(S) /\ <<a, b, c, d, e>> \in Seq(S)
  OBVIOUS
<1> HIDE DEF S
<1>2. <<a>> \o <<b, c>> = <<a, b, c>>
  <2>1. /\ <<a>> \o <<b, c>> \in Seq(S) /\ Len(<<a>> \o <<b, c>>) = 3
        /\ \A i \in 1..3 : (<<a>> \o <<b, c>>)[i] = IF i <= 1 THEN <<a>>[i] ELSE <<b, c>>[i - 1]
    BY <1>1, ConcatProperties
  <2>2. ASSUME NEW i \in 1..3 PROVE <<a, b, c>>[i] = IF i <= 1 THEN <<a>>[i] ELSE <<b, c>>[i - 1]
    <3>1. i \in {1, 2, 3}
      OBVIOUS
    <3> QED BY <3>1
  <2>3. <<a, b, c>> \in Seq(S) /\ Len(<<a, b, c>>) = 3
    BY <1>1
  <2> QED BY <2>1, <2>2, <2>3, SeqEqual
<1>3. <<a, b, c>> \o <<d>> = <<a, b, c, d>>
  <2>1. /\ <<a, b, c>> \o <<d>> \in Seq(S) /\ Len(<<a, b, c>> \o <<d>>) = 4
        /\ \A i \in 1..4 : (<<a, b, c>> \o <<d>>)[i] = IF i <= 3 THEN <<a, b, c>>[i] ELSE <<d>>[i - 3]
    BY <1>1, ConcatProperties
  <2>2. ASSUME NEW i \in 1..4 PROVE <<a, b, c, d>>[i] = IF i <= 3 THEN <<a, b, c>>[i] ELSE <<d>>[i - 3]
    <3>1. i \in {1, 2, 3, 4}
      OBVIOUS
    <3> QED BY <3>1
  <2>3. <<a, b, c, d>> \in Seq(S) /\ Len(<<a, b, c, d>>) = 4
    BY <1>1
  <2> QED BY <2>1, <2>2, <2>3, SeqEqual
<1>4. <<a, b, c, d>> \o <<e>> = <<a, b, c, d, e>>
  <2>1. /\ <<a, b, c, d>> \o <<e>> \in Seq(S) /\ Len(<<a, b, c, d>> \o <<e>>) = 5
        /\ \A i \in 1..5 : (<<a, b, c, d>> \o <<e>>)[i] = IF i <= 4 THEN <<a, b, c, d>>[i] ELSE <<e>>[i - 4]
    BY <1>1, ConcatProperties
  <2>2. ASSUME NEW i \in 1..5 PROVE <<a, b, c, d, e>>[i] = IF i <= 4 THEN <<a, b, c, d>>[i] ELSE <<e>>[i - 4]
    <3>1. i \in {1, 2, 3, 4, 5}
      OBVIOUS
    <3> QED BY <3>1
  <2>3. <<a, b, c, d, e>> \in Seq(S) /\ Len(<<a, b, c, d, e>>) = 5
    BY <1>1
  <2> QED BY <2>1, <2>2, <2>3, SeqEqual
<1> QED BY <1>2, <1>3, <1>4

LEMMA SetbrTuples == ASSUME NEW a, NEW b, NEW c, NEW d, NEW e,
                            Com!SetLatch = <<a>>, Com!SetRate = <<b, c>>,
                            Com!SetFormat = <<d>>, Com!SetFifo = <<e>>
  PROVE Com!Setbr4 = <<a, b, c, d>> /\ Com!Setbr3 = <<a, b, c, d, e>>
<1>1. Com!Setbr4 = <<a>> \o <<b, c>> \o <<d>>
  BY Zenon DEF Com!Setbr4
<1>2. Com!Setbr3 = (<<a>> \o <<b, c>> \o <<d>>) \o <<e>>
  BY Zenon DEF Com!Setbr3
<1>3. <<a>> \o <<b, c>> \o <<d>> = <<a, b, c, d>> /\ <<a, b, c, d>> \o <<e>> = <<a, b, c, d, e>>
  BY Joined
<1> QED BY <1>1, <1>2, <1>3, Zenon

(* The accesses that program the port.                                     *)
LEMMA Settings == ASSUME lcr \subseteq {"parity", "eight", "latch"}
  PROVE /\ Com!Setbr4 \in Seq(Accesses) /\ Len(Com!Setbr4) = 4
        /\ \A i \in 1..4 : IsSetting(Com!Setbr4[i], i)
        /\ Com!Setbr3 \in Seq(Accesses) /\ Len(Com!Setbr3) = 5
        /\ \A i \in 1..4 : IsSetting(Com!Setbr3[i], i)
        /\ IsFifo(Com!Setbr3[5])
<1> DEFINE a(port, value) == [port |-> port, value |-> value, part |-> "none"]
           latch == lcr \union {"latch"}
           format == lcr \ {"latch", "parity"}
<1>1. /\ a(1019, latch) \in Accesses /\ a(1019, format) \in Accesses
      /\ a(1016, 3) \in Accesses /\ a(1017, 0) \in Accesses /\ a(1018, 199) \in Accesses
  BY DEF Accesses, Values
<1>2. /\ Com!SetLatch = <<a(1019, latch)>> /\ Com!SetRate = <<a(1016, 3), a(1017, 0)>>
      /\ Com!SetFormat = <<a(1019, format)>> /\ Com!SetFifo = <<a(1018, 199)>>
  BY DEF Com!SetLatch, Com!SetRate, Com!SetFormat, Com!SetFifo, Com!Outb, Com!Com1, Com!Rate
<1>3. /\ Com!Setbr4 = <<a(1019, latch), a(1016, 3), a(1017, 0), a(1019, format)>>
      /\ Com!Setbr3 = <<a(1019, latch), a(1016, 3), a(1017, 0), a(1019, format), a(1018, 199)>>
  <2> HIDE DEF a, latch, format
  <2> QED BY <1>2, SetbrTuples
<1>4. IsSetting(a(1019, latch), 1)
  BY DEF IsSetting, Com!Com1
<1>5. IsSetting(a(1016, 3), 2) /\ IsSetting(a(1017, 0), 3)
  BY DEF IsSetting, Com!Com1, Com!Rate
<1>6. IsSetting(a(1019, format), 4) /\ IsFifo(a(1018, 199))
  BY DEF IsSetting, IsFifo, Com!Com1
<1> HIDE DEF a, latch, format
<1>7. /\ Com!Setbr4 \in Seq(Accesses) /\ Len(Com!Setbr4) = 4
      /\ Com!Setbr3 \in Seq(Accesses) /\ Len(Com!Setbr3) = 5
  BY <1>1, <1>3
<1>8. \A i \in 1..4 : IsSetting(Com!Setbr4[i], i)
  <2>1. SUFFICES ASSUME NEW i \in {1, 2, 3, 4} PROVE IsSetting(Com!Setbr4[i], i)
    OBVIOUS
  <2> QED BY <1>3, <1>4, <1>5, <1>6, <2>1
<1>9. IsFifo(Com!Setbr3[5]) /\ \A i \in 1..4 : IsSetting(Com!Setbr3[i], i)
  <2>1. SUFFICES ASSUME NEW i \in {1, 2, 3, 4}
                 PROVE IsFifo(Com!Setbr3[5]) /\ IsSetting(Com!Setbr3[i], i)
    OBVIOUS
  <2> QED BY <1>3, <1>4, <1>5, <1>6, <2>1
<1> QED BY <1>7, <1>8, <1>9

(* One call of puts: the settings, if the stage has not made them, and its *)
(* text.                                                                   *)
Written(stage, part) ==
    Com!Programming(stage)
    \o [i \in DOMAIN Com!Bytes(Line) |-> Com!Text(Com!Bytes(Line)[i], part)]

IsWritten(s, part, settings, fifo) ==
    /\ s \in Seq(Accesses) /\ settings + fifo <= Len(s)
    /\ \A i \in DOMAIN s :
         \/ i <= settings /\ IsSetting(s[i], i + 4 - settings)
         \/ settings < i /\ i <= settings + fifo /\ IsFifo(s[i])
         \/ settings + fifo < i /\ s[i].port = Com!Com1 /\ s[i].part = part

LEMMA WrittenIs ==
  ASSUME NEW stage \in 3..5, NEW part \in TextParts,
         is_init \in [{3, 4} -> BOOLEAN], lcr \subseteq {"parity", "eight", "latch"}
  PROVE /\ stage = 5 \/ is_init[stage] => IsWritten(Written(stage, part), part, 0, 0)
        /\ stage = 3 /\ ~is_init[3] => IsWritten(Written(stage, part), part, 4, 1)
        /\ stage = 4 /\ ~is_init[4] => IsWritten(Written(stage, part), part, 4, 0)
<1> DEFINE bytes == Com!Bytes(Line)
           text == [i \in DOMAIN bytes |-> Com!Text(bytes[i], part)]
<1>1. bytes \in Seq({"character", "return", "newline"})
  BY LineBytes
<1> HIDE DEF bytes
<1>2. DOMAIN bytes = 1..Len(bytes) /\ Len(bytes) \in Nat
  BY <1>1, LenProperties
<1>3. \A i \in DOMAIN bytes : bytes[i] \in {"character", "return", "newline"}
  BY <1>1, <1>2, ElementOfSeq
<1>4. \A i \in DOMAIN bytes : text[i] \in Accesses /\ text[i].port = Com!Com1 /\ text[i].part = part
  BY <1>3 DEF Accesses, Values, Com!Text, Com!Com1
<1>5. text \in Seq(Accesses) /\ DOMAIN text = 1..Len(text) /\ Len(text) \in Nat
  <2>1. text \in [1..Len(bytes) -> Accesses]
    BY <1>2, <1>4
  <2> QED BY <1>2, <2>1, SeqDef, LenProperties
<1>6. \A i \in 1..Len(text) : text[i].port = Com!Com1 /\ text[i].part = part
  BY <1>4, <1>5
<1> HIDE DEF text
<1>7. Written(stage, part) = Com!Programming(stage) \o text
  BY Zenon DEF Written, bytes, text
<1>8. ASSUME NEW s \in Seq(Accesses)
      PROVE /\ s \o text \in Seq(Accesses) /\ Len(s \o text) = Len(s) + Len(text)
            /\ DOMAIN (s \o text) = 1..(Len(s) + Len(text)) /\ Len(s) \in Nat
            /\ \A i \in 1..(Len(s) + Len(text)) :
                 /\ i <= Len(s) => (s \o text)[i] = s[i]
                 /\ i > Len(s) => /\ (s \o text)[i].port = Com!Com1
                                  /\ (s \o text)[i].part = part
  <2>1. /\ s \o text \in Seq(Accesses) /\ Len(s \o text) = Len(s) + Len(text)
        /\ \A i \in 1..(Len(s) + Len(text)) :
              (s \o text)[i] = IF i <= Len(s) THEN s[i] ELSE text[i - Len(s)]
    BY <1>5, ConcatProperties
  <2>2. DOMAIN (s \o text) = 1..(Len(s) + Len(text)) /\ Len(s) \in Nat
    BY <2>1, LenProperties
  <2>3. \A i \in 1..(Len(s) + Len(text)) : i > Len(s) => i - Len(s) \in 1..Len(text)
    BY <1>5, <2>2
  <2> QED BY <1>6, <2>1, <2>2, <2>3
<1>9. /\ <<>> \in Seq(Accesses) /\ Len(<<>>) = 0
      /\ Com!Setbr4 \in Seq(Accesses) /\ Len(Com!Setbr4) = 4
      /\ \A i \in 1..4 : IsSetting(Com!Setbr4[i], i)
      /\ Com!Setbr3 \in Seq(Accesses) /\ Len(Com!Setbr3) = 5
      /\ \A i \in 1..4 : IsSetting(Com!Setbr3[i], i)
      /\ IsFifo(Com!Setbr3[5])
  BY Settings
<1>10. ASSUME NEW s \in Seq(Accesses), NEW settings \in {0, 4}, NEW fifo \in {0, 1},
              Len(s) = settings + fifo,
              \A i \in 1..4 : i <= settings => IsSetting(s[i], i),
              fifo = 1 => IsFifo(s[settings + 1])
       PROVE IsWritten(s \o text, part, settings, fifo)
  <2>1. PICK t : t = s \o text
    OBVIOUS
  <2>2. /\ t \in Seq(Accesses) /\ Len(t) = Len(s) + Len(text) /\ DOMAIN t = 1..(Len(s) + Len(text))
        /\ \A i \in 1..(Len(s) + Len(text)) :
                 /\ i <= Len(s) => t[i] = s[i]
                 /\ i > Len(s) => t[i].port = Com!Com1 /\ t[i].part = part
    BY <1>8, <2>1, Zenon
  <2>3. ASSUME NEW i \in DOMAIN t
        PROVE \/ i <= settings /\ IsSetting(t[i], i + 4 - settings)
              \/ settings < i /\ i <= settings + fifo /\ IsFifo(t[i])
              \/ settings + fifo < i /\ t[i].port = Com!Com1 /\ t[i].part = part
    <3>1. CASE i <= settings
      <4>1. i \in 1..4 /\ t[i] = s[i] /\ i + 4 - settings = i
        BY <1>5, <1>10, <2>2, <3>1
      <4> QED BY <1>10, <3>1, <4>1, Zenon
    <3>2. CASE settings < i /\ i <= settings + fifo
      <4>1. fifo = 1 /\ i = settings + 1 /\ t[i] = s[i]
        BY <1>5, <1>10, <2>2, <3>2
      <4> QED BY <1>10, <3>2, <4>1
    <3>3. CASE settings + fifo < i
      BY <1>5, <1>10, <2>2, <3>3
    <3> QED BY <1>5, <2>2, <3>1, <3>2, <3>3
  <2>4. settings + fifo <= Len(t)
    BY <1>5, <1>10, <2>2
  <2>5. IsWritten(t, part, settings, fifo)
    BY <2>2, <2>3, <2>4, Zenon DEF IsWritten
  <2> QED BY <2>1, <2>5
<1>11. IsWritten(Com!Setbr3 \o text, part, 4, 1)
  BY <1>9, <1>10
<1>12. IsWritten(Com!Setbr4 \o text, part, 4, 0)
  BY <1>9, <1>10
<1>13. IsWritten(<<>> \o text, part, 0, 0)
  <2>1. PICK e : e = <<>>
    OBVIOUS
  <2>2. e \in Seq(Accesses) /\ Len(e) = 0
    BY <1>9, <2>1
  <2>3. /\ 0 \in {0, 4} /\ 0 \in {0, 1} /\ Len(e) = 0 + 0
        /\ \A i \in 1..4 : i <= 0 => IsSetting(e[i], i)
        /\ 0 = 1 => IsFifo(e[0 + 1])
    BY <2>2
  <2>4. IsWritten(e \o text, part, 0, 0)
    BY <1>10, <2>2, <2>3, Zenon
  <2> QED BY <2>1, <2>4, Zenon
<1>14. /\ stage = 5 \/ is_init[stage] => Com!Programming(stage) = <<>>
       /\ stage = 3 /\ ~is_init[3] => Com!Programming(stage) = Com!Setbr3
       /\ stage = 4 /\ ~is_init[4] => Com!Programming(stage) = Com!Setbr4
  BY DEF Com!Programming
<1> QED BY <1>7, <1>11, <1>12, <1>13, <1>14, Zenon

-----------------------------------------------------------------------------
(* What the boot does, in order.                                           *)

LEMMA TwoMore == ASSUME NEW S, NEW s \in Seq(S), NEW a \in S, NEW b \in S, NEW r, r = s \o <<a, b>>
  PROVE /\ r \in Seq(S) /\ Len(r) = Len(s) + 2
        /\ \A i \in 1..Len(s) : r[i] = s[i]
        /\ r[Len(s) + 1] = a /\ r[Len(s) + 2] = b
<1>1. PICK t : t = <<a, b>>
  OBVIOUS
<1>2. t \in Seq(S) /\ Len(t) = 2 /\ t[1] = a /\ t[2] = b
  BY <1>1
<1>3. r = s \o t
  BY <1>1, Zenon
<1>4. /\ s \o t \in Seq(S) /\ Len(s \o t) = Len(s) + Len(t)
      /\ \A i \in 1..(Len(s) + Len(t)) : (s \o t)[i] = IF i <= Len(s) THEN s[i] ELSE t[i - Len(s)]
  BY <1>2, ConcatProperties
<1>5. /\ r \in Seq(S) /\ Len(r) = Len(s) + Len(t)
      /\ \A i \in 1..(Len(s) + Len(t)) : r[i] = IF i <= Len(s) THEN s[i] ELSE t[i - Len(s)]
  BY <1>3, <1>4, Zenon
<1>6. Len(s) \in Nat
  BY LenProperties
<1> QED BY <1>2, <1>5, <1>6

LEMMA BootIs ==
  /\ Len(Boot) = 14
  /\ Boot[1] = Log(3, "greeting") /\ Boot[2] = Do("memreset") /\ Boot[3] = Log(3, "executing")
  /\ Boot[4] = Do("sti")
  /\ Boot[5] = ProgramUpTo(Len(Controllers!FloppyDma)) /\ Boot[6] = Log(3, "log")
  /\ Boot[7] = ProgramUpTo(Len(Controllers!Program)) /\ Boot[8] = Log(3, "log")
  /\ Boot[9] = Do("load_protected") /\ Boot[10] = Do("reset_bss")
  /\ Boot[11] = Log(4, "stage4") /\ Boot[12] = Log(4, "stage4")
  /\ Boot[13] = Do("cli") /\ Boot[14] = Log(5, "stage5")
<1> DEFINE g == Log(3, "greeting")  m == Do("memreset")  e == Log(3, "executing")
           i1 == Do("sti")          l == Log(3, "log")
           d1 == ProgramUpTo(Len(Controllers!FloppyDma))
           d2 == ProgramUpTo(Len(Controllers!Program))
           p == Do("load_protected")  b == Do("reset_bss")
           f == Log(4, "stage4")   c == Do("cli")   v == Log(5, "stage5")
           S == {g, m, e, i1, l, d1, d2, p, b, f, c, v}
<1>1. /\ Greeting = <<g, m, e>> /\ Init8259 = <<i1>> /\ FloppyDma = <<d1, l>>
      /\ SetupRead = <<d2, l>> /\ LoadProtected = <<p, b>> /\ Stage4Load = <<f, f>>
      /\ Stage5Load = <<c, v>>
  BY Zenon DEF Greeting, Init8259, FloppyDma, SetupRead, LoadProtected, Stage4Load, Stage5Load
<1>2. /\ g \in S /\ m \in S /\ e \in S /\ i1 \in S /\ l \in S /\ d1 \in S /\ d2 \in S
      /\ p \in S /\ b \in S /\ f \in S /\ c \in S /\ v \in S
  OBVIOUS
<1> HIDE DEF g, m, e, i1, l, d1, d2, p, b, f, c, v, S
<1>3. /\ <<g, m, e>> \in Seq(S) /\ Len(<<g, m, e>>) = 3
      /\ <<g, m, e>>[1] = g /\ <<g, m, e>>[2] = m /\ <<g, m, e>>[3] = e
  BY <1>2
<1>4. PICK s3 : s3 = <<g, m, e>>
  OBVIOUS
<1>t. PICK t : t = <<i1>>
  OBVIOUS
<1>5. PICK s4 : s4 = s3 \o t
  OBVIOUS
<1>6. PICK s6 : s6 = s4 \o <<d1, l>>
  OBVIOUS
<1>7. PICK s8 : s8 = s6 \o <<d2, l>>
  OBVIOUS
<1>8. PICK s10 : s10 = s8 \o <<p, b>>
  OBVIOUS
<1>9. PICK s12 : s12 = s10 \o <<f, f>>
  OBVIOUS
<1>10. PICK s14 : s14 = s12 \o <<c, v>>
  OBVIOUS
<1>11. Boot = s14
  BY <1>1, <1>4, <1>t, <1>5, <1>6, <1>7, <1>8, <1>9, <1>10, Zenon DEF Boot
<1>12. s3 \in Seq(S) /\ Len(s3) = 3 /\ s3[1] = g /\ s3[2] = m /\ s3[3] = e
  BY <1>3, <1>4
<1>13. /\ s4 \in Seq(S) /\ Len(s4) = Len(s3) + 1
       /\ \A i \in 1..Len(s3) : s4[i] = s3[i]
       /\ s4[Len(s3) + 1] = i1
  <2>1. t \in Seq(S) /\ Len(t) = 1 /\ t[1] = i1
    BY <1>2, <1>t
  <2>2. /\ s3 \o t \in Seq(S) /\ Len(s3 \o t) = Len(s3) + Len(t)
        /\ \A i \in 1..(Len(s3) + Len(t)) :
              (s3 \o t)[i] = IF i <= Len(s3) THEN s3[i] ELSE t[i - Len(s3)]
    BY <1>12, <2>1, ConcatProperties
  <2>3. /\ s4 \in Seq(S) /\ Len(s4) = Len(s3) + Len(t)
        /\ \A i \in 1..(Len(s3) + Len(t)) :
              s4[i] = IF i <= Len(s3) THEN s3[i] ELSE t[i - Len(s3)]
    BY <1>5, <2>2, Zenon
  <2> QED BY <1>12, <2>1, <2>3
<1>14. /\ s6 \in Seq(S) /\ Len(s6) = Len(s4) + 2
       /\ \A i \in 1..Len(s4) : s6[i] = s4[i]
       /\ s6[Len(s4) + 1] = d1 /\ s6[Len(s4) + 2] = l
  BY <1>2, <1>6, <1>13, TwoMore
<1>15. /\ s8 \in Seq(S) /\ Len(s8) = Len(s6) + 2
       /\ \A i \in 1..Len(s6) : s8[i] = s6[i]
       /\ s8[Len(s6) + 1] = d2 /\ s8[Len(s6) + 2] = l
  BY <1>2, <1>7, <1>14, TwoMore
<1>16. /\ s10 \in Seq(S) /\ Len(s10) = Len(s8) + 2
       /\ \A i \in 1..Len(s8) : s10[i] = s8[i]
       /\ s10[Len(s8) + 1] = p /\ s10[Len(s8) + 2] = b
  BY <1>2, <1>8, <1>15, TwoMore
<1>17. /\ s12 \in Seq(S) /\ Len(s12) = Len(s10) + 2
       /\ \A i \in 1..Len(s10) : s12[i] = s10[i]
       /\ s12[Len(s10) + 1] = f /\ s12[Len(s10) + 2] = f
  BY <1>2, <1>9, <1>16, TwoMore
<1>18. /\ s14 \in Seq(S) /\ Len(s14) = Len(s12) + 2
       /\ \A i \in 1..Len(s12) : s14[i] = s12[i]
       /\ s14[Len(s12) + 1] = c /\ s14[Len(s12) + 2] = v
  BY <1>2, <1>10, <1>17, TwoMore
<1>19. /\ Len(s14) = 14
       /\ s14[1] = g /\ s14[2] = m /\ s14[3] = e /\ s14[4] = i1 /\ s14[5] = d1 /\ s14[6] = l
       /\ s14[7] = d2 /\ s14[8] = l /\ s14[9] = p /\ s14[10] = b /\ s14[11] = f /\ s14[12] = f
       /\ s14[13] = c /\ s14[14] = v
  BY <1>12, <1>13, <1>14, <1>15, <1>16, <1>17, <1>18
<1> QED BY <1>11, <1>19, Zenon DEF g, m, e, i1, l, d1, d2, p, b, f, c, v

(* The same, by kind.                                                      *)
LEMMA BootDoes == ASSUME NEW i \in 1..14
  PROVE /\ Boot[i].does = "puts" <=> i \in {1, 3, 6, 8, 11, 12, 14}
        /\ Boot[i].does = "memreset" <=> i = 2
        /\ Boot[i].does = "reset_bss" <=> i = 10
        /\ Boot[i].does = "sti" <=> i = 4
        /\ Boot[i].does = "dma" <=> i \in {5, 7}
        /\ Boot[i].does \in {"load_protected", "cli"} <=> i \in {9, 13}
        /\ Boot[i].does = "puts" =>
             /\ Boot[i].stage = IF i <= 8 THEN 3 ELSE IF i <= 12 THEN 4 ELSE 5
             /\ Boot[i].part \in TextParts
             /\ i = 1 => Boot[i].part = "greeting"
<1>1. i \in {1, 2, 3, 4, 5, 6, 7, 8, 9, 10, 11, 12, 13, 14}
  OBVIOUS
<1>2. /\ Boot[1] = Log(3, "greeting") /\ Boot[3] = Log(3, "executing")
      /\ Boot[6] = Log(3, "log") /\ Boot[8] = Log(3, "log")
      /\ Boot[11] = Log(4, "stage4") /\ Boot[12] = Log(4, "stage4")
      /\ Boot[14] = Log(5, "stage5")
  BY BootIs, Zenon
<1>3. /\ Boot[2] = Do("memreset") /\ Boot[4] = Do("sti") /\ Boot[9] = Do("load_protected")
      /\ Boot[10] = Do("reset_bss") /\ Boot[13] = Do("cli")
  BY BootIs, Zenon
<1>4. Boot[5].does = "dma" /\ Boot[7].does = "dma"
  <2>1. ASSUME NEW n, NEW b, b = ProgramUpTo(n) PROVE b.does = "dma"
    <3>1. PICK whole : whole = Do("dma")
      OBVIOUS
    <3>2. whole.does = "dma" /\ whole = [does |-> "dma", stage |-> 0, part |-> "none", upto |-> 0]
      BY <3>1 DEF Do
    <3>3. b = [whole EXCEPT !.upto = n]
      BY <2>1, <3>1, Zenon DEF ProgramUpTo
    <3> QED BY <3>2, <3>3
  <2>2. PICK n : Boot[5] = ProgramUpTo(n)
    BY BootIs, Zenon
  <2>3. PICK k : Boot[7] = ProgramUpTo(k)
    BY BootIs, Zenon
  <2> QED BY <2>1, <2>2, <2>3
<1>5. ASSUME NEW b, NEW stage, NEW part, b = Log(stage, part)
      PROVE b.does = "puts" /\ b.stage = stage /\ b.part = part
  BY <1>5 DEF Log
<1>6. ASSUME NEW b, NEW what, b = Do(what) PROVE b.does = what
  BY <1>6 DEF Do
<1>7. /\ Boot[1].does = "puts" /\ Boot[1].stage = 3 /\ Boot[1].part = "greeting"
      /\ Boot[3].does = "puts" /\ Boot[3].stage = 3 /\ Boot[3].part = "executing"
      /\ Boot[6].does = "puts" /\ Boot[6].stage = 3 /\ Boot[6].part = "log"
      /\ Boot[8].does = "puts" /\ Boot[8].stage = 3 /\ Boot[8].part = "log"
  BY <1>2, <1>5
<1>8. /\ Boot[11].does = "puts" /\ Boot[11].stage = 4 /\ Boot[11].part = "stage4"
      /\ Boot[12].does = "puts" /\ Boot[12].stage = 4 /\ Boot[12].part = "stage4"
      /\ Boot[14].does = "puts" /\ Boot[14].stage = 5 /\ Boot[14].part = "stage5"
  BY <1>2, <1>5
<1>9. /\ Boot[2].does = "memreset" /\ Boot[4].does = "sti" /\ Boot[9].does = "load_protected"
      /\ Boot[10].does = "reset_bss" /\ Boot[13].does = "cli"
  BY <1>3, <1>6
<1> QED BY <1>1, <1>4, <1>7, <1>8, <1>9 DEF TextParts

-----------------------------------------------------------------------------
(* What the port does with a byte of text.                                 *)
LEMMA TakeText ==
  ASSUME queue \in Seq(TextParts), Len(queue) <= Com!Room, enabled \in BOOLEAN,
         NEW part \in TextParts, Com!Take(part)
  PROVE /\ queue' \in Seq(TextParts) /\ Len(queue') <= Com!Room
        /\ queue' = queue \/ queue' # <<>>
        /\ OnlyGreeting /\ part = "greeting" => OnlyGreeting'
<1>1. Com!Room \in Nat \ {0}
  BY PortsAssumption DEF Com!Room
<1>2. Len(queue) \in Nat /\ DOMAIN queue = 1..Len(queue)
  BY LenProperties
<1>3. CASE Len(queue) < Com!Room /\ queue' = Append(queue, part)
  <2>1. /\ queue' \in Seq(TextParts) /\ queue' # <<>> /\ Len(queue') = Len(queue) + 1
        /\ \A i \in 1..Len(queue) : queue'[i] = queue[i]
        /\ queue'[Len(queue) + 1] = part
    BY <1>3, AppendProperties
  <2>2. DOMAIN queue' = 1..(Len(queue) + 1)
    BY <2>1, LenProperties
  <2>3. Len(queue') <= Com!Room
    BY <1>1, <1>2, <1>3, <2>1
  <2>4. OnlyGreeting /\ part = "greeting" => OnlyGreeting'
    BY <1>2, <2>1, <2>2 DEF OnlyGreeting
  <2> QED BY <2>1, <2>3, <2>4
<1>4. CASE queue' = queue
  BY <1>4 DEF OnlyGreeting
<1>5. CASE ~(Len(queue) < Com!Room) /\ queue' = Append(Com!Front(queue), part)
  <2>1. PICK front : front = SubSeq(queue, 1, Len(queue) - 1)
    OBVIOUS
  <2>2. \A i \in 1..(Len(queue) - 1) : queue[i] \in TextParts
    BY <1>2, ElementOfSeq
  <2>3. /\ front \in Seq(TextParts) /\ Len(front) = Len(queue) - 1
        /\ \A i \in 1..(Len(queue) - 1) : front[i] = queue[i]
    <3>1. /\ SubSeq(queue, 1, Len(queue) - 1) \in Seq(TextParts)
          /\ Len(SubSeq(queue, 1, Len(queue) - 1))
               = IF 1 <= Len(queue) - 1 THEN Len(queue) - 1 - 1 + 1 ELSE 0
          /\ \A i \in 1..(Len(queue) - 1 - 1 + 1) :
                SubSeq(queue, 1, Len(queue) - 1)[i] = queue[1 + i - 1]
      BY <1>2, <2>2, SubSeqProperties
    <3> QED BY <1>1, <1>2, <1>5, <2>1, <3>1
  <2>4. queue' = Append(front, part)
    BY <1>5, <2>1, Zenon DEF Com!Front
  <2>5. /\ queue' \in Seq(TextParts) /\ queue' # <<>> /\ Len(queue') = Len(front) + 1
        /\ \A i \in 1..Len(front) : queue'[i] = front[i]
        /\ queue'[Len(front) + 1] = part
    BY <2>3, <2>4, AppendProperties
  <2>6. DOMAIN queue' = 1..(Len(front) + 1)
    BY <2>5, LenProperties
  <2>7. Len(queue') <= Com!Room
    BY <1>1, <1>2, <1>5, <2>3, <2>5
  <2>8. OnlyGreeting /\ part = "greeting" => OnlyGreeting'
    <3>1. Len(front) = Len(queue) - 1 /\ Len(queue) > 0
      BY <1>1, <1>2, <1>5, <2>3
    <3>2. SUFFICES ASSUME OnlyGreeting, part = "greeting", NEW i \in DOMAIN queue'
                   PROVE queue'[i] = "greeting"
      BY DEF OnlyGreeting
    <3>3. CASE i = Len(front) + 1
      BY <2>5, <3>2, <3>3
    <3>4. CASE i # Len(front) + 1
      <4>1. i \in 1..Len(front) /\ i \in DOMAIN queue
        BY <1>2, <2>6, <3>1, <3>4
      <4>2. queue[i] = "greeting"
        BY <3>2, <4>1 DEF OnlyGreeting
      <4>3. queue'[i] = front[i] /\ front[i] = queue[i]
        BY <2>3, <2>5, <3>1, <4>1
      <4> QED BY <4>2, <4>3
    <3> QED BY <3>3, <3>4
  <2> QED BY <2>5, <2>7, <2>8
<1> QED BY <1>3, <1>4, <1>5 DEF Com!Take

(* The first of the accesses that are left, and what is left after it.     *)
LEMMA LeftAdvances ==
  ASSUME NEW settings \in 0..4, NEW fifo \in 0..1, Left(settings, fifo),
         out \in Seq(Accesses), out # <<>>, out' = Tail(out), at' = at
  PROVE /\ out' \in Seq(Accesses) /\ Head(out) \in Accesses
        /\ settings > 0 => /\ IsSetting(Head(out), 5 - settings)
                           /\ Left(settings - 1, fifo)'
        /\ settings = 0 /\ fifo = 1 => IsFifo(Head(out)) /\ Left(0, 0)'
        /\ settings = 0 /\ fifo = 0 => IsText(Head(out)) /\ Left(0, 0)'
<1>1. /\ Head(out) = out[1] /\ Head(out) \in Accesses /\ out' \in Seq(Accesses)
      /\ Len(out') = Len(out) - 1
      /\ \A i \in 1..Len(out') : out'[i] = out[i + 1]
  BY HeadTailProperties
<1>2. /\ Len(out) \in Nat /\ Len(out) > 0
      /\ DOMAIN out = 1..Len(out) /\ DOMAIN out' = 1..(Len(out) - 1)
  BY <1>1, LenProperties, EmptySeq
<1>3. ASSUME NEW i \in 1..Len(out)
      PROVE \/ i <= settings /\ IsSetting(out[i], i + 4 - settings)
            \/ settings < i /\ i <= settings + fifo /\ IsFifo(out[i])
            \/ settings + fifo < i /\ IsText(out[i])
  BY <1>2 DEF Left
<1>4. settings + fifo <= Len(out)
  BY DEF Left
<1>5. CASE settings > 0
  <2>1. 1 <= settings /\ 1 + 4 - settings = 5 - settings /\ 1 \in 1..Len(out)
    BY <1>2, <1>5
  <2>2. IsSetting(Head(out), 5 - settings)
    <3>1. IsSetting(out[1], 1 + 4 - settings)
      BY <1>3, <2>1
    <3> QED BY <1>1, <2>1, <3>1, Zenon
  <2>3. ASSUME NEW i \in DOMAIN out'
        PROVE \/ i <= settings - 1 /\ IsSetting(out[i], i + 4 - (settings - 1))'
              \/ settings - 1 < i /\ i <= settings - 1 + fifo /\ IsFifo(out[i])'
              \/ settings - 1 + fifo < i /\ IsText(out[i])'
    <3>1. i \in Nat /\ i > 0 /\ i + 1 \in 1..Len(out) /\ out'[i] = out[i + 1]
      BY <1>1, <1>2
    <3>2. CASE i + 1 <= settings /\ IsSetting(out[i + 1], i + 1 + 4 - settings)
      <4>1. i + 4 - (settings - 1) = i + 1 + 4 - settings /\ i + 4 - (settings - 1) # 1
        BY <3>1
      <4>2. IsSetting(out[i + 1], i + 4 - (settings - 1))
        BY <3>2, <4>1, Zenon
      <4>3. IsSetting(out[i], i + 4 - (settings - 1))'
        BY <3>1, <4>1, <4>2, Zenon DEF IsSetting
      <4> QED BY <3>1, <3>2, <4>3
    <3>3. CASE settings < i + 1 /\ i + 1 <= settings + fifo /\ IsFifo(out[i + 1])
      BY <3>1, <3>3 DEF IsFifo
    <3>4. CASE settings + fifo < i + 1 /\ IsText(out[i + 1])
      BY <3>1, <3>4 DEF IsText
    <3> QED BY <1>3, <3>1, <3>2, <3>3, <3>4
  <2>4. settings - 1 + fifo <= Len(out')
    BY <1>1, <1>2, <1>4
  <2>5. Left(settings - 1, fifo)'
    BY <2>3, <2>4 DEF Left
  <2> QED BY <1>1, <1>5, <2>2, <2>5
<1>6. CASE settings = 0
  <2>1. 1 \in 1..Len(out)
    BY <1>2
  <2>2. IF fifo = 1 THEN IsFifo(Head(out)) ELSE IsText(Head(out))
    BY <1>1, <1>3, <1>6, <2>1
  <2>3. ASSUME NEW i \in DOMAIN out' PROVE IsText(out[i])'
    <3>1. i \in Nat /\ i > 0 /\ i + 1 \in 1..Len(out) /\ out'[i] = out[i + 1]
      BY <1>1, <1>2
    <3>2. IsText(out[i + 1])
      BY <1>3, <1>6, <3>1
    <3> QED BY <3>1, <3>2 DEF IsText
  <2>4. Left(0, 0)'
    BY <1>1, <1>2, <2>3 DEF Left
  <2> QED BY <1>1, <1>6, <2>2, <2>4
<1> QED BY <1>5, <1>6

-----------------------------------------------------------------------------
(* The inductive invariant of the serial port.                             *)

SerialTypeOK == /\ out \in Seq(Accesses) /\ Com!TypeOK
                /\ at \in 1..15 /\ interruptible \in BOOLEAN /\ panicked \in BOOLEAN

SerialInv == /\ SerialTypeOK /\ BootOK /\ QueueOK /\ SentAsSet
             /\ \E settings \in 0..4, fifo \in 0..1 :
                  Left(settings, fifo) /\ Meanwhile(settings, fifo)

LEMMA AccessPorts ==
  \A s \in Seq(Accesses) : \A i \in DOMAIN s : s[i].port \in Com!Com1..(Com!Com1 + 7)
<1> SUFFICES ASSUME NEW s \in Seq(Accesses), NEW i \in DOMAIN s
             PROVE s[i].port \in Com!Com1..(Com!Com1 + 7)
  OBVIOUS
<1>1. s[i] \in Accesses
  BY LenProperties, ElementOfSeq
<1> QED BY <1>1 DEF Accesses, Com!Com1

LEMMA SerialInit == ASSUME Init PROVE SerialInv
<1>1. /\ out = <<>> /\ queue = <<>> /\ at = 1 /\ interruptible = FALSE /\ panicked = FALSE
      /\ is_init \in [{3, 4} -> BOOLEAN] /\ lcr \in OldLines /\ enabled \in BOOLEAN
      /\ line.part = "none"
  BY DEF Init, Com!Init
<1>2. lcr \subseteq {"parity", "eight"}
  BY <1>1, PortsAssumption
<1>3. DOMAIN out = {} /\ Len(out) = 0 /\ DOMAIN queue = {} /\ Len(queue) = 0
      /\ out \in Seq(Accesses) /\ queue \in Seq(TextParts)
  BY <1>1
<1>4. Com!TypeOK
  BY <1>1, <1>2, <1>3, PortsAssumption DEF Com!TypeOK, Com!Room
<1>5. BootOK /\ QueueOK /\ OnlyGreeting /\ SentAsSet
  BY <1>1, <1>3 DEF BootOK, QueueOK, OnlyGreeting, SentAsSet, Com!SentAsSet
<1>6. Left(0, 0) /\ Meanwhile(0, 0)
  BY <1>1, <1>2, <1>3 DEF Left, Meanwhile, Com!Latched
<1>7. at \in 1..15
  BY <1>1
<1>8. interruptible \in BOOLEAN /\ panicked \in BOOLEAN
  BY <1>1, Zenon
<1>9. 0 \in 0..4 /\ 0 \in 0..1
  OBVIOUS
<1> QED BY <1>3, <1>4, <1>5, <1>6, <1>7, <1>8, <1>9, Zenon DEF SerialInv, SerialTypeOK

(* When nothing is left to write, the port is as it was set.               *)
LEMMA Idle == ASSUME SerialInv, out = <<>>
  PROVE Left(0, 0) /\ Meanwhile(0, 0)
<1>1. PICK settings \in 0..4, fifo \in 0..1 : Left(settings, fifo) /\ Meanwhile(settings, fifo)
  BY DEF SerialInv
<1>2. settings + fifo <= 0
  BY <1>1 DEF Left
<1>3. settings = 0 /\ fifo = 0
  BY <1>2
<1> QED BY <1>1, <1>3

(* A call of puts.                                                         *)
LEMMA PutsLeaves ==
  ASSUME SerialInv, NEW stage \in 3..5, NEW part \in TextParts,
         Com!Puts(stage, Line, part), Left(0, 0), Meanwhile(0, 0),
         at' \in {at, at + 1}, at' <= 3 => part = "greeting",
         at <= 3 => stage = 3, stage = 3 => is_init[3] \/ at <= 3,
         interruptible' => stage = 3 /\ is_init[3],
         interruptible' \in BOOLEAN, panicked' \in BOOLEAN, at' \in 1..15, BootOK'
  PROVE SerialInv'
<1>1. /\ out' = Written(stage, part)
      /\ is_init' = IF stage = 5 THEN is_init ELSE [is_init EXCEPT ![stage] = TRUE]
      /\ UNCHANGED <<lcr, divisor, enabled, queue, line>>
  BY Zenon DEF Com!Puts, Com!uart, Written
<1>2. /\ is_init \in [{3, 4} -> BOOLEAN] /\ lcr \subseteq {"parity", "eight", "latch"}
      /\ enabled \in BOOLEAN /\ Len(queue) <= Com!Room /\ at \in 1..15
  BY DEF SerialInv, SerialTypeOK, Com!TypeOK
<1>3. /\ stage = 5 \/ is_init[stage] => IsWritten(out', part, 0, 0)
      /\ stage = 3 /\ ~is_init[3] => IsWritten(out', part, 4, 1)
      /\ stage = 4 /\ ~is_init[4] => IsWritten(out', part, 4, 0)
  BY <1>1, <1>2, WrittenIs, Zenon
<1>4. ASSUME NEW settings \in {0, 4}, NEW fifo \in {0, 1}, IsWritten(out', part, settings, fifo)
      PROVE Left(settings, fifo)'
  <2>1. ASSUME NEW i \in DOMAIN out'
        PROVE \/ i <= settings /\ IsSetting(out[i], i + 4 - settings)'
              \/ settings < i /\ i <= settings + fifo /\ IsFifo(out[i])'
              \/ settings + fifo < i /\ IsText(out[i])'
    <3>1. \/ i <= settings /\ IsSetting(out'[i], i + 4 - settings)
          \/ settings < i /\ i <= settings + fifo /\ IsFifo(out'[i])
          \/ settings + fifo < i /\ out'[i].port = Com!Com1 /\ out'[i].part = part
      BY <1>4 DEF IsWritten
    <3>2. CASE i <= settings /\ IsSetting(out'[i], i + 4 - settings)
      <4>1. IsSetting(out[i], i + 4 - settings)'
        BY <1>1, <3>2, Zenon DEF IsSetting
      <4> QED BY <3>2, <4>1
    <3>3. CASE settings < i /\ i <= settings + fifo /\ IsFifo(out'[i])
      BY <3>3 DEF IsFifo
    <3>4. CASE settings + fifo < i /\ out'[i].port = Com!Com1 /\ out'[i].part = part
      BY <3>4 DEF IsText
    <3> QED BY <3>1, <3>2, <3>3, <3>4
  <2> QED BY <1>4, <2>1 DEF Left, IsWritten
<1>5. /\ ~Com!Latched'
      /\ at >= 4 => AsSet'
      /\ at <= 3 => OnlyGreeting'
  <2>1. /\ ~Com!Latched
        /\ at >= 4 => AsSet
        /\ at <= 3 => OnlyGreeting
    BY DEF Meanwhile, SerialInv, QueueOK
  <2> QED BY <1>1, <2>1 DEF Com!Latched, AsSet, OnlyGreeting
<1> DEFINE Numbers == /\ 4 \notin 1..3 /\ 0 \notin 1..3 /\ ~(4 <= 2) /\ ~(4 <= 1)
                      /\ 4 # 0 /\ ~(0 > 0) /\ 0 # 1
<1>n. Numbers
  OBVIOUS
<1>6. \E settings \in 0..4, fifo \in 0..1 : Left(settings, fifo)' /\ Meanwhile(settings, fifo)'
  <2>1. CASE stage = 5 \/ is_init[stage]
    <3>1. ~(at = 3 /\ stage = 3)
      <4>1. at = 3 => ~is_init[3]
        BY Zenon DEF SerialInv, BootOK
      <4>2. stage = 3 => stage # 5
        OBVIOUS
      <4> QED BY <2>1, <4>1, <4>2, Zenon
    <3>2. at' >= 4 => at >= 4
      BY <1>2, <3>1
    <3>3. at' >= 4 => AsSet' /\ divisor' = Com!Rate /\ divisor'[1] = Com!Rate[1]
      BY <1>5, <3>2, Zenon DEF AsSet
    <3>4. Meanwhile(0, 0)'
      BY <1>5, <1>n, <3>3, Zenon DEF Meanwhile
    <3>5. Left(0, 0)'
      BY <1>3, <1>4, <2>1
    <3> QED BY <3>4, <3>5
  <2>2. CASE stage = 3 /\ ~is_init[3]
    <3>1. at <= 3 /\ ~interruptible'
      BY <2>2, Zenon
    <3>2. Meanwhile(4, 1)'
      BY <1>5, <1>n, <3>1, Zenon DEF Meanwhile
    <3>3. Left(4, 1)'
      BY <1>3, <1>4, <2>2
    <3> QED BY <3>2, <3>3
  <2>3. CASE stage = 4 /\ ~is_init[4]
    <3>1. at >= 4 /\ ~interruptible'
      BY <1>2, <2>3
    <3>2. Meanwhile(4, 0)'
      BY <1>5, <1>n, <3>1, Zenon DEF Meanwhile
    <3>3. Left(4, 0)'
      BY <1>3, <1>4, <2>3
    <3> QED BY <3>2, <3>3
  <2>4. stage = 3 \/ stage = 4 \/ stage = 5
    OBVIOUS
  <2> QED BY <2>1, <2>2, <2>3, <2>4, Zenon
<1>7. QueueOK' /\ SentAsSet'
  <2>1. QueueOK /\ SentAsSet
    BY DEF SerialInv
  <2>2. at' <= 3 => at <= 3
    BY <1>2
  <2> QED BY <1>1, <2>1, <2>2 DEF QueueOK, OnlyGreeting, AsSet, SentAsSet, Com!SentAsSet
<1>8. SerialTypeOK'
  <2>1. out' \in Seq(Accesses)
    BY <1>2, <1>3 DEF IsWritten
  <2>2. is_init' \in [{3, 4} -> BOOLEAN]
    BY <1>1, <1>2
  <2>3. Com!TypeOK'
    BY <1>1, <1>2, <2>1, <2>2, AccessPorts DEF Com!TypeOK, Com!Room
  <2> QED BY <2>1, <2>3, Zenon DEF SerialTypeOK
<1> QED BY <1>6, <1>7, <1>8, Zenon DEF SerialInv

(* What the device does with one access.                                   *)
Does(port, value, part) ==
    /\ port = Head(out).port /\ value = Head(out).value /\ part = Head(out).part
    /\ port \in 1016..1019
    /\ port = 1016 /\ ~Com!Latched => Com!Take(part) /\ UNCHANGED <<lcr, divisor, enabled>>
    /\ port = 1016 /\ Com!Latched =>
         divisor' = <<value, divisor[2]>> /\ UNCHANGED <<lcr, enabled, queue>>
    /\ port = 1017 => /\ divisor' = IF Com!Latched THEN <<divisor[1], value>> ELSE divisor
                      /\ UNCHANGED <<lcr, enabled, queue>>
    /\ port = 1018 => enabled' = TRUE /\ queue' = <<>> /\ UNCHANGED <<lcr, divisor>>
    /\ port = 1019 => lcr' = value /\ UNCHANGED <<divisor, enabled, queue>>

LEMMA AccessDoes == ASSUME out \in Seq(Accesses), Access
  PROVE \E port, value, part : Does(port, value, part)
<1>a. PICK port, value, part :
        port = Head(out).port /\ value = Head(out).value /\ part = Head(out).part
  OBVIOUS
<1>1. \/ /\ port - Com!Com1 = 0 /\ ~Com!Latched /\ Com!Take(part)
         /\ UNCHANGED <<lcr, divisor, enabled>>
      \/ /\ port - Com!Com1 = 0 /\ Com!Latched /\ divisor' = <<value, divisor[2]>>
         /\ UNCHANGED <<lcr, enabled, queue>>
      \/ /\ port - Com!Com1 = 1
         /\ divisor' = IF Com!Latched THEN <<divisor[1], value>> ELSE divisor
         /\ UNCHANGED <<lcr, enabled, queue>>
      \/ /\ port - Com!Com1 = 2 /\ enabled' = TRUE /\ queue' = <<>>
         /\ UNCHANGED <<lcr, divisor>>
      \/ /\ port - Com!Com1 = 3 /\ lcr' = value
         /\ UNCHANGED <<divisor, enabled, queue>>
  BY <1>a, Zenon DEF Access, Com!Access
<1>p. port \in 1016..1023
  <2>1. Head(out) = out[1] /\ 1 \in DOMAIN out
    BY DEF Access, Com!Access
  <2>2. out[1].port \in Com!Com1..(Com!Com1 + 7)
    BY <2>1, AccessPorts
  <2> QED BY <1>a, <2>1, <2>2 DEF Com!Com1
<1>2. /\ port - Com!Com1 = 0 <=> port = 1016
      /\ port - Com!Com1 = 1 <=> port = 1017
      /\ port - Com!Com1 = 2 <=> port = 1018
      /\ port - Com!Com1 = 3 <=> port = 1019
  BY <1>p DEF Com!Com1
<1>3. port = 1016 /\ ~Com!Latched => Com!Take(part) /\ UNCHANGED <<lcr, divisor, enabled>>
  BY <1>1, <1>2
<1>4. port = 1016 /\ Com!Latched =>
         divisor' = <<value, divisor[2]>> /\ UNCHANGED <<lcr, enabled, queue>>
  BY <1>1, <1>2
<1>5. port = 1017 => /\ divisor' = IF Com!Latched THEN <<divisor[1], value>> ELSE divisor
                     /\ UNCHANGED <<lcr, enabled, queue>>
  BY <1>1, <1>2
<1>6. port = 1018 => enabled' = TRUE /\ queue' = <<>> /\ UNCHANGED <<lcr, divisor>>
  <2>1. port = 1018 => /\ ~(port - Com!Com1 = 0) /\ ~(port - Com!Com1 = 1)
                       /\ ~(port - Com!Com1 = 3)
    BY <1>2
  <2> QED BY <1>1, <2>1, Zenon
<1>7. port = 1019 => lcr' = value /\ UNCHANGED <<divisor, enabled, queue>>
  BY <1>1, <1>2
<1>8. port \in 1016..1019
  BY <1>1, <1>2
<1>9. Does(port, value, part)
  BY <1>a, <1>3, <1>4, <1>5, <1>6, <1>7, <1>8, Zenon DEF Does
<1> QED BY <1>9

(* One access.                                                             *)
LEMMA AccessKeeps == ASSUME SerialInv, Access PROVE SerialInv'
<1>1. PICK settings \in 0..4, fifo \in 0..1 : Left(settings, fifo) /\ Meanwhile(settings, fifo)
  BY DEF SerialInv
<1>2. /\ out # <<>> /\ out' = Tail(out) /\ out \in Seq(Accesses)
      /\ at' = at /\ interruptible' = interruptible /\ panicked' = panicked
      /\ is_init' = is_init /\ line' = line
  BY DEF Access, Com!Access, boot, SerialInv, SerialTypeOK
<1>3. /\ out' \in Seq(Accesses) /\ Head(out) \in Accesses
      /\ settings > 0 => /\ IsSetting(Head(out), 5 - settings)
                         /\ Left(settings - 1, fifo)'
      /\ settings = 0 /\ fifo = 1 => IsFifo(Head(out)) /\ Left(0, 0)'
      /\ settings = 0 /\ fifo = 0 => IsText(Head(out)) /\ Left(0, 0)'
  BY <1>1, <1>2, LeftAdvances
<1>4. /\ is_init \in [{3, 4} -> BOOLEAN] /\ lcr \subseteq {"parity", "eight", "latch"}
      /\ enabled \in BOOLEAN /\ Len(queue) <= Com!Room /\ at \in 1..15
      /\ interruptible \in BOOLEAN /\ panicked \in BOOLEAN
      /\ queue \in Seq(TextParts)
  BY DEF SerialInv, SerialTypeOK, Com!TypeOK, QueueOK
<1>0. PICK port, value, part : Does(port, value, part)
  BY <1>2, AccessDoes, Zenon
<1>5. port = Head(out).port /\ value = Head(out).value /\ part = Head(out).part
  BY <1>0, Zenon DEF Does
<1>6. port \in 1016..1023
  BY <1>3, <1>5 DEF Accesses
<1>7. /\ port = 1016 /\ ~Com!Latched => Com!Take(part) /\ UNCHANGED <<lcr, divisor, enabled>>
      /\ port = 1016 /\ Com!Latched =>
           divisor' = <<value, divisor[2]>> /\ UNCHANGED <<lcr, enabled, queue>>
      /\ port = 1017 => /\ divisor' = IF Com!Latched THEN <<divisor[1], value>> ELSE divisor
                        /\ UNCHANGED <<lcr, enabled, queue>>
      /\ port = 1018 => enabled' = TRUE /\ queue' = <<>> /\ UNCHANGED <<lcr, divisor>>
      /\ port = 1019 => lcr' = value /\ UNCHANGED <<divisor, enabled, queue>>
  BY <1>0, Zenon DEF Does
<1>8. /\ Com!Latched <=> settings \in 1..3
      /\ at >= 4 => /\ settings <= 2 => divisor[1] = 3
                    /\ settings <= 1 => divisor = <<3, 0>>
                    /\ settings = 0 => AsSet
      /\ settings > 0 /\ fifo = 0 => AsSet
      /\ fifo = 1 => OnlyGreeting
      /\ interruptible => settings = 0 /\ fifo = 0
  BY <1>1 DEF Meanwhile, Com!Rate
<1>9. ASSUME NEW s \in 0..4, NEW f \in 0..1, Left(s, f)', Meanwhile(s, f)', QueueOK',
             lcr' \subseteq {"parity", "eight", "latch"}, enabled' \in BOOLEAN,
             (Len(queue) <= Com!Room)'
      PROVE SerialInv'
  <2>1. Com!TypeOK'
    BY <1>2, <1>3, <1>4, <1>9, AccessPorts DEF Com!TypeOK
  <2>2. SerialTypeOK'
    BY <1>2, <1>3, <1>4, <2>1, Zenon DEF SerialTypeOK
  <2>3. BootOK' /\ SentAsSet'
    BY <1>2, Zenon DEF SerialInv, BootOK, SentAsSet, Com!SentAsSet
  <2> QED BY <1>9, <2>2, <2>3, Zenon DEF SerialInv
<1>10. ASSUME UNCHANGED queue, AsSet => AsSet' PROVE QueueOK' /\ (OnlyGreeting => OnlyGreeting')
  BY <1>2, <1>10, Zenon DEF SerialInv, QueueOK, OnlyGreeting
<1>11. ASSUME UNCHANGED <<queue, enabled>> PROVE enabled' \in BOOLEAN /\ (Len(queue) <= Com!Room)'
  BY <1>4, <1>11, Zenon DEF Com!Room
<1> DEFINE Numbers == /\ 3 \in 1..3 /\ 2 \in 1..3 /\ 1 \in 1..3 /\ 0 \notin 1..3
                      /\ ~(3 <= 2) /\ ~(3 <= 1) /\ ~(2 <= 1) /\ 3 # 0 /\ 2 # 0 /\ 1 # 0
                      /\ ~(0 > 0) /\ 0 # 1
                      /\ 3 \in 0..4 /\ 2 \in 0..4 /\ 1 \in 0..4 /\ 0 \in 0..4 /\ 0 \in 0..1
<1>n. Numbers
  OBVIOUS
<1>12. CASE settings = 4
  <2>1. port = 1019 /\ value = lcr \union {"latch"} /\ Left(3, fifo)'
    <3>1. IsSetting(Head(out), 1) /\ Left(3, fifo)'
      BY <1>3, <1>12
    <3> QED BY <1>5, <3>1 DEF IsSetting, Com!Com1
  <2>2. lcr' = lcr \union {"latch"} /\ UNCHANGED <<divisor, enabled, queue>>
    BY <1>7, <2>1
  <2>3. AsSet => AsSet'
    BY <2>2 DEF AsSet
  <2>4. QueueOK' /\ (OnlyGreeting => OnlyGreeting') /\ enabled' \in BOOLEAN
        /\ (Len(queue) <= Com!Room)'
    BY <1>10, <1>11, <2>2, <2>3, Zenon
  <2>5. Com!Latched' /\ lcr' \subseteq {"parity", "eight", "latch"}
    BY <1>4, <2>2 DEF Com!Latched
  <2>6. ~interruptible /\ (fifo = 0 => AsSet)
    BY <1>8, <1>12
  <2>7. Meanwhile(3, fifo)'
    BY <1>2, <1>8, <1>n, <2>3, <2>4, <2>5, <2>6, Zenon DEF Meanwhile
  <2> QED BY <1>9, <1>n, <2>1, <2>4, <2>5, <2>7, Zenon
<1>13. CASE settings = 3
  <2>1. port = 1016 /\ value = 3 /\ Left(2, fifo)'
    <3>1. IsSetting(Head(out), 2) /\ Left(2, fifo)'
      BY <1>3, <1>13
    <3> QED BY <1>5, <3>1 DEF IsSetting, Com!Com1, Com!Rate
  <2>2. Com!Latched
    BY <1>8, <1>13
  <2>3. divisor' = <<3, divisor[2]>> /\ UNCHANGED <<lcr, enabled, queue>>
    BY <1>7, <2>1, <2>2
  <2>4. AsSet => AsSet'
    BY <2>3 DEF AsSet, Com!Rate
  <2>5. QueueOK' /\ (OnlyGreeting => OnlyGreeting') /\ enabled' \in BOOLEAN
        /\ (Len(queue) <= Com!Room)'
    BY <1>10, <1>11, <2>3, <2>4, Zenon
  <2>6. Com!Latched' /\ lcr' \subseteq {"parity", "eight", "latch"}
    BY <1>4, <2>2, <2>3 DEF Com!Latched
  <2>7. ~interruptible /\ (fifo = 0 => AsSet)
    BY <1>8, <1>13
  <2>8. divisor'[1] = Com!Rate[1]
    BY <2>3 DEF Com!Rate
  <2>9. Meanwhile(2, fifo)'
    BY <1>2, <1>8, <1>n, <2>4, <2>5, <2>6, <2>7, <2>8, Zenon DEF Meanwhile
  <2> QED BY <1>9, <1>n, <2>1, <2>5, <2>6, <2>9, Zenon
<1>14. CASE settings = 2
  <2>1. port = 1017 /\ value = 0 /\ Left(1, fifo)'
    <3>1. IsSetting(Head(out), 3) /\ Left(1, fifo)'
      BY <1>3, <1>14
    <3> QED BY <1>5, <3>1 DEF IsSetting, Com!Com1, Com!Rate
  <2>2. Com!Latched
    BY <1>8, <1>14
  <2>3. divisor' = <<divisor[1], 0>> /\ UNCHANGED <<lcr, enabled, queue>>
    BY <1>7, <2>1, <2>2
  <2>4. AsSet => AsSet'
    BY <2>3 DEF AsSet, Com!Rate
  <2>5. QueueOK' /\ (OnlyGreeting => OnlyGreeting') /\ enabled' \in BOOLEAN
        /\ (Len(queue) <= Com!Room)'
    BY <1>10, <1>11, <2>3, <2>4, Zenon
  <2>6. Com!Latched' /\ lcr' \subseteq {"parity", "eight", "latch"}
    BY <1>4, <2>2, <2>3 DEF Com!Latched
  <2>7. ~interruptible /\ (fifo = 0 => AsSet)
    BY <1>8, <1>14
  <2>8. at >= 4 => divisor' = Com!Rate /\ divisor'[1] = Com!Rate[1]
    BY <1>8, <1>14, <2>3 DEF Com!Rate
  <2>9. Meanwhile(1, fifo)'
    BY <1>2, <1>8, <1>n, <2>4, <2>5, <2>6, <2>7, <2>8, Zenon DEF Meanwhile
  <2> QED BY <1>9, <1>n, <2>1, <2>5, <2>6, <2>9, Zenon
<1>15. CASE settings = 1
  <2>1. port = 1019 /\ value \subseteq {"eight"} /\ Left(0, fifo)'
    <3>1. IsSetting(Head(out), 4) /\ Left(0, fifo)'
      BY <1>3, <1>15
    <3> QED BY <1>5, <3>1 DEF IsSetting, Com!Com1, Com!Rate
  <2>2. lcr' = value /\ UNCHANGED <<divisor, enabled, queue>>
    BY <1>7, <2>1
  <2>3. AsSet => AsSet'
    BY <2>1, <2>2 DEF AsSet
  <2>4. QueueOK' /\ (OnlyGreeting => OnlyGreeting') /\ enabled' \in BOOLEAN
        /\ (Len(queue) <= Com!Room)'
    BY <1>10, <1>11, <2>2, <2>3, Zenon
  <2>5. ~Com!Latched' /\ lcr' \subseteq {"parity", "eight", "latch"}
    BY <2>1, <2>2 DEF Com!Latched
  <2>6. ~interruptible
    BY <1>8, <1>15
  <2>7. at >= 4 => AsSet' /\ divisor' = Com!Rate /\ divisor'[1] = Com!Rate[1]
    BY <1>8, <1>15, <2>1, <2>2 DEF AsSet, Com!Rate
  <2>8. Meanwhile(0, fifo)'
    BY <1>2, <1>8, <1>n, <2>4, <2>5, <2>6, <2>7, Zenon DEF Meanwhile
  <2> QED BY <1>9, <1>n, <2>1, <2>4, <2>5, <2>8, Zenon
<1>16. CASE settings = 0 /\ fifo = 1
  <2>1. port = 1018 /\ Left(0, 0)'
    BY <1>3, <1>5, <1>16 DEF IsFifo, Com!Com1
  <2>2. enabled' = TRUE /\ queue' = <<>> /\ UNCHANGED <<lcr, divisor>>
    BY <1>7, <2>1
  <2>3. OnlyGreeting' /\ queue' \in Seq(TextParts) /\ Len(queue') = 0
    BY <2>2 DEF OnlyGreeting
  <2>4. enabled' \in BOOLEAN /\ (Len(queue) <= Com!Room)'
    BY <2>2, <2>3, PortsAssumption DEF Com!Room
  <2>5. ~Com!Latched' /\ lcr' \subseteq {"parity", "eight", "latch"}
    BY <1>4, <1>8, <1>16, <2>2 DEF Com!Latched
  <2>6. at >= 4 => AsSet' /\ divisor' = Com!Rate /\ divisor'[1] = Com!Rate[1]
    BY <1>8, <1>16, <2>2 DEF AsSet, Com!Rate
  <2>7. QueueOK'
    BY <2>3, Zenon DEF QueueOK
  <2>8. Meanwhile(0, 0)'
    BY <1>2, <1>n, <2>5, <2>6, Zenon DEF Meanwhile
  <2> QED BY <1>9, <1>n, <2>1, <2>4, <2>5, <2>7, <2>8, Zenon
<1>17. CASE settings = 0 /\ fifo = 0
  <2>1. port = 1016 /\ part \in TextParts /\ Left(0, 0)' /\ (at <= 3 => part = "greeting")
    BY <1>3, <1>5, <1>17 DEF IsText, Com!Com1
  <2>2. ~Com!Latched
    BY <1>8, <1>17
  <2>3. Com!Take(part) /\ UNCHANGED <<lcr, divisor, enabled>>
    BY <1>7, <2>1, <2>2, Zenon
  <2>4. /\ queue' \in Seq(TextParts) /\ Len(queue') <= Com!Room
        /\ OnlyGreeting /\ part = "greeting" => OnlyGreeting'
    BY <1>4, <2>1, <2>3, TakeText, Zenon
  <2>5. enabled' \in BOOLEAN /\ (Len(queue) <= Com!Room)'
    BY <1>4, <2>3, <2>4, Zenon DEF Com!Room
  <2>6. ~Com!Latched' /\ lcr' \subseteq {"parity", "eight", "latch"}
    BY <1>4, <2>2, <2>3, Zenon DEF Com!Latched
  <2>7. at >= 4 => AsSet' /\ divisor' = Com!Rate /\ divisor'[1] = Com!Rate[1]
    BY <1>8, <1>17, <2>3 DEF AsSet, Com!Rate
  <2>8. QueueOK'
    <3>1. at <= 3 => OnlyGreeting'
      BY <2>1, <2>4, Zenon DEF SerialInv, QueueOK
    <3>2. at <= 3 \/ at >= 4
      BY <1>4
    <3> QED BY <1>2, <2>4, <2>7, <3>1, <3>2, Zenon DEF QueueOK
  <2>9. Meanwhile(0, 0)'
    BY <1>2, <1>n, <2>6, <2>7, Zenon DEF Meanwhile
  <2> QED BY <1>9, <1>n, <2>1, <2>5, <2>6, <2>8, <2>9, Zenon
<1> QED BY <1>12, <1>13, <1>14, <1>15, <1>16, <1>17

(* The port sends the first byte that waits.                               *)
LEMMA TransmitKeeps == ASSUME SerialInv, Transmit PROVE SerialInv'
<1>1. PICK settings \in 0..4, fifo \in 0..1 : Left(settings, fifo) /\ Meanwhile(settings, fifo)
  BY DEF SerialInv
<1>2. /\ queue # <<>> /\ queue' = Tail(queue)
      /\ line' = [part |-> Head(queue), rate |-> divisor, format |-> lcr \ {"latch"}]
      /\ UNCHANGED <<at, interruptible, panicked, is_init, out, lcr, divisor, enabled>>
  BY DEF Transmit, Com!Transmit, Com!processor, boot
<1>3. /\ queue \in Seq(TextParts) /\ Len(queue) <= Com!Room /\ enabled \in BOOLEAN
      /\ OnlyGreeting \/ AsSet
  BY DEF SerialInv, SerialTypeOK, QueueOK, Com!TypeOK
<1>4. /\ queue' \in Seq(TextParts) /\ Len(queue') = Len(queue) - 1 /\ Head(queue) = queue[1]
      /\ \A i \in 1..Len(queue') : queue'[i] = queue[i + 1]
      /\ Len(queue) \in Nat /\ Len(queue) > 0
      /\ DOMAIN queue = 1..Len(queue) /\ DOMAIN queue' = 1..Len(queue')
  <2>1. /\ queue' \in Seq(TextParts) /\ Len(queue') = Len(queue) - 1
        /\ \A i \in 1..Len(queue') : queue'[i] = queue[i + 1]
    BY <1>2, <1>3, HeadTailProperties
  <2> QED BY <1>2, <1>3, <2>1, LenProperties, EmptySeq
<1>5. OnlyGreeting => OnlyGreeting' /\ line'.part = "greeting"
  BY <1>2, <1>4 DEF OnlyGreeting
<1>6. (Len(queue) <= Com!Room)'
  <2>1. Com!Room \in Nat /\ Com!Room' = Com!Room
    BY <1>2, <1>3, PortsAssumption DEF Com!Room
  <2> QED BY <1>3, <1>4, <2>1
<1>7. AsSet => AsSet' /\ line'.rate = Com!Rate /\ "parity" \notin line'.format
  BY <1>2 DEF AsSet
<1>8. SentAsSet'
  BY <1>3, <1>5, <1>7, Zenon DEF SentAsSet, Com!SentAsSet
<1>9. QueueOK'
  BY <1>2, <1>3, <1>4, <1>5, <1>7, Zenon DEF SerialInv, QueueOK
<1>10. SerialTypeOK' /\ BootOK'
  BY <1>2, <1>6, Zenon DEF SerialInv, SerialTypeOK, Com!TypeOK, BootOK
<1>11. Left(settings, fifo)'
  BY <1>1, <1>2, Zenon DEF Left, IsSetting, IsFifo, IsText
<1>12. Meanwhile(settings, fifo)'
  BY <1>1, <1>2, <1>5, <1>7, Zenon DEF Meanwhile, AsSet, Com!Latched
<1> QED BY <1>8, <1>9, <1>10, <1>11, <1>12, Zenon DEF SerialInv

(* A line of the boot, or the report of an interrupt.                      *)
LEMMA PutsKeeps == ASSUME SerialInv, Puts PROVE SerialInv'
<1>1. /\ at \in 1..14 /\ at' = at + 1 /\ out = <<>> /\ UNCHANGED <<interruptible, panicked>>
      /\ Boot[at].does = "puts" /\ Com!Puts(Boot[at].stage, Line, Boot[at].part)
  <2>1. Len(Boot) = 14
    BY BootIs, Zenon
  <2> QED BY <2>1 DEF Puts, Ready, Go, SerialInv, SerialTypeOK
<1>2. /\ at \in {1, 3, 6, 8, 11, 12, 14}
      /\ Boot[at].stage = IF at <= 8 THEN 3 ELSE IF at <= 12 THEN 4 ELSE 5
      /\ Boot[at].part \in TextParts
      /\ at = 1 => Boot[at].part = "greeting"
  BY <1>1, BootDoes
<1>3. PICK stage, part : stage = Boot[at].stage /\ part = Boot[at].part
  OBVIOUS
<1>4. /\ stage \in 3..5 /\ part \in TextParts /\ Com!Puts(stage, Line, part)
      /\ at' \in {at, at + 1} /\ (at' <= 3 => part = "greeting")
      /\ at <= 3 => stage = 3
      /\ stage = 3 => at <= 8
      /\ at \in 5..9 => stage = 3
      /\ at' \in 1..15
  <2>1. Com!Puts(stage, Line, part)
    BY <1>1, <1>3, Zenon
  <2> QED BY <1>1, <1>2, <1>3, <2>1
<1>5. /\ at >= 4 => is_init[3]
      /\ interruptible => at \in 5..9
      /\ interruptible \in BOOLEAN /\ panicked \in BOOLEAN
      /\ is_init \in [{3, 4} -> BOOLEAN]
  BY Zenon DEF SerialInv, BootOK, SerialTypeOK, Com!TypeOK
<1>6. stage = 3 => is_init[3] \/ at <= 3
  <2>1. at >= 4 \/ at <= 3
    BY <1>1
  <2> QED BY <1>5, <2>1, Zenon
<1>7. interruptible' => stage = 3 /\ is_init[3]
  <2>1. at \in 5..9 => at >= 4
    OBVIOUS
  <2> QED BY <1>1, <1>4, <1>5, <2>1, Zenon
<1>8. BootOK'
  <2>1. at' # 3
    BY <1>1, <1>2
  <2>2. at' >= 4 => is_init'[3]
    <3>1. is_init' = IF stage = 5 THEN is_init ELSE [is_init EXCEPT ![stage] = TRUE]
      BY <1>4, Zenon DEF Com!Puts
    <3>2. CASE at >= 4
      <4>1. is_init[3]
        BY <1>5, <3>2, Zenon
      <4> QED BY <1>4, <1>5, <3>1, <4>1
    <3>3. CASE at <= 3
      BY <1>4, <1>5, <3>1, <3>3
    <3> QED BY <1>1, <3>2, <3>3
  <2>3. interruptible' => at' \in 5..9
    <3>1. at \in 5..9 => at' \in 5..9
      BY <1>1, <1>2
    <3> QED BY <1>1, <1>5, <3>1, Zenon
  <2> QED BY <2>1, <2>2, <2>3, Zenon DEF BootOK
<1>9. Left(0, 0) /\ Meanwhile(0, 0)
  BY <1>1, Idle
<1>10. interruptible' \in BOOLEAN /\ panicked' \in BOOLEAN
  BY <1>1, <1>5, Zenon
<1> QED BY <1>4, <1>6, <1>7, <1>8, <1>9, <1>10, PutsLeaves, Zenon

LEMMA PanicKeeps == ASSUME SerialInv, InterruptPanic PROVE SerialInv'
<1>1. /\ interruptible /\ ~interruptible' /\ panicked' = TRUE /\ at' = at
      /\ interruptible' = FALSE /\ Com!Puts(3, Line, "panic")
  BY Zenon DEF InterruptPanic
<1>2. PICK settings \in 0..4, fifo \in 0..1 : Left(settings, fifo) /\ Meanwhile(settings, fifo)
  BY DEF SerialInv
<1>3. Left(0, 0) /\ Meanwhile(0, 0)
  <2>1. settings = 0 /\ fifo = 0
    BY <1>1, <1>2, Zenon DEF Meanwhile
  <2> QED BY <1>2, <2>1
<1>4. /\ at \in 5..9 /\ at \in 1..15 /\ is_init \in [{3, 4} -> BOOLEAN]
      /\ at >= 4 => is_init[3]
  BY <1>1, Zenon DEF SerialInv, BootOK, SerialTypeOK, Com!TypeOK
<1>5. at >= 4 /\ at # 3 /\ ~(at <= 3)
  BY <1>4
<1>6. /\ 3 \in 3..5 /\ "panic" \in TextParts /\ at' \in {at, at + 1} /\ at' \in 1..15
  BY <1>1, <1>4 DEF TextParts
<1>7. BootOK'
  <2>1. is_init' = [is_init EXCEPT ![3] = TRUE]
    <3>1. is_init' = IF 3 = 5 THEN is_init ELSE [is_init EXCEPT ![3] = TRUE]
      BY <1>1, Zenon DEF Com!Puts
    <3> QED BY <3>1
  <2>2. is_init'[3]
    BY <1>4, <2>1
  <2> QED BY <1>1, <1>5, <2>2, Zenon DEF BootOK
<1>8. interruptible' \in BOOLEAN /\ panicked' \in BOOLEAN
  BY <1>1, Zenon
<1> QED BY <1>1, <1>3, <1>4, <1>5, <1>6, <1>7, <1>8, PutsLeaves, Zenon

LEMMA TypeKept ==
  ASSUME SerialTypeOK, is_init' \in [{3, 4} -> BOOLEAN], UNCHANGED <<out, lcr, enabled, queue>>
  PROVE Com!TypeOK'
<1>1. Com!Room' = Com!Room
  BY DEF Com!Room
<1>2. (Len(queue) <= Com!Room)'
  BY <1>1, Zenon DEF SerialTypeOK, Com!TypeOK
<1> QED BY <1>2, Zenon DEF SerialTypeOK, Com!TypeOK

(* Steps that write nothing to the port.                                   *)
LEMMA OtherKeeps ==
  ASSUME SerialInv, UNCHANGED <<out, lcr, divisor, enabled, queue, line, panicked>>,
         \/ UNCHANGED <<at, interruptible, is_init>>
         \/ Ready /\ at' = at + 1 /\ (Programmed \/ Memreset \/ Interruptible)
  PROVE SerialInv'
<1>1. PICK settings \in 0..4, fifo \in 0..1 : Left(settings, fifo) /\ Meanwhile(settings, fifo)
  BY DEF SerialInv
<1>2. CASE UNCHANGED <<at, interruptible, is_init>>
  <2>1. UNCHANGED <<at, interruptible, is_init, out, lcr, divisor, enabled, queue, line, panicked>>
    BY <1>2
  <2>2. SerialTypeOK'
    <3>1. SerialTypeOK /\ is_init \in [{3, 4} -> BOOLEAN]
      BY Zenon DEF SerialInv, SerialTypeOK, Com!TypeOK
    <3>2. Com!TypeOK'
      BY <2>1, <3>1, TypeKept
    <3> QED BY <2>1, <3>1, <3>2, Zenon DEF SerialTypeOK
  <2>5. BootOK' /\ QueueOK' /\ SentAsSet'
    BY <2>1, Zenon DEF SerialInv, BootOK, QueueOK, SentAsSet, Com!SentAsSet, OnlyGreeting, AsSet
  <2>3. Left(settings, fifo)'
    BY <1>1, <2>1, Zenon DEF Left, IsSetting, IsFifo, IsText
  <2>4. Meanwhile(settings, fifo)'
    BY <1>1, <2>1, Zenon DEF Meanwhile, AsSet, OnlyGreeting, Com!Latched
  <2> QED BY <2>2, <2>3, <2>4, <2>5, Zenon DEF SerialInv
<1>3. CASE Ready /\ at' = at + 1 /\ (Programmed \/ Memreset \/ Interruptible)
  <2>1. /\ UNCHANGED <<out, lcr, divisor, enabled, queue, line, panicked>>
        /\ out = <<>> /\ at \in 1..14 /\ at' = at + 1
    <3>1. Len(Boot) = 14
      BY BootIs, Zenon
    <3> QED BY <1>3, <3>1 DEF Ready, SerialInv, SerialTypeOK
  <2>2. /\ SerialTypeOK /\ BootOK /\ QueueOK /\ SentAsSet
        /\ is_init \in [{3, 4} -> BOOLEAN] /\ interruptible \in BOOLEAN
        /\ at >= 4 => is_init[3]
        /\ interruptible => at \in 5..9
    BY Zenon DEF SerialInv, BootOK, SerialTypeOK, Com!TypeOK
  <2>3. /\ at \in {2, 4, 5, 7, 9, 10, 13}
        /\ is_init' = IF at = 2 THEN [is_init EXCEPT ![3] = FALSE]
                      ELSE IF at = 10 THEN [is_init EXCEPT ![4] = FALSE] ELSE is_init
        /\ at = 4 => interruptible'
        /\ at \in {9, 13} => ~interruptible'
        /\ at \notin {4, 9, 13} => (interruptible' <=> interruptible)
        /\ interruptible' \in BOOLEAN
    <3>1. CASE Programmed
      <4>1. Boot[at].does = "dma" /\ UNCHANGED <<interruptible, is_init>>
        BY <3>1 DEF Programmed, serial
      <4>2. at \in {5, 7}
        BY <2>1, <4>1, BootDoes
      <4>3. /\ at # 2 /\ at # 10 /\ at # 4 /\ at \notin {9, 13} /\ at \in {2, 4, 5, 7, 9, 10, 13}
        BY <4>2
      <4> QED BY <2>2, <4>1, <4>3, Zenon
    <3>2. CASE Memreset
      <4>1. /\ Boot[at].does \in {"memreset", "reset_bss"} /\ UNCHANGED interruptible
            /\ is_init' = [is_init EXCEPT ![IF Boot[at].does = "memreset" THEN 3 ELSE 4] = FALSE]
        BY <3>2 DEF Memreset
      <4>2. CASE Boot[at].does = "memreset"
        <5>1. at = 2
          BY <2>1, <4>2, BootDoes
        <5>2. /\ at = 2 /\ at # 4 /\ at \notin {9, 13} /\ at \in {2, 4, 5, 7, 9, 10, 13}
          BY <5>1
        <5> QED BY <2>2, <4>1, <4>2, <5>2, Zenon
      <4>3. CASE Boot[at].does = "reset_bss"
        <5>1. at = 10
          BY <2>1, <4>3, BootDoes
        <5>2. /\ at = 10 /\ at # 2 /\ at # 4 /\ at \notin {9, 13} /\ at \in {2, 4, 5, 7, 9, 10, 13}
          BY <5>1
        <5>3. Boot[at].does # "memreset"
          BY <4>3
        <5> QED BY <2>2, <4>1, <5>2, <5>3, Zenon
      <4> QED BY <4>1, <4>2, <4>3
    <3>3. CASE Interruptible
      <4>1. /\ Boot[at].does \in {"sti", "load_protected", "cli"} /\ UNCHANGED is_init
            /\ interruptible' = (Boot[at].does = "sti")
        BY <3>3 DEF Interruptible, serial
      <4>2. at \in {4, 9, 13} /\ (Boot[at].does = "sti" <=> at = 4)
        BY <2>1, <4>1, BootDoes
      <4>3. /\ at # 2 /\ at # 10 /\ at \in {2, 4, 5, 7, 9, 10, 13}
            /\ at \in {9, 13} => at # 4
            /\ at \in {4, 9, 13}
        BY <4>2
      <4> QED BY <4>1, <4>2, <4>3, Zenon
    <3> QED BY <1>3, <3>1, <3>2, <3>3, Zenon
  <2>4. /\ at' \in 1..15
        /\ at <= 3 => at = 2 /\ at' = 3
        /\ at >= 4 => at' # 3 /\ at' >= 4
        /\ at' >= 4 => at >= 4
        /\ at' <= 3 => at <= 3
        /\ at <= 3 \/ at >= 4
    BY <2>1, <2>3
  <2>5. /\ is_init' \in [{3, 4} -> BOOLEAN]
        /\ at = 2 => ~is_init'[3]
        /\ at # 2 => is_init'[3] = is_init[3]
    BY <2>2, <2>3
  <2>6. interruptible' => at' \in 5..9
    <3>1. /\ at = 4 => at' \in 5..9
          /\ at \in 5..9 /\ at # 9 => at' \in 5..9
          /\ at \in {9, 13} \/ at = 4 \/ at \notin {4, 9, 13}
          /\ at = 9 => at \in {9, 13}
      BY <2>1
    <3> QED BY <2>2, <2>3, <3>1, Zenon
  <2>7. BootOK'
    <3>1. at >= 4 => at # 2 /\ at' # 3
      BY <2>1
    <3> QED BY <2>2, <2>4, <2>5, <2>6, <3>1, Zenon DEF BootOK
  <2>8. SerialTypeOK'
    <3>1. Com!TypeOK'
      BY <2>1, <2>2, <2>5, TypeKept
    <3> QED BY <2>1, <2>2, <2>3, <2>4, <3>1, Zenon DEF SerialTypeOK
  <2>9. QueueOK' /\ SentAsSet'
    BY <2>1, <2>2, <2>4, Zenon DEF QueueOK, OnlyGreeting, AsSet, SentAsSet, Com!SentAsSet
  <2>10. Left(0, 0) /\ Meanwhile(0, 0)
    BY <2>1, Idle
  <2>11. Left(0, 0)'
    <3>1. DOMAIN out' = {} /\ Len(out') = 0
      BY <2>1
    <3> QED BY <3>1 DEF Left
  <2>12. Meanwhile(0, 0)'
    <3>1. 0 \notin 1..3 /\ ~(0 > 0) /\ 0 # 1
      OBVIOUS
    <3> QED BY <2>1, <2>4, <2>10, <3>1, Zenon DEF Meanwhile, AsSet, OnlyGreeting, Com!Latched
  <2>13. 0 \in 0..4 /\ 0 \in 0..1
    OBVIOUS
  <2> QED BY <2>7, <2>8, <2>9, <2>11, <2>12, <2>13, Zenon DEF SerialInv
<1> QED BY <1>2, <1>3

-----------------------------------------------------------------------------
(* The DMA controllers.                                                    *)

(* The bytes that floppy_dma and floppy_dma_setup_read write.              *)
LEMMA ProgramBytes ==
  ASSUME chan \in 0..2
  PROVE LET program == Controllers!Program
            page0 == IF chan = 0 THEN 135 ELSE IF chan = 1 THEN 131 ELSE 129
        IN  /\ Len(program) = 12
            /\ program[1] = <<10, chan + 4>> /\ program[2] = <<12, 255>>
            /\ program[3] = <<2 * chan, 0>> /\ program[4] = <<2 * chan, 16>>
            /\ program[5] = <<12, 255>>
            /\ program[6] = <<2 * chan + 1, 255>> /\ program[7] = <<2 * chan + 1, 2>>
            /\ program[8] = <<page0, 0>> /\ program[9] = <<10, chan>>
            /\ program[10] = <<10, chan + 4>> /\ program[11] = <<11, chan + 84>>
            /\ program[12] = <<10, chan>>
<1> DEFINE page0 == IF chan = 0 THEN 135 ELSE IF chan = 1 THEN 131 ELSE 129
           S == Nat \X Nat
<1>1. /\ chan \in {0, 1, 2} /\ chan % 4 = chan /\ ~(chan > 3)
      /\ chan + 4 * 1 + 16 * 1 + 32 * 0 + 64 * 1 = chan + 84
  OBVIOUS
<1>2. /\ Controllers!PortAddress[chan + 1] = 2 * chan /\ Controllers!PortCount[chan + 1] = 2 * chan + 1
      /\ Controllers!PortPage[chan + 1] = page0
  BY <1>1 DEF Controllers!PortAddress, Controllers!PortCount, Controllers!PortPage
<1>3. /\ Controllers!Buffer % 256 = 0 /\ Controllers!Buffer \div 256 = 16
      /\ (Controllers!Bytes - 1) % 256 = 255 /\ (Controllers!Bytes - 1) \div 256 = 2
  BY DEF Controllers!Buffer, Controllers!Bytes
<1>4. /\ Controllers!MaskChannel(chan) = << <<10, chan + 4>> >>
      /\ Controllers!UnmaskChannel(chan) = << <<10, chan>> >>
      /\ Controllers!ResetFlipflop(chan) = << <<12, 255>> >>
  BY <1>1 DEF Controllers!MaskChannel, Controllers!UnmaskChannel, Controllers!ResetFlipflop
<1>5. /\ Controllers!SetupAddress(chan, Controllers!Buffer) = << <<2 * chan, 0>>, <<2 * chan, 16>> >>
      /\ Controllers!SetupCount(chan, Controllers!Bytes - 1) = << <<2 * chan + 1, 255>>, <<2 * chan + 1, 2>> >>
      /\ Controllers!SetupPage(chan, 0) = << <<page0, 0>> >>
  BY <1>2, <1>3, Zenon DEF Controllers!SetupAddress, Controllers!SetupCount, Controllers!SetupPage,
                           Controllers!Word
<1>6. Controllers!SetMode(chan, 1, 0, 1, 1) = << <<11, chan + 84>> >>
  BY <1>1 DEF Controllers!SetMode
<1> HIDE DEF page0
<1>7. PICK a, b, c, e, f, g, m :
        /\ a = << <<10, chan + 4>> >> /\ b = << <<12, 255>> >>
        /\ c = << <<2 * chan, 0>>, <<2 * chan, 16>> >>
        /\ e = << <<2 * chan + 1, 255>>, <<2 * chan + 1, 2>> >>
        /\ f = << <<page0, 0>> >> /\ g = << <<10, chan>> >> /\ m = << <<11, chan + 84>> >>
  OBVIOUS
<1>8. Controllers!Program = (a \o b \o c \o b \o e \o f \o g) \o (a \o m \o g)
  BY <1>4, <1>5, <1>6, <1>7, Zenon DEF Controllers!Program, Controllers!FloppyDma, Controllers!FloppyDmaSetupRead
<1>9. page0 \in Nat /\ 2 * chan \in Nat /\ 2 * chan + 1 \in Nat /\ chan + 84 \in Nat /\ chan + 4 \in Nat
  BY DEF page0
<1>10. /\ a \in Seq(S) /\ b \in Seq(S) /\ c \in Seq(S) /\ e \in Seq(S) /\ f \in Seq(S)
       /\ g \in Seq(S) /\ m \in Seq(S)
       /\ Len(a) = 1 /\ Len(b) = 1 /\ Len(c) = 2 /\ Len(e) = 2 /\ Len(f) = 1 /\ Len(g) = 1 /\ Len(m) = 1
  BY <1>7, <1>9
<1>11. /\ a[1] = <<10, chan + 4>> /\ b[1] = <<12, 255>> /\ c[1] = <<2 * chan, 0>> /\ c[2] = <<2 * chan, 16>>
       /\ e[1] = <<2 * chan + 1, 255>> /\ e[2] = <<2 * chan + 1, 2>> /\ f[1] = <<page0, 0>>
       /\ g[1] = <<10, chan>> /\ m[1] = <<11, chan + 84>>
  BY <1>7
<1> HIDE DEF S
<1>12. PICK r : r = Controllers!Program
  OBVIOUS
<1>13. /\ Len(r) = 12 /\ r[1] = a[1] /\ r[2] = b[1] /\ r[3] = c[1] /\ r[4] = c[2]
       /\ r[5] = b[1] /\ r[6] = e[1] /\ r[7] = e[2] /\ r[8] = f[1] /\ r[9] = g[1]
       /\ r[10] = a[1] /\ r[11] = m[1] /\ r[12] = g[1]
  <2>1. PICK s2 : s2 = a \o b
    OBVIOUS
  <2>2. PICK s4 : s4 = s2 \o c
    OBVIOUS
  <2>3. PICK s5 : s5 = s4 \o b
    OBVIOUS
  <2>4. PICK s7 : s7 = s5 \o e
    OBVIOUS
  <2>5. PICK s8 : s8 = s7 \o f
    OBVIOUS
  <2>6. PICK s9 : s9 = s8 \o g
    OBVIOUS
  <2>7. PICK t2 : t2 = a \o m
    OBVIOUS
  <2>8. PICK t3 : t3 = t2 \o g
    OBVIOUS
  <2>9. PICK q : q = s9 \o t3
    OBVIOUS
  <2>10. \A w : w = (a \o b \o c \o b \o e \o f \o g) \o (a \o m \o g) => w = q
    BY <2>1, <2>2, <2>3, <2>4, <2>5, <2>6, <2>7, <2>8, <2>9, Zenon
  <2>11. s2 \in Seq(S) /\ Len(s2) = 2 /\ s2[1] = a[1] /\ s2[2] = b[1]
    <3>1. /\ s2 \in Seq(S) /\ Len(s2) = Len(a) + Len(b)
          /\ \A i \in 1..(Len(a) + Len(b)) : s2[i] = IF i <= Len(a) THEN a[i] ELSE b[i - Len(a)]
      <4>1. /\ a \o b \in Seq(S) /\ Len(a \o b) = Len(a) + Len(b)
            /\ \A i \in 1..(Len(a) + Len(b)) : (a \o b)[i] = IF i <= Len(a) THEN a[i] ELSE b[i - Len(a)]
        BY <1>10, ConcatProperties
      <4> QED BY <2>1, <4>1, Zenon
    <3> QED BY <1>10, <3>1
  <2>12. s4 \in Seq(S) /\ Len(s4) = 4 /\ (\A i \in 1..2 : s4[i] = s2[i]) /\ s4[3] = c[1] /\ s4[4] = c[2]
    <3>1. /\ s4 \in Seq(S) /\ Len(s4) = Len(s2) + Len(c)
          /\ \A i \in 1..(Len(s2) + Len(c)) : s4[i] = IF i <= Len(s2) THEN s2[i] ELSE c[i - Len(s2)]
      <4>1. /\ s2 \o c \in Seq(S) /\ Len(s2 \o c) = Len(s2) + Len(c)
            /\ \A i \in 1..(Len(s2) + Len(c)) : (s2 \o c)[i] = IF i <= Len(s2) THEN s2[i] ELSE c[i - Len(s2)]
        BY <1>10, <2>11, ConcatProperties
      <4> QED BY <2>2, <4>1, Zenon
    <3> QED BY <1>10, <2>11, <3>1
  <2>13. s5 \in Seq(S) /\ Len(s5) = 5 /\ (\A i \in 1..4 : s5[i] = s4[i]) /\ s5[5] = b[1]
    <3>1. /\ s5 \in Seq(S) /\ Len(s5) = Len(s4) + Len(b)
          /\ \A i \in 1..(Len(s4) + Len(b)) : s5[i] = IF i <= Len(s4) THEN s4[i] ELSE b[i - Len(s4)]
      <4>1. /\ s4 \o b \in Seq(S) /\ Len(s4 \o b) = Len(s4) + Len(b)
            /\ \A i \in 1..(Len(s4) + Len(b)) : (s4 \o b)[i] = IF i <= Len(s4) THEN s4[i] ELSE b[i - Len(s4)]
        BY <1>10, <2>12, ConcatProperties
      <4> QED BY <2>3, <4>1, Zenon
    <3> QED BY <1>10, <2>12, <3>1
  <2>14. s7 \in Seq(S) /\ Len(s7) = 7 /\ (\A i \in 1..5 : s7[i] = s5[i]) /\ s7[6] = e[1] /\ s7[7] = e[2]
    <3>1. /\ s7 \in Seq(S) /\ Len(s7) = Len(s5) + Len(e)
          /\ \A i \in 1..(Len(s5) + Len(e)) : s7[i] = IF i <= Len(s5) THEN s5[i] ELSE e[i - Len(s5)]
      <4>1. /\ s5 \o e \in Seq(S) /\ Len(s5 \o e) = Len(s5) + Len(e)
            /\ \A i \in 1..(Len(s5) + Len(e)) : (s5 \o e)[i] = IF i <= Len(s5) THEN s5[i] ELSE e[i - Len(s5)]
        BY <1>10, <2>13, ConcatProperties
      <4> QED BY <2>4, <4>1, Zenon
    <3> QED BY <1>10, <2>13, <3>1
  <2>15. s8 \in Seq(S) /\ Len(s8) = 8 /\ (\A i \in 1..7 : s8[i] = s7[i]) /\ s8[8] = f[1]
    <3>1. /\ s8 \in Seq(S) /\ Len(s8) = Len(s7) + Len(f)
          /\ \A i \in 1..(Len(s7) + Len(f)) : s8[i] = IF i <= Len(s7) THEN s7[i] ELSE f[i - Len(s7)]
      <4>1. /\ s7 \o f \in Seq(S) /\ Len(s7 \o f) = Len(s7) + Len(f)
            /\ \A i \in 1..(Len(s7) + Len(f)) : (s7 \o f)[i] = IF i <= Len(s7) THEN s7[i] ELSE f[i - Len(s7)]
        BY <1>10, <2>14, ConcatProperties
      <4> QED BY <2>5, <4>1, Zenon
    <3> QED BY <1>10, <2>14, <3>1
  <2>16. s9 \in Seq(S) /\ Len(s9) = 9 /\ (\A i \in 1..8 : s9[i] = s8[i]) /\ s9[9] = g[1]
    <3>1. /\ s9 \in Seq(S) /\ Len(s9) = Len(s8) + Len(g)
          /\ \A i \in 1..(Len(s8) + Len(g)) : s9[i] = IF i <= Len(s8) THEN s8[i] ELSE g[i - Len(s8)]
      <4>1. /\ s8 \o g \in Seq(S) /\ Len(s8 \o g) = Len(s8) + Len(g)
            /\ \A i \in 1..(Len(s8) + Len(g)) : (s8 \o g)[i] = IF i <= Len(s8) THEN s8[i] ELSE g[i - Len(s8)]
        BY <1>10, <2>15, ConcatProperties
      <4> QED BY <2>6, <4>1, Zenon
    <3> QED BY <1>10, <2>15, <3>1
  <2>17. t2 \in Seq(S) /\ Len(t2) = 2 /\ t2[1] = a[1] /\ t2[2] = m[1]
    <3>1. /\ t2 \in Seq(S) /\ Len(t2) = Len(a) + Len(m)
          /\ \A i \in 1..(Len(a) + Len(m)) : t2[i] = IF i <= Len(a) THEN a[i] ELSE m[i - Len(a)]
      <4>1. /\ a \o m \in Seq(S) /\ Len(a \o m) = Len(a) + Len(m)
            /\ \A i \in 1..(Len(a) + Len(m)) : (a \o m)[i] = IF i <= Len(a) THEN a[i] ELSE m[i - Len(a)]
        BY <1>10, ConcatProperties
      <4> QED BY <2>7, <4>1, Zenon
    <3> QED BY <1>10, <3>1
  <2>18. t3 \in Seq(S) /\ Len(t3) = 3 /\ (\A i \in 1..2 : t3[i] = t2[i]) /\ t3[3] = g[1]
    <3>1. /\ t3 \in Seq(S) /\ Len(t3) = Len(t2) + Len(g)
          /\ \A i \in 1..(Len(t2) + Len(g)) : t3[i] = IF i <= Len(t2) THEN t2[i] ELSE g[i - Len(t2)]
      <4>1. /\ t2 \o g \in Seq(S) /\ Len(t2 \o g) = Len(t2) + Len(g)
            /\ \A i \in 1..(Len(t2) + Len(g)) : (t2 \o g)[i] = IF i <= Len(t2) THEN t2[i] ELSE g[i - Len(t2)]
        BY <1>10, <2>17, ConcatProperties
      <4> QED BY <2>8, <4>1, Zenon
    <3> QED BY <1>10, <2>17, <3>1
  <2>19. /\ Len(q) = 12 /\ (\A i \in 1..9 : q[i] = s9[i])
         /\ q[10] = t3[1] /\ q[11] = t3[2] /\ q[12] = t3[3]
    <3>1. /\ q \in Seq(S) /\ Len(q) = Len(s9) + Len(t3)
          /\ \A i \in 1..(Len(s9) + Len(t3)) : q[i] = IF i <= Len(s9) THEN s9[i] ELSE t3[i - Len(s9)]
      <4>1. /\ s9 \o t3 \in Seq(S) /\ Len(s9 \o t3) = Len(s9) + Len(t3)
            /\ \A i \in 1..(Len(s9) + Len(t3)) : (s9 \o t3)[i] = IF i <= Len(s9) THEN s9[i] ELSE t3[i - Len(s9)]
        BY <1>10, <2>16, <2>18, ConcatProperties
      <4> QED BY <2>9, <4>1, Zenon
    <3> QED BY <1>10, <2>16, <2>18, <3>1
  <2>20. /\ Len(q) = 12 /\ q[1] = a[1] /\ q[2] = b[1] /\ q[3] = c[1] /\ q[4] = c[2]
         /\ q[5] = b[1] /\ q[6] = e[1] /\ q[7] = e[2] /\ q[8] = f[1] /\ q[9] = g[1]
         /\ q[10] = a[1] /\ q[11] = m[1] /\ q[12] = g[1]
    <3>1. s5[1] = a[1] /\ s5[2] = b[1] /\ s5[3] = c[1] /\ s5[4] = c[2] /\ s5[5] = b[1]
      <4>1. s4[1] = a[1] /\ s4[2] = b[1] /\ s4[3] = c[1] /\ s4[4] = c[2]
        BY <2>11, <2>12
      <4>2. s5[1] = s4[1] /\ s5[2] = s4[2] /\ s5[3] = s4[3] /\ s5[4] = s4[4] /\ s5[5] = b[1]
        BY <2>13
      <4> QED BY <4>1, <4>2, Zenon
    <3>2. /\ s9[1] = s5[1] /\ s9[2] = s5[2] /\ s9[3] = s5[3] /\ s9[4] = s5[4] /\ s9[5] = s5[5]
          /\ s9[6] = e[1] /\ s9[7] = e[2] /\ s9[8] = f[1] /\ s9[9] = g[1]
      BY <2>14, <2>15, <2>16
    <3>3. /\ q[1] = s9[1] /\ q[2] = s9[2] /\ q[3] = s9[3] /\ q[4] = s9[4] /\ q[5] = s9[5]
          /\ q[6] = s9[6] /\ q[7] = s9[7] /\ q[8] = s9[8] /\ q[9] = s9[9]
      BY <2>19
    <3>4. t3[1] = a[1] /\ t3[2] = m[1] /\ t3[3] = g[1]
      BY <2>17, <2>18
    <3> QED BY <2>19, <3>1, <3>2, <3>3, <3>4, Zenon
  <2>21. r = q
    BY <1>8, <1>12, <2>10, Zenon
  <2> QED BY <2>20, <2>21, Zenon
<1> QED BY <1>11, <1>12, <1>13, Zenon DEF page0

(* What the first controller makes of each kind of byte.                   *)
Others(c) == \A d \in Controllers!AllChannels \ {c} :
    /\ address'[d] = address[d] /\ count'[d] = count[d] /\ page'[d] = page[d]
    /\ mode'[d] = mode[d] /\ masked'[d] = masked[d]

LEMMA Selects == ASSUME NEW c \in 0..2
  PROVE LET page0 == IF c = 0 THEN 135 ELSE IF c = 1 THEN 131 ELSE 129
        IN  /\ Controllers!AddressOf(2 * c) = {c} /\ Controllers!CountOf(2 * c) = {}
            /\ Controllers!PageOf(2 * c) = {}
            /\ Controllers!AddressOf(2 * c + 1) = {} /\ Controllers!CountOf(2 * c + 1) = {c}
            /\ Controllers!PageOf(2 * c + 1) = {}
            /\ Controllers!AddressOf(page0) = {} /\ Controllers!CountOf(page0) = {}
            /\ Controllers!PageOf(page0) = {c}
            /\ \A port \in {10, 11, 12} :
                 /\ Controllers!AddressOf(port) = {} /\ Controllers!CountOf(port) = {}
                 /\ Controllers!PageOf(port) = {}
<1>1. c \in {0, 1, 2}
  OBVIOUS
<1>2. Controllers!AllChannels = {0, 1, 2, 3, 4, 5, 6, 7}
  BY DEF Controllers!AllChannels
<1>3. \A port : /\ Controllers!AddressOf(port) \subseteq {0, 1, 2, 3, 4, 5, 6, 7}
                /\ \A d \in {0, 1, 2, 3, 4, 5, 6, 7} : d \in Controllers!AddressOf(port) <=>
                     port = IF d < 4 THEN 2 * d ELSE 192 + (4 * (d - 4))
  BY <1>2 DEF Controllers!AddressOf
<1>4. \A port : /\ Controllers!CountOf(port) \subseteq {0, 1, 2, 3, 4, 5, 6, 7}
                /\ \A d \in {0, 1, 2, 3, 4, 5, 6, 7} : d \in Controllers!CountOf(port) <=>
                     port = IF d < 4 THEN (2 * d) + 1 ELSE 194 + (4 * (d - 4))
  BY <1>2 DEF Controllers!CountOf
<1>5. \A port : /\ Controllers!PageOf(port) \subseteq {0, 1, 2, 3, 4, 5, 6, 7}
                /\ \A d \in {0, 1, 2, 3, 4, 5, 6, 7} : d \in Controllers!PageOf(port) <=>
                     port = IF d = 0 THEN 135 ELSE IF d = 1 THEN 131 ELSE IF d = 2 THEN 129
                            ELSE IF d = 3 THEN 130 ELSE IF d = 4 THEN 143 ELSE IF d = 5 THEN 139
                            ELSE IF d = 6 THEN 137 ELSE 138
  <2>1. \A d \in {0, 1, 2, 3, 4, 5, 6, 7} : <<135, 131, 129, 130, 143, 139, 137, 138>>[d + 1] =
                            IF d = 0 THEN 135 ELSE IF d = 1 THEN 131 ELSE IF d = 2 THEN 129
                            ELSE IF d = 3 THEN 130 ELSE IF d = 4 THEN 143 ELSE IF d = 5 THEN 139
                            ELSE IF d = 6 THEN 137 ELSE 138
    OBVIOUS
  <2> QED BY <1>2, <2>1 DEF Controllers!PageOf
<1>6. /\ Controllers!AddressOf(2 * c) = {c} /\ Controllers!CountOf(2 * c) = {}
      /\ Controllers!AddressOf(2 * c + 1) = {} /\ Controllers!CountOf(2 * c + 1) = {c}
  BY <1>1, <1>3, <1>4
<1>7. Controllers!PageOf(2 * c) = {} /\ Controllers!PageOf(2 * c + 1) = {}
  BY <1>1, <1>5
<1>8. ASSUME NEW port \in {10, 11, 12}
      PROVE /\ Controllers!AddressOf(port) = {} /\ Controllers!CountOf(port) = {}
            /\ Controllers!PageOf(port) = {}
  <2>1. Controllers!AddressOf(port) = {}
    BY <1>3
  <2>2. Controllers!CountOf(port) = {}
    BY <1>4
  <2>3. Controllers!PageOf(port) = {}
    BY <1>5
  <2> QED BY <2>1, <2>2, <2>3
<1>9. ASSUME NEW page0, page0 = IF c = 0 THEN 135 ELSE IF c = 1 THEN 131 ELSE 129
      PROVE /\ Controllers!AddressOf(page0) = {} /\ Controllers!CountOf(page0) = {}
            /\ Controllers!PageOf(page0) = {c}
  <2>1. Controllers!AddressOf(page0) = {}
    BY <1>1, <1>3, <1>9
  <2>2. Controllers!CountOf(page0) = {}
    BY <1>1, <1>4, <1>9
  <2>3. Controllers!PageOf(page0) = {c}
    BY <1>1, <1>5, <1>9
  <2> QED BY <2>1, <2>2, <2>3
<1> QED BY <1>6, <1>7, <1>8, <1>9

LEMMA ByteTaken ==
  ASSUME chan \in 0..2, NEW port, NEW value, Controllers!Take(port, value)
  PROVE /\ port = 2 * chan =>
             /\ address' = Controllers!WriteWord(address, chan, value) /\ Controllers!Toggle(chan)
             /\ UNCHANGED <<count, page, mode, masked>>
        /\ port = 2 * chan + 1 =>
             /\ count' = Controllers!WriteWord(count, chan, value) /\ Controllers!Toggle(chan)
             /\ UNCHANGED <<address, page, mode, masked>>
        /\ port = (IF chan = 0 THEN 135 ELSE IF chan = 1 THEN 131 ELSE 129) =>
             /\ page' = [page EXCEPT ![chan] = value]
             /\ UNCHANGED <<flipflop, address, count, mode, masked>>
        /\ port = 12 => /\ flipflop' = [flipflop EXCEPT ![0] = FALSE]
                        /\ UNCHANGED <<address, count, page, mode, masked>>
        /\ port = 10 => /\ masked' = [masked EXCEPT ![(value % 4) + 0] = (value \div 4) % 2 = 1]
                        /\ UNCHANGED <<flipflop, address, count, page, mode>>
        /\ port = 11 => /\ mode' = [mode EXCEPT ![(value % 4) + 0] = value \div 4]
                        /\ UNCHANGED <<flipflop, address, count, page, masked>>
<1> DEFINE page0 == IF chan = 0 THEN 135 ELSE IF chan = 1 THEN 131 ELSE 129
<1>1. /\ Controllers!AddressOf(2 * chan) = {chan} /\ Controllers!CountOf(2 * chan) = {}
      /\ Controllers!PageOf(2 * chan) = {}
      /\ Controllers!AddressOf(2 * chan + 1) = {} /\ Controllers!CountOf(2 * chan + 1) = {chan}
      /\ Controllers!PageOf(2 * chan + 1) = {}
      /\ Controllers!AddressOf(page0) = {} /\ Controllers!CountOf(page0) = {}
      /\ Controllers!PageOf(page0) = {chan}
      /\ \A p \in {10, 11, 12} :
           /\ Controllers!AddressOf(p) = {} /\ Controllers!CountOf(p) = {}
           /\ Controllers!PageOf(p) = {}
  BY Selects, Zenon
<1>2. \/ /\ \E c \in Controllers!AddressOf(port) :
               address' = Controllers!WriteWord(address, c, value) /\ Controllers!Toggle(c)
         /\ UNCHANGED <<count, page, mode, masked>>
      \/ /\ \E c \in Controllers!CountOf(port) :
               count' = Controllers!WriteWord(count, c, value) /\ Controllers!Toggle(c)
         /\ UNCHANGED <<address, page, mode, masked>>
      \/ /\ \E c \in Controllers!PageOf(port) : page' = [page EXCEPT ![c] = value]
         /\ UNCHANGED <<flipflop, address, count, mode, masked>>
      \/ /\ port \in {12, 216}
         /\ flipflop' = [flipflop EXCEPT ![IF port = 12 THEN 0 ELSE 1] = FALSE]
         /\ UNCHANGED <<address, count, page, mode, masked>>
      \/ /\ port \in {10, 212}
         /\ masked' = [masked EXCEPT ![(value % 4) + (IF port = 10 THEN 0 ELSE 4)]
                                       = (value \div 4) % 2 = 1]
         /\ UNCHANGED <<flipflop, address, count, page, mode>>
      \/ /\ port \in {11, 214}
         /\ mode' = [mode EXCEPT ![(value % 4) + (IF port = 11 THEN 0 ELSE 4)] = value \div 4]
         /\ UNCHANGED <<flipflop, address, count, page, masked>>
  BY Zenon DEF Controllers!Take
<1>3. /\ 2 * chan \notin {10, 11, 12, 212, 214, 216}
      /\ 2 * chan + 1 \notin {10, 11, 12, 212, 214, 216}
      /\ page0 \notin {10, 11, 12, 212, 214, 216}
      /\ 10 \notin {11, 214} /\ 10 \notin {12, 216} /\ 11 \notin {10, 212} /\ 11 \notin {12, 216}
      /\ 12 \notin {10, 212} /\ 12 \notin {11, 214}
  OBVIOUS
<1>p. ASSUME NEW p \in {10, 11, 12}, port = p
      PROVE /\ Controllers!AddressOf(port) = {} /\ Controllers!CountOf(port) = {}
            /\ Controllers!PageOf(port) = {}
  BY <1>1, <1>p, Zenon
<1> HIDE DEF page0
<1>4. ASSUME port = 2 * chan
      PROVE /\ address' = Controllers!WriteWord(address, chan, value) /\ Controllers!Toggle(chan)
            /\ UNCHANGED <<count, page, mode, masked>>
  <2>1. /\ Controllers!AddressOf(port) = {chan} /\ Controllers!CountOf(port) = {}
        /\ Controllers!PageOf(port) = {}
        /\ port \notin {12, 216} /\ port \notin {10, 212} /\ port \notin {11, 214}
    BY <1>1, <1>3, <1>4, Zenon
  <2> QED BY <1>2, <2>1, Zenon
<1>5. ASSUME port = 2 * chan + 1
      PROVE /\ count' = Controllers!WriteWord(count, chan, value) /\ Controllers!Toggle(chan)
            /\ UNCHANGED <<address, page, mode, masked>>
  <2>1. /\ Controllers!AddressOf(port) = {} /\ Controllers!CountOf(port) = {chan}
        /\ Controllers!PageOf(port) = {}
        /\ port \notin {12, 216} /\ port \notin {10, 212} /\ port \notin {11, 214}
    BY <1>1, <1>3, <1>5, Zenon
  <2> QED BY <1>2, <2>1, Zenon
<1>6. ASSUME port = page0
      PROVE /\ page' = [page EXCEPT ![chan] = value]
            /\ UNCHANGED <<flipflop, address, count, mode, masked>>
  <2>1. /\ Controllers!AddressOf(port) = {} /\ Controllers!CountOf(port) = {}
        /\ Controllers!PageOf(port) = {chan}
        /\ port \notin {12, 216} /\ port \notin {10, 212} /\ port \notin {11, 214}
    BY <1>1, <1>3, <1>6, Zenon
  <2> QED BY <1>2, <2>1, Zenon
<1>7. ASSUME port = 12
      PROVE /\ flipflop' = [flipflop EXCEPT ![0] = FALSE]
            /\ UNCHANGED <<address, count, page, mode, masked>>
  <2>1. 12 \in {10, 11, 12} /\ port \notin {10, 212} /\ port \notin {11, 214}
    BY <1>7
  <2>2. /\ Controllers!AddressOf(port) = {} /\ Controllers!CountOf(port) = {}
        /\ Controllers!PageOf(port) = {}
    BY <1>7, <1>p, <2>1, Zenon
  <2> QED BY <1>2, <1>7, <2>1, <2>2, Zenon
<1>8. ASSUME port = 10
      PROVE /\ masked' = [masked EXCEPT ![(value % 4) + 0] = (value \div 4) % 2 = 1]
            /\ UNCHANGED <<flipflop, address, count, page, mode>>
  <2>1. 10 \in {10, 11, 12} /\ port \notin {12, 216} /\ port \notin {11, 214}
    BY <1>8
  <2>2. /\ Controllers!AddressOf(port) = {} /\ Controllers!CountOf(port) = {}
        /\ Controllers!PageOf(port) = {}
    BY <1>8, <1>p, <2>1, Zenon
  <2> QED BY <1>2, <1>8, <2>1, <2>2, Zenon
<1>9. ASSUME port = 11
      PROVE /\ mode' = [mode EXCEPT ![(value % 4) + 0] = value \div 4]
            /\ UNCHANGED <<flipflop, address, count, page, masked>>
  <2>1. 11 \in {10, 11, 12} /\ port \notin {12, 216} /\ port \notin {10, 212}
    BY <1>9
  <2>2. /\ Controllers!AddressOf(port) = {} /\ Controllers!CountOf(port) = {}
        /\ Controllers!PageOf(port) = {}
    BY <1>9, <1>p, <2>1, Zenon
  <2> QED BY <1>2, <1>9, <2>1, <2>2, Zenon
<1> QED BY <1>4, <1>5, <1>6, <1>7, <1>8, <1>9, Zenon DEF page0

(* The byte that is written next, and what it changes.                     *)
LEMMA OutBDoes ==
  ASSUME chan \in 0..2, pc \in 0..Len(Controllers!Program), Controllers!OutB
  PROVE /\ pc \in 0..11 /\ pc' = pc + 1 /\ chan' = chan
        /\ pc \in {0, 9} => /\ masked' = [masked EXCEPT ![chan] = TRUE]
                            /\ UNCHANGED <<flipflop, address, count, page, mode>>
        /\ pc \in {8, 11} => /\ masked' = [masked EXCEPT ![chan] = FALSE]
                             /\ UNCHANGED <<flipflop, address, count, page, mode>>
        /\ pc \in {1, 4} => /\ flipflop' = [flipflop EXCEPT ![0] = FALSE]
                            /\ UNCHANGED <<address, count, page, mode, masked>>
        /\ pc \in {2, 3} =>
             /\ address' = Controllers!WriteWord(address, chan, IF pc = 2 THEN 0 ELSE 16)
             /\ Controllers!Toggle(chan) /\ UNCHANGED <<count, page, mode, masked>>
        /\ pc \in {5, 6} =>
             /\ count' = Controllers!WriteWord(count, chan, IF pc = 5 THEN 255 ELSE 2)
             /\ Controllers!Toggle(chan) /\ UNCHANGED <<address, page, mode, masked>>
        /\ pc = 7 => /\ page' = [page EXCEPT ![chan] = 0]
                     /\ UNCHANGED <<flipflop, address, count, mode, masked>>
        /\ pc = 10 => /\ mode' = [mode EXCEPT ![chan] = 21]
                      /\ UNCHANGED <<flipflop, address, count, page, masked>>
<1> DEFINE page0 == IF chan = 0 THEN 135 ELSE IF chan = 1 THEN 131 ELSE 129
<1>1. PICK program : program = Controllers!Program
  OBVIOUS
<1>2. /\ Len(program) = 12
      /\ program[1] = <<10, chan + 4>> /\ program[2] = <<12, 255>>
      /\ program[3] = <<2 * chan, 0>> /\ program[4] = <<2 * chan, 16>>
      /\ program[5] = <<12, 255>>
      /\ program[6] = <<2 * chan + 1, 255>> /\ program[7] = <<2 * chan + 1, 2>>
      /\ program[8] = <<page0, 0>> /\ program[9] = <<10, chan>>
      /\ program[10] = <<10, chan + 4>> /\ program[11] = <<11, chan + 84>>
      /\ program[12] = <<10, chan>>
  BY <1>1, ProgramBytes, Zenon
<1> HIDE DEF page0
<1>3. /\ pc < Len(program) /\ Controllers!Take(program[pc + 1][1], program[pc + 1][2])
      /\ pc' = pc + 1 /\ chan' = chan
  BY <1>1, Zenon DEF Controllers!OutB
<1>4. PICK port, value : port = program[pc + 1][1] /\ value = program[pc + 1][2]
  OBVIOUS
<1>5. Controllers!Take(port, value)
  BY <1>3, <1>4, Zenon
<1>6. pc \in 0..11
  <2>1. Len(Controllers!Program) = 12
    BY <1>1, <1>2, Zenon
  <2> QED BY <1>2, <1>3, <2>1
<1>7. /\ port = 2 * chan =>
           /\ address' = Controllers!WriteWord(address, chan, value) /\ Controllers!Toggle(chan)
           /\ UNCHANGED <<count, page, mode, masked>>
      /\ port = 2 * chan + 1 =>
           /\ count' = Controllers!WriteWord(count, chan, value) /\ Controllers!Toggle(chan)
           /\ UNCHANGED <<address, page, mode, masked>>
      /\ port = page0 => /\ page' = [page EXCEPT ![chan] = value]
                         /\ UNCHANGED <<flipflop, address, count, mode, masked>>
      /\ port = 12 => /\ flipflop' = [flipflop EXCEPT ![0] = FALSE]
                      /\ UNCHANGED <<address, count, page, mode, masked>>
      /\ port = 10 => /\ masked' = [masked EXCEPT ![(value % 4) + 0] = (value \div 4) % 2 = 1]
                      /\ UNCHANGED <<flipflop, address, count, page, mode>>
      /\ port = 11 => /\ mode' = [mode EXCEPT ![(value % 4) + 0] = value \div 4]
                      /\ UNCHANGED <<flipflop, address, count, page, masked>>
  BY <1>5, ByteTaken, Zenon DEF page0
<1>8. /\ pc \in {0, 9} => port = 10 /\ value = chan + 4
      /\ pc \in {8, 11} => port = 10 /\ value = chan
      /\ pc \in {1, 4} => port = 12
      /\ pc \in {2, 3} => port = 2 * chan /\ value = IF pc = 2 THEN 0 ELSE 16
      /\ pc \in {5, 6} => port = 2 * chan + 1 /\ value = IF pc = 5 THEN 255 ELSE 2
      /\ pc = 7 => port = page0 /\ value = 0
      /\ pc = 10 => port = 11 /\ value = chan + 84
  BY <1>2, <1>4
<1>9. /\ pc \in {0, 9} => (value % 4) + 0 = chan /\ (value \div 4) % 2 = 1
      /\ pc \in {8, 11} => (value % 4) + 0 = chan /\ (value \div 4) % 2 # 1
      /\ pc = 10 => (value % 4) + 0 = chan /\ value \div 4 = 21
  <2>1. chan \in {0, 1, 2}
    OBVIOUS
  <2> QED BY <1>8, <2>1
<1>10. pc \in {0, 9} => /\ masked' = [masked EXCEPT ![chan] = TRUE]
                        /\ UNCHANGED <<flipflop, address, count, page, mode>>
  <2>1. PICK index, mask : index = (value % 4) + 0 /\ mask = ((value \div 4) % 2 = 1)
    OBVIOUS
  <2>2. port = 10 => /\ masked' = [masked EXCEPT ![index] = mask]
                     /\ UNCHANGED <<flipflop, address, count, page, mode>>
    BY <1>7, <2>1, Zenon
  <2>3. pc \in {0, 9} => index = chan /\ mask = TRUE
    BY <1>9, <2>1, Zenon
  <2> QED BY <1>8, <2>2, <2>3, Zenon
<1>11. pc \in {8, 11} => /\ masked' = [masked EXCEPT ![chan] = FALSE]
                         /\ UNCHANGED <<flipflop, address, count, page, mode>>
  <2>1. PICK index, mask : index = (value % 4) + 0 /\ mask = ((value \div 4) % 2 = 1)
    OBVIOUS
  <2>2. port = 10 => /\ masked' = [masked EXCEPT ![index] = mask]
                     /\ UNCHANGED <<flipflop, address, count, page, mode>>
    BY <1>7, <2>1, Zenon
  <2>3. pc \in {8, 11} => index = chan /\ mask = FALSE
    BY <1>9, <2>1, Zenon
  <2> QED BY <1>8, <2>2, <2>3, Zenon
<1>12. pc = 10 => /\ mode' = [mode EXCEPT ![chan] = 21]
                  /\ UNCHANGED <<flipflop, address, count, page, masked>>
  <2>1. PICK index, bits : index = (value % 4) + 0 /\ bits = value \div 4
    OBVIOUS
  <2>2. port = 11 => /\ mode' = [mode EXCEPT ![index] = bits]
                     /\ UNCHANGED <<flipflop, address, count, page, masked>>
    BY <1>7, <2>1, Zenon
  <2>3. pc = 10 => index = chan /\ bits = 21
    BY <1>9, <2>1, Zenon
  <2> QED BY <1>8, <2>2, <2>3, Zenon
<1>13. pc = 7 => /\ page' = [page EXCEPT ![chan] = 0]
                 /\ UNCHANGED <<flipflop, address, count, mode, masked>>
  BY <1>7, <1>8, Zenon
<1> QED BY <1>3, <1>6, <1>7, <1>8, <1>10, <1>11, <1>12, <1>13, Zenon

(* The inductive invariant of the DMA controllers.                         *)
DmaInv == Controllers!TypeOK /\ Controllers!RegistersOK

LEMMA DmaInit == ASSUME Channels \subseteq 0..2, Init PROVE DmaInv
<1>1. Controllers!Init
  BY DEF Init
<1>2. /\ chan \in Channels /\ pc = 0 /\ flipflop \in [0..1 -> BOOLEAN]
      /\ mode = [c \in Controllers!AllChannels |-> 0]
  BY <1>1 DEF Controllers!Init
<1>3. PICK old \in OldBytes : /\ address = [c \in Controllers!AllChannels |-> <<old, old>>]
                              /\ count = address
                              /\ page = [c \in Controllers!AllChannels |-> old]
  BY <1>1 DEF Controllers!Init
<1>4. PICK m \in BOOLEAN : masked = [c \in Controllers!AllChannels |-> m]
  BY <1>1, Zenon DEF Controllers!Init
<1>5. masked \in [Controllers!AllChannels -> BOOLEAN]
  BY <1>4, Zenon
<1>6. old \in 0..255
  BY PortsAssumption
<1>7. /\ address \in [Controllers!AllChannels -> Controllers!Byte \X Controllers!Byte]
      /\ count \in [Controllers!AllChannels -> Controllers!Byte \X Controllers!Byte]
      /\ page \in [Controllers!AllChannels -> Controllers!Byte]
      /\ mode \in [Controllers!AllChannels -> 0..63]
  BY <1>2, <1>3, <1>6 DEF Controllers!Byte
<1>8. pc \in 0..Len(Controllers!Program)
  <2>1. Len(Controllers!Program) = 12
    BY <1>2, ProgramBytes, Zenon
  <2> QED BY <1>2, <2>1
<1>9. Controllers!RegistersOK
  BY <1>2 DEF Controllers!RegistersOK
<1> QED BY <1>2, <1>5, <1>7, <1>8, <1>9, Zenon DEF DmaInv, Controllers!TypeOK

(* A byte written to the controllers.                                      *)
LEMMA OutBKeeps ==
  ASSUME Channels \subseteq 0..2, DmaInv, Controllers!OutB
  PROVE DmaInv' /\ Others(chan)
<1>1. /\ chan \in Channels /\ chan \in 0..2 /\ pc \in 0..Len(Controllers!Program)
      /\ flipflop \in [0..1 -> BOOLEAN]
      /\ address \in [Controllers!AllChannels -> Controllers!Byte \X Controllers!Byte]
      /\ count \in [Controllers!AllChannels -> Controllers!Byte \X Controllers!Byte]
      /\ page \in [Controllers!AllChannels -> Controllers!Byte]
      /\ mode \in [Controllers!AllChannels -> 0..63]
      /\ masked \in [Controllers!AllChannels -> BOOLEAN]
  BY DEF DmaInv, Controllers!TypeOK
<1>2. /\ chan \in Controllers!AllChannels /\ Controllers!Controller(chan) = 0
      /\ 0 \in 0..1
  BY <1>1 DEF Controllers!AllChannels, Controllers!Controller
<1>3. Len(Controllers!Program) = 12
  BY <1>1, ProgramBytes, Zenon
<1>4. /\ pc \in 0..11 /\ pc' = pc + 1 /\ chan' = chan
      /\ pc \in {0, 9} => /\ masked' = [masked EXCEPT ![chan] = TRUE]
                          /\ UNCHANGED <<flipflop, address, count, page, mode>>
      /\ pc \in {8, 11} => /\ masked' = [masked EXCEPT ![chan] = FALSE]
                           /\ UNCHANGED <<flipflop, address, count, page, mode>>
      /\ pc \in {1, 4} => /\ flipflop' = [flipflop EXCEPT ![0] = FALSE]
                          /\ UNCHANGED <<address, count, page, mode, masked>>
      /\ pc \in {2, 3} =>
           /\ address' = Controllers!WriteWord(address, chan, IF pc = 2 THEN 0 ELSE 16)
           /\ Controllers!Toggle(chan) /\ UNCHANGED <<count, page, mode, masked>>
      /\ pc \in {5, 6} =>
           /\ count' = Controllers!WriteWord(count, chan, IF pc = 5 THEN 255 ELSE 2)
           /\ Controllers!Toggle(chan) /\ UNCHANGED <<address, page, mode, masked>>
      /\ pc = 7 => /\ page' = [page EXCEPT ![chan] = 0]
                   /\ UNCHANGED <<flipflop, address, count, mode, masked>>
      /\ pc = 10 => /\ mode' = [mode EXCEPT ![chan] = 21]
                    /\ UNCHANGED <<flipflop, address, count, page, masked>>
  BY <1>1, OutBDoes, Zenon
<1>5. /\ pc \in (1..8) \union {10, 11} => masked[chan]
      /\ pc \in 2..12 => (flipflop[0] <=> pc \in {3, 6})
      /\ pc >= 3 => address[chan][1] = 0
      /\ pc >= 4 => address[chan][2] = 16
      /\ pc >= 6 => count[chan][1] = 255
      /\ pc >= 7 => count[chan][2] = 2
      /\ pc >= 8 => page[chan] = 0
  <2>1. /\ Controllers!Buffer % 256 = 0 /\ Controllers!Buffer \div 256 = 16
        /\ (Controllers!Bytes - 1) % 256 = 255 /\ (Controllers!Bytes - 1) \div 256 = 2
    BY DEF Controllers!Buffer, Controllers!Bytes
  <2>2. /\ pc \in (1..8) \union {10, 11} => masked[chan]
        /\ pc \in 2..12 => (flipflop[Controllers!Controller(chan)] <=> pc \in {3, 6})
        /\ pc >= 3 => address[chan][1] = Controllers!Buffer % 256
        /\ pc >= 4 => address[chan][2] = Controllers!Buffer \div 256
        /\ pc >= 6 => count[chan][1] = (Controllers!Bytes - 1) % 256
        /\ pc >= 7 => count[chan][2] = (Controllers!Bytes - 1) \div 256
        /\ pc >= 8 => page[chan] = 0
    BY Zenon DEF DmaInv, Controllers!RegistersOK
  <2>3. pc \in 2..12 => (flipflop[0] <=> pc \in {3, 6})
    BY <1>2, <2>2, Zenon
  <2>4. /\ pc >= 3 => address[chan][1] = 0
        /\ pc >= 4 => address[chan][2] = 16
    BY <2>1, <2>2, Zenon
  <2>5. /\ pc >= 6 => count[chan][1] = 255
        /\ pc >= 7 => count[chan][2] = 2
    BY <2>1, <2>2, Zenon
  <2> QED BY <2>2, <2>3, <2>4, <2>5, Zenon
<1>6. ASSUME NEW regs \in [Controllers!AllChannels -> Controllers!Byte \X Controllers!Byte],
             NEW value \in Controllers!Byte, NEW new, new = Controllers!WriteWord(regs, chan, value)
      PROVE /\ new \in [Controllers!AllChannels -> Controllers!Byte \X Controllers!Byte]
            /\ \A d \in Controllers!AllChannels \ {chan} : new[d] = regs[d]
            /\ flipflop[0] => new[chan][1] = regs[chan][1] /\ new[chan][2] = value
            /\ ~flipflop[0] => new[chan][1] = value /\ new[chan][2] = regs[chan][2]
  <2>1. /\ flipflop[0] => new = [regs EXCEPT ![chan] = <<@[1], value>>]
        /\ ~flipflop[0] => new = [regs EXCEPT ![chan] = <<value, @[2]>>]
    BY <1>2, <1>6 DEF Controllers!WriteWord
  <2>2. CASE flipflop[0]
    BY <1>2, <2>1, <2>2
  <2>3. CASE ~flipflop[0]
    BY <1>2, <2>1, <2>3
  <2> QED BY <2>2, <2>3
<1>7. Controllers!Toggle(chan) => /\ flipflop' \in [0..1 -> BOOLEAN]
                                  /\ flipflop'[0] <=> ~flipflop[0]
  <2>1. Controllers!Toggle(chan) => flipflop' = [flipflop EXCEPT ![0] = ~flipflop[0]]
    BY <1>2, Zenon DEF Controllers!Toggle
  <2> QED BY <1>1, <1>2, <2>1, Zenon
<1> DEFINE Types == /\ flipflop' \in [0..1 -> BOOLEAN]
                    /\ address' \in [Controllers!AllChannels -> Controllers!Byte \X Controllers!Byte]
                    /\ count' \in [Controllers!AllChannels -> Controllers!Byte \X Controllers!Byte]
                    /\ page' \in [Controllers!AllChannels -> Controllers!Byte]
                    /\ mode' \in [Controllers!AllChannels -> 0..63]
                    /\ masked' \in [Controllers!AllChannels -> BOOLEAN]
           Registers == /\ pc + 1 \in (1..8) \union {10, 11} => masked'[chan]
                        /\ pc + 1 \in 2..12 => (flipflop'[0] <=> pc + 1 \in {3, 6})
                        /\ pc + 1 >= 3 => address'[chan][1] = 0
                        /\ pc + 1 >= 4 => address'[chan][2] = 16
                        /\ pc + 1 >= 6 => count'[chan][1] = 255
                        /\ pc + 1 >= 7 => count'[chan][2] = 2
                        /\ pc + 1 >= 8 => page'[chan] = 0
<1>8. ASSUME Types, Registers PROVE DmaInv'
  <2>1. Controllers!TypeOK'
    <3>1. Len(Controllers!Program)' = 12
      <4>1. Controllers!Program' = Controllers!Program
        BY <1>4, Zenon DEF Controllers!Program, Controllers!FloppyDma, Controllers!FloppyDmaSetupRead
      <4> QED BY <1>3, <4>1, Zenon
    <3>2. pc' \in 0..12
      BY <1>4
    <3> QED BY <1>1, <1>4, <1>8, <3>1, <3>2, Zenon DEF Controllers!TypeOK
  <2>2. Controllers!RegistersOK'
    <3>1. /\ Controllers!Buffer % 256 = 0 /\ Controllers!Buffer \div 256 = 16
          /\ (Controllers!Bytes - 1) % 256 = 255 /\ (Controllers!Bytes - 1) \div 256 = 2
      BY DEF Controllers!Buffer, Controllers!Bytes
    <3>2. PICK next : next = pc + 1
      OBVIOUS
    <3>3. /\ pc' = next /\ chan' = chan
          /\ next \in (1..8) \union {10, 11} => masked'[chan]
          /\ next \in 2..12 => (flipflop'[0] <=> next \in {3, 6})
      BY <1>4, <1>8, <3>2, Zenon
    <3>4. /\ pc' \in (1..8) \union {10, 11} => masked'[chan']
          /\ pc' \in 2..12 => (flipflop'[Controllers!Controller(chan')] <=> pc' \in {3, 6})
      BY <1>2, <3>3, Zenon
    <3>5. /\ pc' = next /\ chan' = chan
          /\ next >= 3 => address'[chan][1] = 0
          /\ next >= 4 => address'[chan][2] = 16
          /\ next >= 6 => count'[chan][1] = 255
          /\ next >= 7 => count'[chan][2] = 2
          /\ next >= 8 => page'[chan] = 0
      BY <1>4, <1>8, <3>2, Zenon
    <3>6. /\ pc' >= 3 => address'[chan'][1] = Controllers!Buffer % 256
          /\ pc' >= 4 => address'[chan'][2] = Controllers!Buffer \div 256
          /\ pc' >= 6 => count'[chan'][1] = (Controllers!Bytes - 1) % 256
          /\ pc' >= 7 => count'[chan'][2] = (Controllers!Bytes - 1) \div 256
          /\ pc' >= 8 => page'[chan'] = 0
      BY <3>1, <3>5
    <3> QED BY <3>4, <3>6, Zenon DEF Controllers!RegistersOK
  <2> QED BY <2>1, <2>2, Zenon DEF DmaInv
<1>9. CASE pc \in {0, 9}
  <2>1. Types
    <3>1. masked' \in [Controllers!AllChannels -> BOOLEAN]
      BY <1>1, <1>2, <1>4, <1>9, Zenon
    <3> QED BY <1>1, <1>4, <1>9, <3>1, Zenon
  <2>2. Registers
    BY <1>1, <1>2, <1>4, <1>5, <1>9
  <2>3. Others(chan)
    BY <1>1, <1>2, <1>4, <1>9 DEF Others
  <2> QED BY <1>8, <2>1, <2>2, <2>3
<1>10. CASE pc \in {8, 11}
  <2>1. Types
    <3>1. masked' \in [Controllers!AllChannels -> BOOLEAN]
      BY <1>1, <1>2, <1>4, <1>10, Zenon
    <3> QED BY <1>1, <1>4, <1>10, <3>1, Zenon
  <2>2. Registers
    BY <1>1, <1>2, <1>4, <1>5, <1>10
  <2>3. Others(chan)
    BY <1>1, <1>2, <1>4, <1>10 DEF Others
  <2> QED BY <1>8, <2>1, <2>2, <2>3
<1>11. CASE pc \in {1, 4}
  <2>1. Types
    <3>1. flipflop' \in [0..1 -> BOOLEAN]
      BY <1>1, <1>2, <1>4, <1>11, Zenon
    <3> QED BY <1>1, <1>4, <1>11, <3>1, Zenon
  <2>2. Registers
    BY <1>1, <1>2, <1>4, <1>5, <1>11
  <2>3. Others(chan)
    BY <1>1, <1>2, <1>4, <1>11 DEF Others
  <2> QED BY <1>8, <2>1, <2>2, <2>3
<1>12. CASE pc \in {2, 3}
  <2>1. PICK value : value = IF pc = 2 THEN 0 ELSE 16
    OBVIOUS
  <2>2. value \in Controllers!Byte
    BY <2>1 DEF Controllers!Byte
  <2>3. address' = Controllers!WriteWord(address, chan, value)
    BY <1>4, <1>12, <2>1, Zenon
  <2>4. /\ address' \in [Controllers!AllChannels -> Controllers!Byte \X Controllers!Byte]
        /\ \A d \in Controllers!AllChannels \ {chan} : address'[d] = address[d]
        /\ flipflop[0] => address'[chan][1] = address[chan][1] /\ address'[chan][2] = value
        /\ ~flipflop[0] => address'[chan][1] = value /\ address'[chan][2] = address[chan][2]
    <3>1. PICK old, new : old = address /\ new = address'
      OBVIOUS
    <3>2. old \in [Controllers!AllChannels -> Controllers!Byte \X Controllers!Byte]
      BY <1>1, <3>1, Zenon
    <3>3. new = Controllers!WriteWord(old, chan, value)
      BY <2>3, <3>1, Zenon
    <3>4. /\ new \in [Controllers!AllChannels -> Controllers!Byte \X Controllers!Byte]
          /\ \A d \in Controllers!AllChannels \ {chan} : new[d] = old[d]
          /\ flipflop[0] => new[chan][1] = old[chan][1] /\ new[chan][2] = value
          /\ ~flipflop[0] => new[chan][1] = value /\ new[chan][2] = old[chan][2]
      BY <1>6, <2>2, <3>2, <3>3
    <3> QED BY <3>1, <3>4, Zenon
  <2>5. Types
    BY <1>1, <1>4, <1>7, <1>12, <2>4, Zenon
  <2>6. Registers
    BY <1>1, <1>4, <1>5, <1>7, <1>12, <2>1, <2>4
  <2>7. Others(chan)
    BY <1>4, <1>12, <2>4, Zenon DEF Others
  <2> QED BY <1>8, <2>5, <2>6, <2>7
<1>13. CASE pc \in {5, 6}
  <2>1. PICK value : value = IF pc = 5 THEN 255 ELSE 2
    OBVIOUS
  <2>2. value \in Controllers!Byte
    BY <2>1 DEF Controllers!Byte
  <2>3. count' = Controllers!WriteWord(count, chan, value)
    BY <1>4, <1>13, <2>1, Zenon
  <2>4. /\ count' \in [Controllers!AllChannels -> Controllers!Byte \X Controllers!Byte]
        /\ \A d \in Controllers!AllChannels \ {chan} : count'[d] = count[d]
        /\ flipflop[0] => count'[chan][1] = count[chan][1] /\ count'[chan][2] = value
        /\ ~flipflop[0] => count'[chan][1] = value /\ count'[chan][2] = count[chan][2]
    <3>1. PICK old, new : old = count /\ new = count'
      OBVIOUS
    <3>2. old \in [Controllers!AllChannels -> Controllers!Byte \X Controllers!Byte]
      BY <1>1, <3>1, Zenon
    <3>3. new = Controllers!WriteWord(old, chan, value)
      BY <2>3, <3>1, Zenon
    <3>4. /\ new \in [Controllers!AllChannels -> Controllers!Byte \X Controllers!Byte]
          /\ \A d \in Controllers!AllChannels \ {chan} : new[d] = old[d]
          /\ flipflop[0] => new[chan][1] = old[chan][1] /\ new[chan][2] = value
          /\ ~flipflop[0] => new[chan][1] = value /\ new[chan][2] = old[chan][2]
      BY <1>6, <2>2, <3>2, <3>3
    <3> QED BY <3>1, <3>4, Zenon
  <2>5. Types
    BY <1>1, <1>4, <1>7, <1>13, <2>4, Zenon
  <2>6. Registers
    BY <1>1, <1>4, <1>5, <1>7, <1>13, <2>1, <2>4
  <2>7. Others(chan)
    BY <1>4, <1>13, <2>4, Zenon DEF Others
  <2> QED BY <1>8, <2>5, <2>6, <2>7
<1>14. CASE pc = 7
  <2>1. Types
    <3>1. page' \in [Controllers!AllChannels -> Controllers!Byte]
      <4>1. 0 \in Controllers!Byte
        BY DEF Controllers!Byte
      <4> QED BY <1>1, <1>4, <1>14, <4>1, Zenon
    <3> QED BY <1>1, <1>4, <1>14, <3>1, Zenon
  <2>2. Registers
    BY <1>1, <1>2, <1>4, <1>5, <1>14
  <2>3. Others(chan)
    BY <1>1, <1>2, <1>4, <1>14 DEF Others
  <2> QED BY <1>8, <2>1, <2>2, <2>3
<1>15. CASE pc = 10
  <2>1. Types
    <3>1. mode' \in [Controllers!AllChannels -> 0..63]
      <4>1. 21 \in 0..63
        OBVIOUS
      <4> QED BY <1>1, <1>4, <1>15, <4>1, Zenon
    <3> QED BY <1>1, <1>4, <1>15, <3>1, Zenon
  <2>2. Registers
    BY <1>1, <1>2, <1>4, <1>5, <1>15
  <2>3. Others(chan)
    BY <1>1, <1>2, <1>4, <1>15 DEF Others
  <2> QED BY <1>8, <2>1, <2>2, <2>3
<1>16. pc \in {0, 9} \/ pc \in {8, 11} \/ pc \in {1, 4} \/ pc \in {2, 3} \/ pc \in {5, 6} \/ pc = 7 \/ pc = 10
  BY <1>4
<1> QED BY <1>9, <1>10, <1>11, <1>12, <1>13, <1>14, <1>15, <1>16, Zenon

-----------------------------------------------------------------------------
(* Every step of the boot.                                                 *)

LEMMA SerialNext == ASSUME SerialInv, [Next]_vars PROVE SerialInv'
<1>1. CASE Puts
  BY <1>1, PutsKeeps
<1>2. CASE Access
  BY <1>2, AccessKeeps
<1>3. CASE InterruptPanic
  BY <1>3, PanicKeeps
<1>4. CASE Transmit
  BY <1>4, TransmitKeeps
<1>5. CASE Program
  BY <1>5, OtherKeeps DEF Program, boot, serial
<1>6. CASE Programmed
  BY <1>6, OtherKeeps DEF Programmed, Go, serial
<1>7. CASE Memreset
  BY <1>7, OtherKeeps DEF Memreset, Go
<1>8. CASE Interruptible
  BY <1>8, OtherKeeps DEF Interruptible, Go, serial
<1>9. CASE UNCHANGED vars
  BY <1>9, OtherKeeps DEF vars, boot, serial
<1> QED BY <1>1, <1>2, <1>3, <1>4, <1>5, <1>6, <1>7, <1>8, <1>9, Zenon DEF Next

(* Only Program touches the controllers.                                   *)
LEMMA DmaNext == ASSUME Channels \subseteq 0..2, DmaInv, [Next]_vars
  PROVE DmaInv' /\ (Others(chan) \/ UNCHANGED dma)
<1>1. Controllers!OutB \/ UNCHANGED dma
  BY Zenon DEF Next, Puts, Access, Program, Programmed, Memreset, Interruptible, InterruptPanic,
               Transmit, vars
<1>2. CASE UNCHANGED dma
  <2>1. UNCHANGED <<chan, pc, flipflop, address, count, page, mode, masked>>
    BY <1>2 DEF dma
  <2>2. Controllers!TypeOK'
    <3>1. Controllers!Program' = Controllers!Program
      BY <2>1, Zenon DEF Controllers!Program, Controllers!FloppyDma, Controllers!FloppyDmaSetupRead
    <3> QED BY <2>1, <3>1, Zenon DEF DmaInv, Controllers!TypeOK
  <2>3. Controllers!RegistersOK'
    BY <2>1 DEF DmaInv, Controllers!RegistersOK
  <2> QED BY <1>2, <2>2, <2>3 DEF DmaInv
<1> QED BY <1>1, <1>2, OutBKeeps

(* The two invariants together are the one that the run checks.            *)
LEMMA Together == SerialInv /\ DmaInv => IInv
<1> SUFFICES ASSUME SerialInv, DmaInv PROVE IInv
  OBVIOUS
<1>1. at \in 1..(Len(Boot) + 1)
  <2>1. Len(Boot) = 14
    BY BootIs, Zenon
  <2> QED BY <2>1 DEF SerialInv, SerialTypeOK
<1> QED BY <1>1, Zenon DEF SerialInv, SerialTypeOK, DmaInv, IInv, TypeOK

-----------------------------------------------------------------------------
(* The theorems.                                                           *)

(* Whatever happens between two accesses to the port, what is left to      *)
(* write goes on where it was, and the port is as far as it was set.       *)
LEMMA SerialInvariance == Spec => []SerialInv
<1>1. Init => SerialInv
  BY SerialInit
<1>2. SerialInv /\ [Next]_vars => SerialInv'
  BY SerialNext
<1> QED BY <1>1, <1>2, PTL DEF Spec

(* On the channels whose ports the code knows, the inductive invariant     *)
(* that the run checks holds of every boot.                                *)
THEOREM Invariance == ASSUME Channels \subseteq 0..2 PROVE Spec => []IInv
<1>1. Init => DmaInv
  BY DmaInit
<1>2. DmaInv /\ [Next]_vars => DmaInv'
  BY DmaNext
<1>3. Spec => []DmaInv
  BY <1>1, <1>2, PTL DEF Spec
<1> QED BY <1>3, SerialInvariance, Together, PTL

(* No byte of text is taken for the rate of the port, wherever the report  *)
(* of an interrupt comes in between.                                       *)
THEOREM TextNeverRate == Spec => []TextIsNoRate
<1>1. SerialInv => TextIsNoRate
  <2>1. SUFFICES ASSUME SerialInv, Com!Latched, out # <<>> PROVE Head(out).part = "none"
    BY DEF TextIsNoRate, Com!TextIsNoRate
  <2>2. PICK settings \in 0..4, fifo \in 0..1 : Left(settings, fifo) /\ Meanwhile(settings, fifo)
    BY <2>1 DEF SerialInv
  <2>3. settings \in 1..3
    BY <2>1, <2>2, Zenon DEF Meanwhile
  <2>4. Head(out) = out[1] /\ 1 \in DOMAIN out
    <3>1. out \in Seq(Accesses)
      BY <2>1 DEF SerialInv, SerialTypeOK
    <3> QED BY <2>1, <3>1
  <2>5. IsSetting(out[1], 1 + 4 - settings)
    <3>1. /\ settings + fifo <= Len(out)
          /\ \/ 1 <= settings /\ IsSetting(out[1], 1 + 4 - settings)
             \/ settings < 1 /\ 1 <= settings + fifo /\ IsFifo(out[1])
             \/ settings + fifo < 1 /\ IsText(out[1])
      BY <2>2, <2>4 DEF Left
    <3> QED BY <2>3, <3>1
  <2> QED BY <2>4, <2>5, Zenon DEF IsSetting
<1> QED BY <1>1, SerialInvariance, PTL

(* What is printed after the bss is cleared leaves the port at the rate    *)
(* and in the format of setbr, although later stages set them again while  *)
(* it is being sent.                                                       *)
THEOREM TextSentAsSet == Spec => []SentAsSet
<1>1. SerialInv => SentAsSet
  BY DEF SerialInv
<1> QED BY <1>1, SerialInvariance, PTL

(* Programming the port throws no text away but the greeting's.            *)
THEOREM NothingElseFlushed == Spec => FlushesOnlyGreeting
<1>1. SerialInv /\ [Next]_vars =>
        [queue' = <<>> /\ out' # out => \A i \in DOMAIN queue : queue[i] = "greeting"]_(Com!serial)
  <2>1. SUFFICES ASSUME SerialInv, [Next]_vars, queue' = <<>>, out' # out
                 PROVE \A i \in DOMAIN queue : queue[i] = "greeting"
    BY Zenon DEF Com!serial, Com!processor, Com!uart
  <2>2. CASE queue = <<>>
    BY <2>2
  <2>3. CASE queue # <<>>
    <3>1. ~UNCHANGED queue /\ ~UNCHANGED out
      BY <2>1, <2>3
    <3>2. Access
      BY <2>1, <3>1, Zenon DEF Next, Puts, Com!Puts, Com!uart, Program, Programmed, Memreset, Interruptible,
                          InterruptPanic, Transmit, Com!Transmit, Com!processor, vars, serial
    <3>3. PICK settings \in 0..4, fifo \in 0..1 : Left(settings, fifo) /\ Meanwhile(settings, fifo)
      BY <2>1 DEF SerialInv
    <3>4. /\ out # <<>> /\ out' = Tail(out) /\ out \in Seq(Accesses) /\ at' = at
      BY <2>1, <3>2 DEF Access, Com!Access, boot, SerialInv, SerialTypeOK
    <3>5. /\ Head(out) \in Accesses
          /\ settings > 0 => IsSetting(Head(out), 5 - settings)
          /\ settings = 0 /\ fifo = 0 => IsText(Head(out))
      BY <3>3, <3>4, LeftAdvances
    <3>0. PICK port, value, part : Does(port, value, part)
      BY <3>2, <3>4, AccessDoes, Zenon
    <3>6. /\ port \in 1016..1019
          /\ port = 1016 /\ ~Com!Latched => Com!Take(part) /\ UNCHANGED <<lcr, divisor, enabled>>
          /\ port = 1016 /\ Com!Latched =>
               divisor' = <<value, divisor[2]>> /\ UNCHANGED <<lcr, enabled, queue>>
          /\ port = 1017 => /\ divisor' = IF Com!Latched THEN <<divisor[1], value>> ELSE divisor
                            /\ UNCHANGED <<lcr, enabled, queue>>
          /\ port = 1019 => lcr' = value /\ UNCHANGED <<divisor, enabled, queue>>
      BY <3>0, Zenon DEF Does
    <3>7. port = Head(out).port /\ part = Head(out).part
      BY <3>0, Zenon DEF Does
    <3>8. port = 1018 \/ (port = 1016 /\ ~Com!Latched)
      BY <3>1, <3>6
    <3>9. CASE port = 1018
      <4>1. settings = 0
        <5>1. SUFFICES ASSUME settings > 0 PROVE FALSE
          OBVIOUS
        <5>2. Head(out).port = 1016 + <<3, 0, 1, 3>>[5 - settings]
          BY <3>5, <5>1 DEF IsSetting, Com!Com1
        <5>3. 5 - settings \in {1, 2, 3, 4}
          BY <5>1
        <5> QED BY <3>7, <3>9, <5>2, <5>3
      <4>2. fifo = 1
        <5>1. fifo = 0 => Head(out).port = 1016
          BY <3>5, <4>1 DEF IsText, Com!Com1
        <5> QED BY <3>7, <3>9, <5>1
      <4> QED BY <3>3, <4>2, Zenon DEF Meanwhile, OnlyGreeting
    <3>10. CASE port = 1016 /\ ~Com!Latched
      <4>1. part \in TextParts
        <5>1. settings \notin 1..3
          BY <3>3, <3>10, Zenon DEF Meanwhile
        <5>2. settings # 4
          <6>1. settings = 4 => IsSetting(Head(out), 1)
            BY <3>5
          <6>2. settings = 4 => Head(out).port = 1019
            BY <6>1 DEF IsSetting, Com!Com1
          <6> QED BY <3>7, <3>10, <6>2
        <5>3. settings = 0
          BY <5>1, <5>2
        <5>4. fifo = 0 \/ (fifo = 1 /\ IsFifo(Head(out)))
          BY <3>3, <3>4, <5>3, LeftAdvances
        <5>5. IsFifo(Head(out)) => Head(out).port = 1018
          BY DEF IsFifo, Com!Com1
        <5> QED BY <3>5, <3>7, <3>10, <5>3, <5>4, <5>5 DEF IsText
      <4>2. queue \in Seq(TextParts) /\ Len(queue) <= Com!Room /\ enabled \in BOOLEAN
        BY <2>1, Zenon DEF SerialInv, SerialTypeOK, Com!TypeOK, QueueOK
      <4>3. queue' = queue \/ queue' # <<>>
        <5>1. Com!Take(part)
          BY <3>6, <3>10, Zenon
        <5> QED BY <4>1, <4>2, <5>1, TakeText, Zenon
      <4> QED BY <2>1, <3>1, <4>3
    <3> QED BY <3>8, <3>9, <3>10
  <2> QED BY <2>2, <2>3
<1> QED BY <1>1, SerialInvariance, PTL DEF Spec, FlushesOnlyGreeting, Com!FlushesOnlyGreeting

(* From the first byte on, the channel is closed or its transfers go to    *)
(* the buffer, whatever state the flip-flop was left in.                   *)
THEOREM TransfersStayInBuffer == ASSUME Channels \subseteq 0..2 PROVE Spec => []TransfersGoToBuffer
<1>1. IInv => TransfersGoToBuffer
  <2>1. SUFFICES ASSUME IInv, pc > 0, ~masked[chan]
                 PROVE /\ address[chan] = <<Controllers!Buffer % 256, Controllers!Buffer \div 256>>
                       /\ page[chan] = 0
                       /\ count[chan] = <<(Controllers!Bytes - 1) % 256, (Controllers!Bytes - 1) \div 256>>
    BY Zenon DEF TransfersGoToBuffer, Controllers!TransfersGoToBuffer
  <2>2. /\ pc >= 3 => address[chan][1] = Controllers!Buffer % 256
        /\ pc >= 4 => address[chan][2] = Controllers!Buffer \div 256
        /\ pc >= 6 => count[chan][1] = (Controllers!Bytes - 1) % 256
        /\ pc >= 7 => count[chan][2] = (Controllers!Bytes - 1) \div 256
        /\ pc >= 8 => page[chan] = 0
        /\ pc \in (1..8) \union {10, 11} => masked[chan]
    BY <2>1, Zenon DEF IInv, Controllers!RegistersOK
  <2>3. /\ pc \in 0..12 /\ chan \in Controllers!AllChannels
        /\ address \in [Controllers!AllChannels -> Controllers!Byte \X Controllers!Byte]
        /\ count \in [Controllers!AllChannels -> Controllers!Byte \X Controllers!Byte]
    <3>1. /\ chan \in Channels /\ pc \in 0..Len(Controllers!Program)
          /\ address \in [Controllers!AllChannels -> Controllers!Byte \X Controllers!Byte]
          /\ count \in [Controllers!AllChannels -> Controllers!Byte \X Controllers!Byte]
      BY <2>1, Zenon DEF IInv, TypeOK, Controllers!TypeOK
    <3>2. Len(Controllers!Program) = 12
      BY <3>1, ProgramBytes
    <3> QED BY <3>1, <3>2 DEF Controllers!AllChannels
  <2>4. pc >= 9
    BY <2>1, <2>2, <2>3
  <2>5. page[chan] = 0
    BY <2>2, <2>3, <2>4
  <2>6. /\ address[chan][1] = Controllers!Buffer % 256 /\ address[chan][2] = Controllers!Buffer \div 256
        /\ count[chan][1] = (Controllers!Bytes - 1) % 256
        /\ count[chan][2] = (Controllers!Bytes - 1) \div 256
    BY <2>2, <2>3, <2>4
  <2>7. ASSUME NEW pair \in Controllers!Byte \X Controllers!Byte, NEW a, NEW b,
               pair[1] = a, pair[2] = b
        PROVE pair = <<a, b>>
    BY <2>7
  <2>8. address[chan] = <<Controllers!Buffer % 256, Controllers!Buffer \div 256>>
    <3>1. PICK pair : pair = address[chan]
      OBVIOUS
    <3>2. PICK a, b : a = Controllers!Buffer % 256 /\ b = Controllers!Buffer \div 256
      OBVIOUS
    <3>3. pair \in Controllers!Byte \X Controllers!Byte
      BY <2>3, <3>1, Zenon
    <3>4. pair[1] = a /\ pair[2] = b
      BY <2>6, <3>1, <3>2, Zenon
    <3>5. pair = <<a, b>>
      BY <2>7, <3>3, <3>4, Zenon
    <3> QED BY <3>1, <3>2, <3>5, Zenon
  <2>9. count[chan] = <<(Controllers!Bytes - 1) % 256, (Controllers!Bytes - 1) \div 256>>
    <3>1. PICK pair : pair = count[chan]
      OBVIOUS
    <3>2. PICK a, b : a = (Controllers!Bytes - 1) % 256 /\ b = (Controllers!Bytes - 1) \div 256
      OBVIOUS
    <3>3. pair \in Controllers!Byte \X Controllers!Byte
      BY <2>3, <3>1, Zenon
    <3>4. pair[1] = a /\ pair[2] = b
      BY <2>6, <3>1, <3>2, Zenon
    <3>5. pair = <<a, b>>
      BY <2>7, <3>3, <3>4, Zenon
    <3> QED BY <3>1, <3>2, <3>5, Zenon
  <2> QED BY <2>5, <2>8, <2>9, Zenon
<1> QED BY <1>1, Invariance, PTL

(* The other channels keep their registers.                                *)
THEOREM OthersKept == ASSUME Channels \subseteq 0..2 PROVE Spec => OthersUntouched
<1>1. DmaInv /\ [Next]_vars =>
        [\A c \in Controllers!AllChannels \ {chan} :
           /\ address'[c] = address[c] /\ count'[c] = count[c] /\ page'[c] = page[c]
           /\ mode'[c] = mode[c] /\ masked'[c] = masked[c]]_(Controllers!vars)
  BY DmaNext, Zenon DEF Others, dma, Controllers!vars
<1>2. Init => DmaInv
  BY DmaInit
<1>3. DmaInv /\ [Next]_vars => DmaInv'
  BY DmaNext
<1> QED BY <1>1, <1>2, <1>3, PTL DEF Spec, OthersUntouched, Controllers!OthersUntouched
=============================================================================
