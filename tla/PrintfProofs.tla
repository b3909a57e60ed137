---------------------------- MODULE PrintfProofs ----------------------------
(***************************************************************************)
(* What vsprintf puts out for any format whose arguments are those written *)
(* for it: each directive reads its argument, a number printed, read in    *)
(* its base, is the number given, and a field has the width asked for, for *)
(* every flag, width and precision, every argument and all sizes of the    *)
(* types.  The digits are got by divisions and read by multiplications,    *)
(* both as often as it takes, so what they are is shown by induction.      *)
(***************************************************************************)
EXTENDS Printf, SequenceTheorems, WellFoundedInduction, TLAPS

-----------------------------------------------------------------------------
(* Induction over the naturals, for sets, and functions defined by it.     *)

LEMMA Induction == ASSUME NEW S, 0 \in S, \A n \in Nat : n \in S => n + 1 \in S
  PROVE Nat \subseteq S
<1>1. PICK R : R = OpToRel(<, Nat)
  OBVIOUS
<1>2. \A x, y \in Nat : <<x, y>> \in R <=> x < y
  <2>1. OpToRel(<, Nat) = {ss \in Nat \X Nat : ss[1] < ss[2]}
    BY Zenon DEF OpToRel
  <2> QED BY <1>1, <2>1
<1> SUFFICES ASSUME Nat \ S # {} PROVE FALSE
  OBVIOUS
<1>3. PICK n \in Nat \ S : \A k \in Nat \ S : ~(<<k, n>> \in R)
  <2>1. Nat \ S \subseteq Nat
    OBVIOUS
  <2> QED BY <1>1, <2>1, NatLessThanWellFounded, WFMin, Zenon
<1>4. n # 0 /\ n - 1 \in Nat /\ n - 1 < n /\ (n - 1) + 1 = n
  BY <1>3
<1>5. n - 1 \in S
  BY <1>2, <1>3, <1>4, Zenon
<1>6. n \in S
  BY <1>4, <1>5, Zenon
<1> QED BY <1>3, <1>6

(* A number is in S when all smaller ones are.                             *)
LEMMA StrongInduction ==
  ASSUME NEW S, \A n \in Nat : (\A k \in 0..(n - 1) : k \in S) => n \in S
  PROVE Nat \subseteq S
<1> DEFINE Below == {n \in Nat : \A k \in 0..n : k \in S}
<1>1. 0 \in Below
  <2>1. 0 \in S
    OBVIOUS
  <2> QED BY <2>1
<1>2. \A n \in Nat : n \in Below => n + 1 \in Below
  <2> SUFFICES ASSUME NEW n \in Nat, \A k \in 0..n : k \in S
               PROVE  \A k \in 0..(n + 1) : k \in S
    OBVIOUS
  <2>1. n + 1 \in S
    <3>1. n + 1 \in Nat /\ (n + 1) - 1 = n
      OBVIOUS
    <3> QED BY <3>1
  <2> QED BY <2>1
<1>3. Nat \subseteq Below
  <2> HIDE DEF Below
  <2> QED BY <1>1, <1>2, Induction, Zenon
<1> QED BY <1>3

(* f starts with base and goes on by step, up to n.                        *)
Recursion(f, base, step, n) == f[0] = base /\ \A k \in 1..n : f[k] = step[k][f[k - 1]]

LEMMA RecursionExists ==
  ASSUME NEW V, NEW base \in V, NEW step \in [Nat -> [V -> V]], NEW n \in Nat
  PROVE  \E f \in [0..n -> V] : Recursion(f, base, step, n)
<1> DEFINE S == {k \in Nat : \E f \in [0..k -> V] : Recursion(f, base, step, k)}
<1>1. 0 \in S
  <2>1. [k \in 0..0 |-> base] \in [0..0 -> V]
    OBVIOUS
  <2>2. Recursion([k \in 0..0 |-> base], base, step, 0)
    BY DEF Recursion
  <2> QED BY <2>1, <2>2
<1>2. ASSUME NEW k \in Nat, k \in S PROVE k + 1 \in S
  <2>1. PICK f \in [0..k -> V] : Recursion(f, base, step, k)
    BY <1>2
  <2> DEFINE g == [i \in 0..(k + 1) |-> IF i = k + 1 THEN step[i][f[k]] ELSE f[i]]
  <2>2. \A i \in 0..k : g[i] = f[i]
    OBVIOUS
  <2>3. g[k + 1] = step[k + 1][f[k]]
    OBVIOUS
  <2>4. g \in [0..(k + 1) -> V]
    <3>1. step[k + 1] \in [V -> V] /\ f[k] \in V
      OBVIOUS
    <3>2. step[k + 1][f[k]] \in V
      BY <3>1
    <3>3. ASSUME NEW i \in 0..(k + 1) PROVE g[i] \in V
      <4>1. CASE i = k + 1
        BY <2>3, <3>2, <4>1
      <4>2. CASE i # k + 1
        <5>1. i \in 0..k
          BY <4>2
        <5> QED BY <2>2, <5>1
      <4> QED BY <4>1, <4>2
    <3> QED BY <3>3
  <2> HIDE DEF g
  <2>5. ASSUME NEW i \in 1..(k + 1) PROVE g[i] = step[i][g[i - 1]]
    <3>1. CASE i = k + 1
      <4>1. i - 1 = k /\ g[k] = f[k]
        BY <2>2, <3>1
      <4> QED BY <2>3, <3>1, <4>1, Zenon
    <3>2. CASE i # k + 1
      <4>1. i \in 1..k /\ i \in 0..k /\ i - 1 \in 0..k
        BY <3>2
      <4>2. g[i] = f[i] /\ g[i - 1] = f[i - 1] /\ f[i] = step[i][f[i - 1]]
        BY <2>1, <2>2, <4>1, Zenon DEF Recursion
      <4> QED BY <4>2, Zenon
    <3> QED BY <3>1, <3>2
  <2>6. g[0] = base
    BY <2>1, <2>2 DEF Recursion
  <2>7. Recursion(g, base, step, k + 1)
    BY <2>5, <2>6 DEF Recursion
  <2> QED BY <2>4, <2>7
<1>3. Nat \subseteq S
  <2> HIDE DEF S
  <2> QED BY <1>1, <1>2, Induction, Zenon
<1> QED BY <1>3

-----------------------------------------------------------------------------
(* Sequences put together, and parts of them.                              *)

LEMMA Cat == ASSUME NEW S, NEW s \in Seq(S), NEW t \in Seq(S)
  PROVE /\ s \o t \in Seq(S) /\ Len(s \o t) = Len(s) + Len(t)
        /\ \A i \in 1..Len(s) : (s \o t)[i] = s[i]
        /\ \A i \in 1..Len(t) : (s \o t)[Len(s) + i] = t[i]
<1>1. /\ s \o t \in Seq(S) /\ Len(s \o t) = Len(s) + Len(t)
      /\ \A i \in 1..(Len(s) + Len(t)) : (s \o t)[i] = IF i <= Len(s) THEN s[i] ELSE t[i - Len(s)]
  BY ConcatProperties
<1>2. Len(s) \in Nat /\ Len(t) \in Nat
  OBVIOUS
<1>3. ASSUME NEW i \in 1..Len(t) PROVE (s \o t)[Len(s) + i] = t[i]
  <2>1. Len(s) + i \in 1..(Len(s) + Len(t)) /\ ~(Len(s) + i <= Len(s)) /\ (Len(s) + i) - Len(s) = i
    BY <1>2
  <2> QED BY <1>1, <2>1
<1>4. ASSUME NEW i \in 1..Len(s) PROVE (s \o t)[i] = s[i]
  <2>1. i \in 1..(Len(s) + Len(t)) /\ i <= Len(s)
    BY <1>2
  <2> QED BY <1>1, <2>1
<1> QED BY <1>1, <1>3, <1>4

(* Four parts.                                                             *)
FourParts(S, out, a, b, c, d) ==
    /\ out \in Seq(S) /\ Len(out) = Len(a) + Len(b) + Len(c) + Len(d)
    /\ \A i \in 1..Len(a) : out[i] = a[i]
    /\ \A i \in 1..Len(b) : out[Len(a) + i] = b[i]
    /\ \A i \in 1..Len(c) : out[Len(a) + Len(b) + i] = c[i]
    /\ \A i \in 1..Len(d) : out[Len(a) + Len(b) + Len(c) + i] = d[i]

LEMMA CatFour == ASSUME NEW S, NEW a \in Seq(S), NEW b \in Seq(S), NEW c \in Seq(S), NEW d \in Seq(S),
                        NEW out, out = a \o b \o c \o d
  PROVE FourParts(S, out, a, b, c, d)
<1>1. PICK ab : ab = a \o b
  OBVIOUS
<1>2. PICK abc : abc = ab \o c
  OBVIOUS
<1>3. out = abc \o d
  BY <1>1, <1>2, Zenon
<1>4. /\ ab \in Seq(S) /\ Len(ab) = Len(a) + Len(b)
      /\ \A i \in 1..Len(a) : ab[i] = a[i]
      /\ \A i \in 1..Len(b) : ab[Len(a) + i] = b[i]
  BY <1>1, Cat
<1>5. /\ abc \in Seq(S) /\ Len(abc) = Len(ab) + Len(c)
      /\ \A i \in 1..Len(ab) : abc[i] = ab[i]
      /\ \A i \in 1..Len(c) : abc[Len(ab) + i] = c[i]
  <2>1. /\ ab \o c \in Seq(S) /\ Len(ab \o c) = Len(ab) + Len(c)
        /\ \A i \in 1..Len(ab) : (ab \o c)[i] = ab[i]
        /\ \A i \in 1..Len(c) : (ab \o c)[Len(ab) + i] = c[i]
    <3>1. ab \in Seq(S)
      BY <1>4
    <3> QED BY <3>1, Cat
  <2> QED BY <1>2, <2>1, Zenon
<1>6. /\ out \in Seq(S) /\ Len(out) = Len(abc) + Len(d)
      /\ \A i \in 1..Len(abc) : out[i] = abc[i]
      /\ \A i \in 1..Len(d) : out[Len(abc) + i] = d[i]
  <2>1. /\ abc \o d \in Seq(S) /\ Len(abc \o d) = Len(abc) + Len(d)
        /\ \A i \in 1..Len(abc) : (abc \o d)[i] = abc[i]
        /\ \A i \in 1..Len(d) : (abc \o d)[Len(abc) + i] = d[i]
    <3>1. abc \in Seq(S)
      BY <1>5
    <3> QED BY <3>1, Cat
  <2> QED BY <1>3, <2>1, Zenon
<1>7. Len(a) \in Nat /\ Len(b) \in Nat /\ Len(c) \in Nat /\ Len(d) \in Nat
  OBVIOUS
<1>8. ASSUME NEW i \in 1..Len(a) PROVE out[i] = a[i]
  <2>1. i \in 1..Len(ab) /\ i \in 1..Len(abc)
    BY <1>4, <1>5, <1>7
  <2> QED BY <1>4, <1>5, <1>6, <2>1
<1>9. ASSUME NEW i \in 1..Len(b) PROVE out[Len(a) + i] = b[i]
  <2>1. Len(a) + i \in 1..Len(ab) /\ Len(a) + i \in 1..Len(abc)
    BY <1>4, <1>5, <1>7
  <2> QED BY <1>4, <1>5, <1>6, <2>1
<1>10. ASSUME NEW i \in 1..Len(c) PROVE out[Len(a) + Len(b) + i] = c[i]
  <2>1. Len(a) + Len(b) + i = Len(ab) + i /\ Len(ab) + i \in 1..Len(abc)
    BY <1>4, <1>5, <1>7
  <2> QED BY <1>5, <1>6, <2>1
<1>11. ASSUME NEW i \in 1..Len(d) PROVE out[Len(a) + Len(b) + Len(c) + i] = d[i]
  <2>1. Len(a) + Len(b) + Len(c) + i = Len(abc) + i
    BY <1>4, <1>5, <1>7
  <2> QED BY <1>6, <2>1
<1>12. Len(out) = Len(a) + Len(b) + Len(c) + Len(d)
  BY <1>4, <1>5, <1>6
<1> QED BY <1>6, <1>8, <1>9, <1>10, <1>11, <1>12, Zenon DEF FourParts

LEMMA Part == ASSUME NEW S, NEW s \in Seq(S), NEW m \in 1..(Len(s) + 1), NEW n \in 0..Len(s), m <= n + 1
  PROVE /\ SubSeq(s, m, n) \in Seq(S) /\ Len(SubSeq(s, m, n)) = n - m + 1
        /\ \A i \in 1..(n - m + 1) : SubSeq(s, m, n)[i] = s[m + i - 1]
<1>1. Len(s) \in Nat /\ \A i \in 1..Len(s) : s[i] \in S
  OBVIOUS
<1>2. PICK t : t = [i \in 1..(n - m + 1) |-> s[m + i - 1]]
  OBVIOUS
<1>3. \A i \in 1..(n - m + 1) : t[i] = s[m + i - 1] /\ t[i] \in S
  <2> TAKE i \in 1..(n - m + 1)
  <2>1. m + i - 1 \in 1..Len(s)
    BY <1>1
  <2> QED BY <1>1, <1>2, <2>1
<1>4. SubSeq(s, m, n) = t
  BY <1>2
<1>5. n - m + 1 \in Nat
  OBVIOUS
<1>6. t \in [1..(n - m + 1) -> S]
  BY <1>2, <1>3
<1>7. t \in Seq(S) /\ Len(t) = n - m + 1
  BY <1>5, <1>6
<1> QED BY <1>3, <1>4, <1>7

LEMMA Repeated == ASSUME NEW S, NEW c \in S, NEW n \in Int
  PROVE LET length == IF n > 0 THEN n ELSE 0
        IN  /\ Repeat(c, n) \in Seq(S) /\ Len(Repeat(c, n)) = length /\ length \in Nat
            /\ \A i \in 1..length : Repeat(c, n)[i] = c
<1> DEFINE length == IF n > 0 THEN n ELSE 0
<1>1. length \in Nat /\ 1..n = 1..length
  OBVIOUS
<1> HIDE DEF length
<1>2. Repeat(c, n) = [i \in 1..length |-> c]
  BY <1>1 DEF Repeat
<1>3. Repeat(c, n) \in [1..length -> S]
  BY <1>2
<1>4. Repeat(c, n) \in Seq(S) /\ Len(Repeat(c, n)) = length
  BY <1>1, <1>2, <1>3
<1> QED BY <1>1, <1>2, <1>4 DEF length

LEMMA EqualSeq == ASSUME NEW S, NEW T, NEW s \in Seq(S), NEW t \in Seq(T), Len(s) = Len(t),
                         \A i \in 1..Len(s) : s[i] = t[i]
  PROVE s = t
OBVIOUS

-----------------------------------------------------------------------------
(* The digits: the equation they are defined by holds for every number,    *)
(* since a division leaves less.                                           *)

Bases == {8, 10, 16}

LEMMA Divided == ASSUME NEW base \in Bases, NEW m \in Nat
  PROVE /\ m \div base \in Nat /\ m % base \in 0..(base - 1)
        /\ m = base * (m \div base) + (m % base)
        /\ m >= base => m \div base \in 0..(m - 1) /\ m \div base >= 1
<1>1. CASE base = 8
  BY <1>1
<1>2. CASE base = 10
  BY <1>2
<1>3. CASE base = 16
  BY <1>3
<1> QED BY <1>1, <1>2, <1>3 DEF Bases

NextDigits(g, base, small, m) ==
    IF m < base THEN <<Digit(m, small)>> ELSE Append(g[m \div base], Digit(m % base, small))
AreDigits(g, base, small, D) == g = [m \in D |-> NextDigits(g, base, small, m)]

LEMMA DigitsUnique ==
  ASSUME NEW base \in Bases, NEW small, NEW g, NEW h, NEW j \in Nat, NEW k \in Nat,
         AreDigits(g, base, small, 0..j), AreDigits(h, base, small, 0..k)
  PROVE  \A m \in Nat : m <= j /\ m <= k => g[m] = h[m]
<1> DEFINE S == {m \in Nat : m <= j /\ m <= k => g[m] = h[m]}
<1>1. ASSUME NEW m \in Nat, \A i \in 0..(m - 1) : i \in S PROVE m \in S
  <2> SUFFICES ASSUME m <= j, m <= k PROVE g[m] = h[m]
    OBVIOUS
  <2>1. m \in 0..j /\ m \in 0..k
    OBVIOUS
  <2>2. g[m] = NextDigits(g, base, small, m) /\ h[m] = NextDigits(h, base, small, m)
    BY <2>1 DEF AreDigits
  <2>3. CASE m < base
    BY <2>2, <2>3 DEF NextDigits
  <2>4. CASE ~(m < base)
    <3>1. m \div base \in 0..(m - 1)
      BY <2>4, Divided DEF Bases
    <3>2. g[m \div base] = h[m \div base]
      <4>1. PICK q : q = m \div base
        OBVIOUS
      <4>2. q \in S /\ q \in Nat /\ q <= j /\ q <= k
        BY <1>1, <2>1, <3>1, <4>1
      <4>3. g[q] = h[q]
        BY <4>2
      <4> QED BY <4>1, <4>3, Zenon
    <3> QED BY <2>2, <2>4, <3>2, Zenon DEF NextDigits
  <2> QED BY <2>3, <2>4
<1>2. Nat \subseteq S
  <2> HIDE DEF S
  <2> QED BY <1>1, StrongInduction
<1> QED BY <1>2

LEMMA DigitsUpTo == ASSUME NEW base \in Bases, NEW small, NEW n \in Nat
  PROVE \E g : AreDigits(g, base, small, 0..n)
<1> DEFINE S == {k \in Nat : \E g : AreDigits(g, base, small, 0..k)}
<1>1. 0 \in S
  <2> DEFINE g == [m \in 0..0 |-> <<Digit(0, small)>>]
  <2>1. ASSUME NEW m \in 0..0 PROVE NextDigits(g, base, small, m) = <<Digit(0, small)>>
    <3>1. m = 0 /\ 0 < base
      BY DEF Bases
    <3> QED BY <3>1 DEF NextDigits
  <2>2. AreDigits(g, base, small, 0..0)
    BY <2>1 DEF AreDigits
  <2> QED BY <2>2
<1>2. ASSUME NEW k \in Nat, k \in S PROVE k + 1 \in S
  <2>1. PICK g : AreDigits(g, base, small, 0..k)
    BY <1>2
  <2> DEFINE h == [m \in 0..(k + 1) |-> IF m = k + 1 THEN NextDigits(g, base, small, m) ELSE g[m]]
  <2>2. \A m \in 0..k : h[m] = g[m]
    OBVIOUS
  <2>3. h[k + 1] = NextDigits(g, base, small, k + 1)
    OBVIOUS
  <2>4. h = [m \in 0..(k + 1) |-> h[m]]
    OBVIOUS
  <2> HIDE DEF h
  <2>5. ASSUME NEW m \in 0..(k + 1) PROVE NextDigits(h, base, small, m) = NextDigits(g, base, small, m)
    <3>1. CASE m < base
      BY <3>1 DEF NextDigits
    <3>2. CASE ~(m < base)
      <4>1. m \div base \in 0..(m - 1)
        BY <3>2, Divided DEF Bases
      <4>2. PICK q : q = m \div base
        OBVIOUS
      <4>3. q \in 0..k
        BY <4>1, <4>2
      <4>4. h[m \div base] = g[m \div base]
        BY <2>2, <4>2, <4>3, Zenon
      <4> QED BY <4>4, Zenon DEF NextDigits
    <3> QED BY <3>1, <3>2
  <2>6. ASSUME NEW m \in 0..(k + 1) PROVE h[m] = NextDigits(h, base, small, m)
    <3>1. CASE m = k + 1
      BY <2>3, <2>5, <3>1
    <3>2. CASE m # k + 1
      <4>1. m \in 0..k
        BY <3>2
      <4>2. g[m] = NextDigits(g, base, small, m)
        BY <2>1, <4>1 DEF AreDigits
      <4> QED BY <2>2, <2>5, <4>1, <4>2
    <3> QED BY <3>1, <3>2
  <2>7. AreDigits(h, base, small, 0..(k + 1))
    BY <2>4, <2>6 DEF AreDigits
  <2> QED BY <2>7
<1>3. Nat \subseteq S
  <2> HIDE DEF S
  <2> QED BY <1>1, <1>2, Induction, Zenon
<1> QED BY <1>3

LEMMA DigitsExist == ASSUME NEW base \in Bases, NEW small
  PROVE \E g : AreDigits(g, base, small, Nat)
<1> DEFINE Up(m) == CHOOSE h : AreDigits(h, base, small, 0..m)
           g == [m \in Nat |-> Up(m)[m]]
<1>1. ASSUME NEW m \in Nat PROVE AreDigits(Up(m), base, small, 0..m)
  BY DigitsUpTo, Zenon
<1>2. ASSUME NEW m \in Nat, NEW i \in 0..m PROVE g[i] = Up(m)[i]
  <2>1. i \in Nat /\ i <= i /\ i <= m
    OBVIOUS
  <2>2. g[i] = Up(i)[i]
    BY <2>1
  <2>3. Up(i)[i] = Up(m)[i]
    <3>1. AreDigits(Up(i), base, small, 0..i) /\ AreDigits(Up(m), base, small, 0..m)
      BY <1>1, <2>1, Zenon
    <3>2. PICK a, b : a = Up(i) /\ b = Up(m)
      OBVIOUS
    <3>3. AreDigits(a, base, small, 0..i) /\ AreDigits(b, base, small, 0..m)
      BY <3>1, <3>2, Zenon
    <3>4. a[i] = b[i]
      BY <2>1, <3>3, DigitsUnique
    <3> QED BY <3>2, <3>4, Zenon
  <2> QED BY <2>2, <2>3, Zenon
<1>3. \A m \in Nat : g[m] = NextDigits(g, base, small, m)
  <2> TAKE m \in Nat
  <2>1. m \in 0..m
    OBVIOUS
  <2>2. g[m] = NextDigits(Up(m), base, small, m)
    <3>1. Up(m)[m] = NextDigits(Up(m), base, small, m)
      <4> HIDE DEF Up
      <4> QED BY <1>1, <2>1 DEF AreDigits
    <3> QED BY <1>2, <2>1, <3>1, Zenon
  <2> HIDE DEF g, Up
  <2>3. CASE m < base
    BY <2>2, <2>3 DEF NextDigits
  <2>4. CASE ~(m < base)
    <3>1. m \div base \in 0..(m - 1)
      BY <2>4, Divided DEF Bases
    <3>2. PICK q : q = m \div base
      OBVIOUS
    <3>3. q \in 0..m
      BY <3>1, <3>2
    <3>4. g[m \div base] = Up(m)[m \div base]
      BY <1>2, <3>2, <3>3, Zenon
    <3> QED BY <2>2, <3>4, Zenon DEF NextDigits
  <2> QED BY <2>3, <2>4
<1>4. g = [m \in Nat |-> g[m]]
  OBVIOUS
<1> HIDE DEF g
<1>5. AreDigits(g, base, small, Nat)
  BY <1>3, <1>4 DEF AreDigits
<1> QED BY <1>5

LEMMA DigitsDefined == ASSUME NEW base \in Bases, NEW small, NEW m \in Nat
  PROVE /\ m < base => Digits(m, base, small) = <<Digit(m, small)>>
        /\ m >= base => Digits(m, base, small)
                          = Append(Digits(m \div base, base, small), Digit(m % base, small))
<1>1. PICK g : g = CHOOSE h : AreDigits(h, base, small, Nat)
  OBVIOUS
<1>2. AreDigits(g, base, small, Nat)
  BY <1>1, DigitsExist, Zenon
<1>3. ASSUME NEW n \in Nat PROVE Digits(n, base, small) = g[n]
  BY <1>1, Zenon DEF Digits, AreDigits, NextDigits
<1>4. g[m] = NextDigits(g, base, small, m)
  BY <1>2 DEF AreDigits
<1>5. ASSUME m < base PROVE Digits(m, base, small) = <<Digit(m, small)>>
  BY <1>3, <1>4, <1>5 DEF NextDigits
<1>6. ASSUME m >= base
      PROVE  Digits(m, base, small) = Append(Digits(m \div base, base, small), Digit(m % base, small))
  <2>1. m \div base \in Nat
    BY Divided
  <2>2. Digits(m, base, small) = g[m] /\ Digits(m \div base, base, small) = g[m \div base]
    BY <1>3, <2>1, Zenon
  <2>3. ~(m < base)
    BY <1>6 DEF Bases
  <2>4. g[m] = Append(g[m \div base], Digit(m % base, small))
    BY <1>4, <2>3, Zenon DEF NextDigits
  <2> QED BY <2>2, <2>4, Zenon
<1> QED BY <1>5, <1>6, Zenon

-----------------------------------------------------------------------------
(* The value of figures.                                                   *)

AreValues(f, s, base) ==
    /\ f \in [0..Len(s) -> Int]
    /\ f[0] = 0 /\ \A k \in 1..Len(s) : f[k] = (base * f[k - 1]) + DigitValue(s[k])

LEMMA ValuesExist == ASSUME NEW base \in Bases, NEW s \in Seq(Int)
  PROVE \E f : AreValues(f, s, base) /\ ValueOf(s, base) = f[Len(s)]
<1> DEFINE Is(f) == f = [k \in 0..Len(s) |->
                           IF k = 0 THEN 0 ELSE (base * f[k - 1]) + DigitValue(s[k])]
           step == [k \in Nat |-> [v \in Int |-> (base * v) + (IF k \in 1..Len(s) THEN DigitValue(s[k])
                                                               ELSE 0)]]
<1>1. Len(s) \in Nat /\ \A k \in 1..Len(s) : s[k] \in Int
  OBVIOUS
<1>2. \A k \in 1..Len(s) : DigitValue(s[k]) \in Int
  BY <1>1 DEF DigitValue, Zero
<1>3. base \in Int
  BY DEF Bases
<1>4. step \in [Nat -> [Int -> Int]]
  BY <1>2, <1>3
<1>5. PICK g \in [0..Len(s) -> Int] : Recursion(g, 0, step, Len(s))
  <2>1. Len(s) \in Nat /\ 0 \in Int
    BY <1>1
  <2> HIDE DEF step
  <2>2. step \in [Nat -> [Int -> Int]]
    BY <1>4
  <2> QED BY <2>1, <2>2, RecursionExists, Zenon
<1>6. \A k \in 1..Len(s) : g[k] = (base * g[k - 1]) + DigitValue(s[k])
  <2> TAKE k \in 1..Len(s)
  <2>1. g[k] = step[k][g[k - 1]]
    BY <1>5, Zenon DEF Recursion
  <2>2. k \in Nat /\ k - 1 \in 0..Len(s)
    OBVIOUS
  <2>3. g[k - 1] \in Int
    BY <2>2
  <2> QED BY <2>1, <2>2, <2>3
<1>7. Is(g)
  BY <1>1, <1>5, <1>6 DEF Recursion
<1>8. PICK f : f = CHOOSE h : Is(h)
  OBVIOUS
<1>9. Is(f)
  BY <1>7, <1>8, Zenon
<1>10. ValueOf(s, base) = f[Len(s)]
  BY <1>8, Zenon DEF ValueOf
<1>11. f[0] = 0 /\ \A k \in 1..Len(s) : f[k] = (base * f[k - 1]) + DigitValue(s[k])
  BY <1>1, <1>9
<1>12. f \in [0..Len(s) -> Int]
  <2> DEFINE S == {k \in Nat : k <= Len(s) => f[k] \in Int}
  <2>1. 0 \in S
    BY <1>11
  <2>2. ASSUME NEW k \in Nat, k \in S PROVE k + 1 \in S
    <3> SUFFICES ASSUME k + 1 <= Len(s) PROVE f[k + 1] \in Int
      OBVIOUS
    <3>1. k + 1 \in 1..Len(s) /\ (k + 1) - 1 = k /\ f[k] \in Int
      BY <1>1, <2>2
    <3>2. f[k + 1] = (base * f[k]) + DigitValue(s[k + 1])
      BY <1>11, <3>1
    <3>3. DigitValue(s[k + 1]) \in Int
      BY <1>2, <3>1, Zenon
    <3> QED BY <1>3, <3>1, <3>2, <3>3
  <2>3. Nat \subseteq S
    <3> HIDE DEF S
    <3> QED BY <2>1, <2>2, Induction, Zenon
  <2>4. \A k \in 0..Len(s) : f[k] \in Int
    BY <1>1, <2>3
  <2>5. f = [k \in 0..Len(s) |-> f[k]]
    BY <1>9
  <2> QED BY <2>4, <2>5
<1>13. AreValues(f, s, base)
  BY <1>11, <1>12 DEF AreValues
<1> QED BY <1>10, <1>13

(* Zeros before the figures add nothing.                                   *)
ZerosThen(z, n, s, t) ==
    /\ n <= Len(t) /\ z + n <= Len(s)
    /\ \A i \in 1..z : s[i] = Zero
    /\ \A i \in 1..n : s[z + i] = t[i]

LEMMA Shifted ==
  ASSUME NEW base \in Bases, NEW s \in Seq(Int), NEW t \in Seq(Int), NEW f, NEW g,
         AreValues(f, s, base), AreValues(g, t, base),
         NEW z \in Nat, NEW n \in Nat, ZerosThen(z, n, s, t)
  PROVE  f[z + n] = g[n]
<1>0. /\ n <= Len(t) /\ z + n <= Len(s)
      /\ \A i \in 1..z : s[i] = Zero
      /\ \A i \in 1..n : s[z + i] = t[i]
  BY Zenon DEF ZerosThen
<1>1. /\ f[0] = 0 /\ \A k \in 1..Len(s) : f[k] = (base * f[k - 1]) + DigitValue(s[k])
      /\ g[0] = 0 /\ \A k \in 1..Len(t) : g[k] = (base * g[k - 1]) + DigitValue(t[k])
  BY DEF AreValues
<1>2. Len(s) \in Nat /\ Len(t) \in Nat
  OBVIOUS
<1>3. f[z] = 0
  <2> DEFINE S == {k \in Nat : k <= z => f[k] = 0}
  <2>1. 0 \in S
    BY <1>1
  <2>2. ASSUME NEW k \in Nat, k \in S PROVE k + 1 \in S
    <3> SUFFICES ASSUME k + 1 <= z PROVE f[k + 1] = 0
      OBVIOUS
    <3>1. k + 1 \in 1..z /\ k + 1 \in 1..Len(s) /\ (k + 1) - 1 = k /\ f[k] = 0
      BY <1>0, <1>2, <2>2
    <3>2. f[k + 1] = (base * f[k]) + DigitValue(s[k + 1]) /\ s[k + 1] = Zero
      BY <1>0, <1>1, <3>1
    <3>3. base * 0 = 0
      BY DEF Bases
    <3>4. DigitValue(Zero) = 0
      BY DEF DigitValue, Zero
    <3>5. f[k + 1] = 0 + 0
      BY <3>1, <3>2, <3>3, <3>4, Zenon
    <3> QED BY <3>5
  <2>3. Nat \subseteq S
    <3> HIDE DEF S
    <3> QED BY <2>1, <2>2, Induction, Zenon
  <2> QED BY <2>3
<1> DEFINE S == {k \in Nat : k <= n => f[z + k] = g[k]}
<1>4. 0 \in S
  <2>1. z + 0 = z
    OBVIOUS
  <2> QED BY <1>1, <1>3, <2>1
<1>5. ASSUME NEW k \in Nat, k \in S PROVE k + 1 \in S
  <2> SUFFICES ASSUME k + 1 <= n PROVE f[z + (k + 1)] = g[k + 1]
    OBVIOUS
  <2>1. /\ k + 1 \in 1..Len(t) /\ z + (k + 1) \in 1..Len(s) /\ k + 1 \in 1..n
        /\ (k + 1) - 1 = k /\ (z + (k + 1)) - 1 = z + k /\ f[z + k] = g[k]
    BY <1>0, <1>2, <1>5
  <2>2. f[z + (k + 1)] = (base * f[z + k]) + DigitValue(s[z + (k + 1)])
    BY <1>1, <2>1, Zenon
  <2>3. g[k + 1] = (base * g[k]) + DigitValue(t[k + 1])
    BY <1>1, <2>1, Zenon
  <2> QED BY <1>0, <2>1, <2>2, <2>3, Zenon
<1>6. Nat \subseteq S
  <2> HIDE DEF S
  <2> QED BY <1>4, <1>5, Induction, Zenon
<1> QED BY <1>6

LEMMA ValueShifted ==
  ASSUME NEW base \in Bases, NEW s \in Seq(Int), NEW t \in Seq(Int), NEW z \in Nat,
         Len(s) = z + Len(t), \A i \in 1..z : s[i] = Zero, \A i \in 1..Len(t) : s[z + i] = t[i]
  PROVE  ValueOf(s, base) = ValueOf(t, base)
<1>1. PICK f : AreValues(f, s, base) /\ ValueOf(s, base) = f[Len(s)]
  BY ValuesExist
<1>2. PICK g : AreValues(g, t, base) /\ ValueOf(t, base) = g[Len(t)]
  BY ValuesExist
<1>3. PICK n : n = Len(t)
  OBVIOUS
<1>4. f[z + n] = g[n]
  <2>1. n \in Nat
    BY <1>3
  <2>2. ZerosThen(z, n, s, t)
    BY <1>3 DEF ZerosThen
  <2>3. AreValues(f, s, base)
    BY <1>1
  <2>4. AreValues(g, t, base)
    BY <1>2
  <2> QED BY <2>1, <2>2, <2>3, <2>4, Shifted
<1> QED BY <1>1, <1>2, <1>3, <1>4, Zenon

LEMMA ValueAppended == ASSUME NEW base \in Bases, NEW s \in Seq(Int), NEW c \in Int
  PROVE ValueOf(Append(s, c), base) = (base * ValueOf(s, base)) + DigitValue(c)
<1>1. PICK t : t = Append(s, c)
  OBVIOUS
<1>2. /\ t \in Seq(Int) /\ Len(t) = Len(s) + 1 /\ Len(s) \in Nat
      /\ t[Len(s) + 1] = c /\ \A i \in 1..Len(s) : t[i] = s[i]
  BY <1>1
<1>3. PICK f : AreValues(f, s, base) /\ ValueOf(s, base) = f[Len(s)]
  BY ValuesExist
<1>4. PICK g : AreValues(g, t, base) /\ ValueOf(t, base) = g[Len(t)]
  BY <1>2, ValuesExist
<1>5. g[Len(s)] = f[Len(s)]
  <2>1. PICK n : n = Len(s)
    OBVIOUS
  <2>2. n \in Nat
    BY <2>1
  <2>3. 0 \in Nat /\ 0 + n = n
    BY <2>2
  <2>4. ZerosThen(0, n, t, s)
    BY <1>2, <2>1 DEF ZerosThen
  <2>5. AreValues(f, s, base)
    BY <1>3
  <2>6. AreValues(g, t, base)
    BY <1>4
  <2>7. t \in Seq(Int)
    BY <1>2
  <2>8. g[0 + n] = f[n]
    BY <2>2, <2>3, <2>4, <2>5, <2>6, <2>7, Shifted
  <2> QED BY <2>1, <2>3, <2>8, Zenon
<1>6. g[Len(s) + 1] = (base * g[Len(s)]) + DigitValue(t[Len(s) + 1])
  <2>1. Len(s) + 1 \in 1..Len(t) /\ (Len(s) + 1) - 1 = Len(s)
    BY <1>2
  <2> QED BY <1>4, <2>1, Zenon DEF AreValues
<1> QED BY <1>1, <1>2, <1>3, <1>4, <1>5, <1>6, Zenon

LEMMA ValueOfOne == ASSUME NEW base \in Bases, NEW c \in Int
  PROVE ValueOf(<<c>>, base) = DigitValue(c)
<1>1. PICK t : t = <<c>>
  OBVIOUS
<1>2. t \in Seq(Int) /\ Len(t) = 1 /\ t[1] = c
  BY <1>1
<1>3. PICK g : AreValues(g, t, base) /\ ValueOf(t, base) = g[Len(t)]
  BY <1>2, ValuesExist
<1>4. g[1] = (base * 0) + DigitValue(c)
  <2>1. 1 \in 1..Len(t) /\ 1 - 1 = 0
    BY <1>2
  <2> QED BY <1>2, <1>3, <2>1, Zenon DEF AreValues
<1>5. base * 0 = 0 /\ DigitValue(c) \in Int
  BY DEF Bases, DigitValue, Zero
<1>6. g[1] = DigitValue(c)
  BY <1>4, <1>5
<1> QED BY <1>1, <1>2, <1>3, <1>6, Zenon


-----------------------------------------------------------------------------
(* The figures of a number: their value is the number, they are as few as  *)
(* it takes, and none could be taken for a blank, a sign or a prefix.      *)

Figures == (48..57) \union (65..70) \union (97..102)

LEMMA DigitIs == ASSUME NEW base \in Bases, NEW small \in BOOLEAN, NEW d \in 0..(base - 1)
  PROVE /\ Digit(d, small) \in Figures /\ DigitValue(Digit(d, small)) = d
        /\ Digit(d, small) >= 97 => small
<1>1. d \in 0..15
  BY DEF Bases
<1> QED BY <1>1 DEF Digit, DigitValue, Figures, Zero

Readable(D, m, base, small) ==
    /\ D \in Seq(Int) /\ Len(D) >= 1
    /\ \A i \in 1..Len(D) : /\ D[i] \in Figures /\ DigitValue(D[i]) \in 0..(base - 1)
                            /\ D[i] >= 97 => small
    /\ ValueOf(D, base) = m

LEMMA DigitsReadable == ASSUME NEW base \in Bases, NEW small \in BOOLEAN, NEW m \in Nat
  PROVE Readable(Digits(m, base, small), m, base, small)
<1> DEFINE S == {n \in Nat : Readable(Digits(n, base, small), n, base, small)}
<1>1. ASSUME NEW n \in Nat, \A k \in 0..(n - 1) : k \in S PROVE n \in S
  <2>1. CASE n < base
    <3>1. PICK c : c = Digit(n, small)
      OBVIOUS
    <3>2. n \in 0..(base - 1)
      BY <2>1 DEF Bases
    <3>3. c \in Figures /\ DigitValue(c) = n /\ (c >= 97 => small)
      BY <3>1, <3>2, DigitIs, Zenon
    <3>4. c \in Int
      BY <3>3 DEF Figures
    <3>5. Digits(n, base, small) = <<c>>
      BY <2>1, <3>1, DigitsDefined, Zenon
    <3>6. ValueOf(<<c>>, base) = n
      BY <3>3, <3>4, ValueOfOne
    <3>7. Readable(<<c>>, n, base, small)
      BY <3>2, <3>3, <3>4, <3>6 DEF Readable
    <3> QED BY <3>5, <3>7
  <2>2. CASE ~(n < base)
    <3>1. PICK q, r : q = n \div base /\ r = n % base
      OBVIOUS
    <3>2. q \in Nat /\ r \in 0..(base - 1) /\ n = base * q + r /\ q \in 0..(n - 1)
      BY <2>2, <3>1, Divided DEF Bases
    <3>3. PICK c : c = Digit(r, small)
      OBVIOUS
    <3>4. c \in Figures /\ DigitValue(c) = r /\ (c >= 97 => small)
      BY <3>2, <3>3, DigitIs, Zenon
    <3>5. c \in Int
      BY <3>4 DEF Figures
    <3>6. PICK D : D = Digits(q, base, small)
      OBVIOUS
    <3>7. Readable(D, q, base, small)
      BY <1>1, <3>2, <3>6, Zenon
    <3>8. n >= base
      BY <2>2 DEF Bases
    <3>9. Digits(n, base, small) = Append(D, c)
      BY <3>1, <3>3, <3>6, <3>8, DigitsDefined, Zenon
    <3>10. D \in Seq(Int) /\ ValueOf(D, base) = q
      BY <3>7, Zenon DEF Readable
    <3>11. ValueOf(Append(D, c), base) = n
      <4>1. ValueOf(Append(D, c), base) = base * ValueOf(D, base) + DigitValue(c)
        BY <3>5, <3>10, ValueAppended
      <4> QED BY <3>2, <3>4, <3>10, <4>1
    <3>12. PICK E : E = Append(D, c)
      OBVIOUS
    <3>13. /\ E \in Seq(Int) /\ Len(E) = Len(D) + 1 /\ Len(D) \in Nat
           /\ E[Len(D) + 1] = c /\ \A i \in 1..Len(D) : E[i] = D[i]
      BY <3>5, <3>10, <3>12
    <3>14. ASSUME NEW i \in 1..Len(E)
           PROVE  /\ E[i] \in Figures /\ DigitValue(E[i]) \in 0..(base - 1)
                  /\ E[i] >= 97 => small
      <4>1. CASE i = Len(D) + 1
        BY <3>2, <3>4, <3>13, <4>1
      <4>2. CASE i # Len(D) + 1
        <5>1. i \in 1..Len(D)
          BY <3>13, <4>2
        <5> QED BY <3>7, <3>13, <5>1, Zenon DEF Readable
      <4> QED BY <4>1, <4>2
    <3>15. ValueOf(E, base) = n /\ Len(E) >= 1
      BY <3>11, <3>12, <3>13
    <3>16. Readable(E, n, base, small)
      BY <3>13, <3>14, <3>15 DEF Readable
    <3> QED BY <3>9, <3>12, <3>16
  <2> QED BY <2>1, <2>2
<1>2. Nat \subseteq S
  <2> HIDE DEF S
  <2> QED BY <1>1, StrongInduction
<1> QED BY <1>2

LEMMA Times == ASSUME NEW base \in Bases
  PROVE /\ \A x \in Nat : base * x \in Nat /\ base * x >= x
        /\ \A x, y \in Nat : x <= y => base * x <= base * y
        /\ \A x, y \in Nat : x < y => base * x + base <= base * y
<1>1. CASE base = 8
  BY <1>1
<1>2. CASE base = 10
  BY <1>2
<1>3. CASE base = 16
  BY <1>3
<1> QED BY <1>1, <1>2, <1>3 DEF Bases

ArePowers(p, base, n) == /\ p \in [0..n -> Nat] /\ p[0] = 1
                         /\ \A k \in 1..n : p[k] = base * p[k - 1]
Fewest(p, v, k) == p[k] > v /\ (k > 1 => p[k - 1] <= v)

LEMMA PowersExist == ASSUME NEW base \in Bases, NEW v \in Nat
  PROVE \E p : /\ ArePowers(p, base, v + 1)
               /\ FewestFigures(v, base) = CHOOSE k \in 1..(v + 1) : Fewest(p, v, k)
<1> DEFINE Is(f) == f = [k \in 0..(v + 1) |-> IF k = 0 THEN 1 ELSE base * f[k - 1]]
           step == [k \in Nat |-> [x \in Nat |-> base * x]]
<1>1. step \in [Nat -> [Nat -> Nat]]
  BY Times
<1>2. PICK g \in [0..(v + 1) -> Nat] : Recursion(g, 1, step, v + 1)
  <2>1. v + 1 \in Nat /\ 1 \in Nat
    OBVIOUS
  <2> HIDE DEF step
  <2>2. step \in [Nat -> [Nat -> Nat]]
    BY <1>1
  <2>3. PICK n : n = v + 1
    OBVIOUS
  <2>4. n \in Nat
    BY <2>1, <2>3
  <2>5. \E g \in [0..n -> Nat] : Recursion(g, 1, step, n)
    BY <2>1, <2>2, <2>4, RecursionExists, Zenon
  <2> QED BY <2>3, <2>5, Zenon
<1>3. \A k \in 1..(v + 1) : g[k] = base * g[k - 1]
  <2> TAKE k \in 1..(v + 1)
  <2>1. g[k] = step[k][g[k - 1]]
    BY <1>2, Zenon DEF Recursion
  <2>2. k \in Nat /\ k - 1 \in 0..(v + 1)
    OBVIOUS
  <2>3. g[k - 1] \in Nat
    BY <2>2
  <2> QED BY <2>1, <2>2, <2>3
<1>4. Is(g)
  BY <1>2, <1>3 DEF Recursion
<1>5. PICK f : f = CHOOSE h : Is(h)
  OBVIOUS
<1>6. Is(f)
  BY <1>4, <1>5, Zenon
<1>7. FewestFigures(v, base) = CHOOSE k \in 1..(v + 1) : Fewest(f, v, k)
  BY <1>5, Zenon DEF FewestFigures, Fewest
<1>8. f[0] = 1 /\ \A k \in 1..(v + 1) : f[k] = base * f[k - 1]
  BY <1>6
<1>9. f \in [0..(v + 1) -> Nat]
  <2> DEFINE S == {k \in Nat : k <= v + 1 => f[k] \in Nat}
  <2>1. 0 \in S
    BY <1>8
  <2>2. ASSUME NEW k \in Nat, k \in S PROVE k + 1 \in S
    <3> SUFFICES ASSUME k + 1 <= v + 1 PROVE f[k + 1] \in Nat
      OBVIOUS
    <3>1. k + 1 \in 1..(v + 1) /\ (k + 1) - 1 = k /\ f[k] \in Nat
      BY <2>2
    <3>2. f[k + 1] = base * f[k]
      BY <1>8, <3>1
    <3> QED BY <3>1, <3>2, Times
  <2>3. Nat \subseteq S
    <3> HIDE DEF S
    <3> QED BY <2>1, <2>2, Induction, Zenon
  <2>4. \A k \in 0..(v + 1) : f[k] \in Nat
    BY <2>3
  <2>5. f = [k \in 0..(v + 1) |-> f[k]]
    BY <1>6
  <2> QED BY <2>4, <2>5
<1>10. ArePowers(f, base, v + 1)
  BY <1>8, <1>9 DEF ArePowers
<1> QED BY <1>7, <1>10

LEMMA PowersGrow == ASSUME NEW base \in Bases, NEW n \in Nat, NEW p, ArePowers(p, base, n)
  PROVE \A j \in 0..n : \A i \in 0..j : p[i] <= p[j]
<1>1. /\ p \in [0..n -> Nat] /\ p[0] = 1
      /\ \A k \in 1..n : p[k] = base * p[k - 1]
  BY DEF ArePowers
<1> DEFINE S == {j \in Nat : j <= n => \A i \in 0..j : p[i] <= p[j]}
<1>2. 0 \in S
  BY <1>1
<1>3. ASSUME NEW j \in Nat, j \in S PROVE j + 1 \in S
  <2> SUFFICES ASSUME j + 1 <= n, NEW i \in 0..(j + 1) PROVE p[i] <= p[j + 1]
    OBVIOUS
  <2>1. p[j + 1] = base * p[j] /\ p[j] \in Nat /\ p[j + 1] \in Nat
    <3>1. j + 1 \in 1..n /\ (j + 1) - 1 = j /\ j \in 0..n /\ j + 1 \in 0..n
      OBVIOUS
    <3> QED BY <1>1, <3>1
  <2>2. p[j] <= p[j + 1]
    BY <2>1, Times
  <2>3. CASE i = j + 1
    BY <2>1, <2>3
  <2>4. CASE i # j + 1
    <3>1. i \in 0..j /\ p[i] <= p[j] /\ p[i] \in Nat
      BY <1>1, <1>3, <2>4
    <3> QED BY <2>1, <2>2, <3>1
  <2> QED BY <2>3, <2>4
<1>4. Nat \subseteq S
  <2> HIDE DEF S
  <2> QED BY <1>2, <1>3, Induction, Zenon
<1> QED BY <1>4

(* There are as many digits as powers of the base up to the number.        *)
LEMMA LengthIsFewest ==
  ASSUME NEW base \in Bases, NEW small \in BOOLEAN, NEW v \in Nat,
         NEW p, ArePowers(p, base, v + 1)
  PROVE  Len(Digits(v, base, small)) \in 1..(v + 1) /\ Fewest(p, v, Len(Digits(v, base, small)))
<1>1. /\ p \in [0..(v + 1) -> Nat] /\ p[0] = 1
      /\ \A k \in 1..(v + 1) : p[k] = base * p[k - 1]
  BY DEF ArePowers
<1>2. p[1] = base
  <2>1. 1 \in 1..(v + 1) /\ 1 - 1 = 0 /\ base * 1 = base
    BY DEF Bases
  <2> QED BY <1>1, <2>1
<1> DEFINE L(m) == Len(Digits(m, base, small))
           S == {m \in Nat : m <= v => L(m) \in 1..(m + 1) /\ Fewest(p, m, L(m))}
<1>3. ASSUME NEW m \in Nat, \A k \in 0..(m - 1) : k \in S PROVE m \in S
  <2> SUFFICES ASSUME m <= v PROVE L(m) \in 1..(m + 1) /\ Fewest(p, m, L(m))
    OBVIOUS
  <2>1. CASE m < base
    <3>1. Digits(m, base, small) = <<Digit(m, small)>>
      BY <2>1, DigitsDefined, Zenon
    <3>2. L(m) = 1
      BY <3>1
    <3> HIDE DEF L
    <3> QED BY <1>2, <2>1, <3>2 DEF Fewest, Bases
  <2>2. CASE ~(m < base)
    <3>1. PICK q, r : q = m \div base /\ r = m % base
      OBVIOUS
    <3>2. q \in Nat /\ r \in 0..(base - 1) /\ m = base * q + r /\ q \in 0..(m - 1) /\ m >= base
      BY <2>2, <3>1, Divided DEF Bases
    <3>3. Digits(m, base, small) = Append(Digits(q, base, small), Digit(r, small))
      BY <3>1, <3>2, DigitsDefined, Zenon
    <3>4. L(m) = L(q) + 1
      <4>1. PICK D : D = Digits(q, base, small)
        OBVIOUS
      <4>2. D \in Seq(Int)
        BY <3>2, <4>1, DigitsReadable DEF Readable
      <4>3. PICK c : c = Digit(r, small)
        OBVIOUS
      <4>4. c \in Int
        BY <3>2, <4>3 DEF Digit, Bases, Zero
      <4>5. Len(Append(D, c)) = Len(D) + 1
        BY <4>2, <4>4
      <4> QED BY <3>3, <4>1, <4>3, <4>5, Zenon
    <3>5. L(q) \in 1..(q + 1) /\ Fewest(p, q, L(q))
      BY <1>3, <3>2
    <3> HIDE DEF L
    <3>6. PICK l : l = L(q)
      OBVIOUS
    <3>7. l \in 1..(v + 1) /\ l + 1 \in 1..(v + 1) /\ (l + 1) - 1 = l /\ l + 1 \in 1..(m + 1)
      BY <3>2, <3>5, <3>6
    <3>8. p[l + 1] = base * p[l] /\ p[l] \in Nat
      BY <1>1, <3>7
    <3>9. p[l] > q /\ (l > 1 => p[l - 1] <= q)
      BY <3>5, <3>6, Zenon DEF Fewest
    <3>10. p[l + 1] > m
      <4>1. base * q + base <= base * p[l] /\ base * q \in Nat /\ base * p[l] \in Nat
        BY <3>2, <3>8, <3>9, Times
      <4> QED BY <3>2, <3>8, <4>1 DEF Bases
    <3>11. p[l] <= m
      <4>1. CASE l = 1
        BY <1>2, <3>2, <4>1
      <4>2. CASE l # 1
        <5>1. l > 1 /\ l - 1 \in 0..(v + 1)
          BY <3>7, <4>2
        <5>2. p[l] = base * p[l - 1] /\ p[l - 1] \in Nat /\ p[l - 1] <= q
          BY <1>1, <3>7, <3>9, <5>1
        <5>3. base * p[l - 1] <= base * q /\ base * q \in Nat /\ base * p[l - 1] \in Nat
          BY <3>2, <5>2, Times
        <5> QED BY <3>2, <5>2, <5>3
      <4> QED BY <4>1, <4>2
    <3>12. Fewest(p, m, l + 1)
      BY <3>7, <3>10, <3>11 DEF Fewest
    <3> QED BY <3>4, <3>6, <3>7, <3>12
  <2> QED BY <2>1, <2>2
<1>4. Nat \subseteq S
  <2> HIDE DEF S
  <2> QED BY <1>3, StrongInduction
<1>5. v \in S /\ v <= v
  BY <1>4
<1> QED BY <1>5

LEMMA FiguresAreFewest == ASSUME NEW base \in Bases, NEW small \in BOOLEAN, NEW v \in Nat
  PROVE Len(Digits(v, base, small)) = FewestFigures(v, base)
<1>1. PICK p : /\ ArePowers(p, base, v + 1)
               /\ FewestFigures(v, base) = CHOOSE k \in 1..(v + 1) : Fewest(p, v, k)
  BY PowersExist
<1>2. PICK n : n = Len(Digits(v, base, small))
  OBVIOUS
<1>3. PICK k : k = FewestFigures(v, base)
  OBVIOUS
<1>4. ArePowers(p, base, v + 1)
  BY <1>1
<1>5. n \in 1..(v + 1) /\ Fewest(p, v, n)
  BY <1>2, <1>4, LengthIsFewest, Zenon
<1>6. k \in 1..(v + 1) /\ Fewest(p, v, k)
  BY <1>1, <1>3, <1>5, Zenon
<1>7. \A j \in 0..(v + 1) : \A i \in 0..j : p[i] <= p[j]
  <2>1. PICK w : w = v + 1
    OBVIOUS
  <2>2. w \in Nat
    BY <2>1
  <2>3. ArePowers(p, base, w)
    BY <1>4, <2>1
  <2> QED BY <2>1, <2>2, <2>3, PowersGrow
<1>8. p \in [0..(v + 1) -> Nat]
  BY <1>4 DEF ArePowers
<1>9. ASSUME NEW i \in 1..(v + 1), NEW j \in 1..(v + 1), Fewest(p, v, i), Fewest(p, v, j), i < j
      PROVE  FALSE
  <2>1. j - 1 \in 0..(v + 1) /\ i \in 0..(j - 1) /\ i \in 0..(v + 1) /\ j > 1
    BY <1>9
  <2>2. p[i] <= p[j - 1] /\ p[i] \in Nat /\ p[j - 1] \in Nat
    BY <1>7, <1>8, <2>1
  <2>3. p[i] > v /\ p[j - 1] <= v
    BY <1>9, <2>1 DEF Fewest
  <2> QED BY <2>2, <2>3
<1>10. ~(n < k) /\ ~(k < n)
  BY <1>5, <1>6, <1>9
<1>11. n = k
  BY <1>5, <1>6, <1>10
<1> QED BY <1>2, <1>3, <1>11

-----------------------------------------------------------------------------
(* A number's field: blanks, a sign, a prefix, zeros, the figures, blanks. *)

Laid(out, l, g, x, z, D, r) ==
    /\ out \in Seq(Int) /\ Len(out) = l + Len(g) + Len(x) + z + Len(D) + r
    /\ \A i \in 1..l : out[i] = Space
    /\ \A i \in 1..Len(g) : out[l + i] = g[i]
    /\ \A i \in 1..Len(x) : out[l + Len(g) + i] = x[i]
    /\ \A i \in 1..z : out[l + Len(g) + Len(x) + i] = Zero
    /\ \A i \in 1..Len(D) : out[l + Len(g) + Len(x) + z + i] = D[i]
    /\ \A i \in 1..r : out[l + Len(g) + Len(x) + z + Len(D) + i] = Space

Figured(figures, k, D) ==
    /\ figures \in Seq(Int) /\ Len(figures) = k + Len(D)
    /\ \A i \in 1..k : figures[i] = Zero
    /\ \A i \in 1..Len(D) : figures[k + i] = D[i]

(* The three ways to pad.                                                  *)
LEMMA LaidLeft ==
  ASSUME NEW g \in Seq(Int), NEW x \in Seq(Int), NEW D \in Seq(Int), NEW k \in Nat, NEW n \in Nat,
         NEW figures, Figured(figures, k, D), NEW blanks \in Seq(Int), Len(blanks) = n,
         \A i \in 1..n : blanks[i] = Space,
         NEW out, out = g \o x \o figures \o blanks
  PROVE  Laid(out, 0, g, x, k, D, n)
<1>1. /\ figures \in Seq(Int) /\ Len(figures) = k + Len(D)
      /\ \A i \in 1..k : figures[i] = Zero
      /\ \A i \in 1..Len(D) : figures[k + i] = D[i]
  BY DEF Figured
<1>2. /\ out \in Seq(Int) /\ Len(out) = Len(g) + Len(x) + Len(figures) + Len(blanks)
      /\ \A i \in 1..Len(g) : out[i] = g[i]
      /\ \A i \in 1..Len(x) : out[Len(g) + i] = x[i]
      /\ \A i \in 1..Len(figures) : out[Len(g) + Len(x) + i] = figures[i]
      /\ \A i \in 1..Len(blanks) : out[Len(g) + Len(x) + Len(figures) + i] = blanks[i]
  <2>1. figures \in Seq(Int)
    BY <1>1
  <2>2. FourParts(Int, out, g, x, figures, blanks)
    BY <2>1, CatFour
  <2> QED BY <2>2, Zenon DEF FourParts
<1>3. PICK lg, lx, ld : lg = Len(g) /\ lx = Len(x) /\ ld = Len(D)
  OBVIOUS
<1>4. lg \in Nat /\ lx \in Nat /\ ld \in Nat
  BY <1>3
<1>5. Len(figures) = k + ld
  BY <1>1, <1>3
<1>6. ASSUME NEW i \in 1..lg PROVE out[0 + i] = g[i]
  BY <1>2, <1>3
<1>7. ASSUME NEW i \in 1..lx PROVE out[0 + lg + i] = x[i]
  <2>1. 0 + lg + i = lg + i
    BY <1>4
  <2> QED BY <1>2, <1>3, <2>1, Zenon
<1>8. ASSUME NEW i \in 1..k PROVE out[0 + lg + lx + i] = Zero
  <2>1. 0 + lg + lx + i = lg + lx + i /\ i \in 1..(k + ld)
    BY <1>4
  <2> QED BY <1>1, <1>2, <1>3, <1>5, <2>1, Zenon
<1>9. ASSUME NEW i \in 1..ld PROVE out[0 + lg + lx + k + i] = D[i]
  <2>1. PICK j : j = k + i
    OBVIOUS
  <2>2. 0 + lg + lx + k + i = lg + lx + j /\ j \in 1..(k + ld)
    BY <1>4, <2>1
  <2>3. out[lg + lx + j] = figures[j]
    BY <1>2, <1>3, <1>5, <2>2, Zenon
  <2>4. figures[j] = D[i]
    BY <1>1, <1>3, <2>1, Zenon
  <2> QED BY <2>2, <2>3, <2>4, Zenon
<1>10. ASSUME NEW i \in 1..n PROVE out[0 + lg + lx + k + ld + i] = Space
  <2>1. 0 + lg + lx + k + ld + i = lg + lx + (k + ld) + i
    BY <1>4
  <2>2. out[lg + lx + (k + ld) + i] = blanks[i]
    BY <1>2, <1>3, <1>5, Zenon
  <2>3. blanks[i] = Space
    OBVIOUS
  <2> QED BY <2>1, <2>2, <2>3, Zenon
<1>11. Len(out) = 0 + lg + lx + k + ld + n
  BY <1>2, <1>3, <1>4, <1>5
<1>12. \A i \in 1..0 : out[i] = Space
  OBVIOUS
<1> QED BY <1>2, <1>3, <1>6, <1>7, <1>8, <1>9, <1>10, <1>11, <1>12, Zenon DEF Laid

LEMMA LaidZeros ==
  ASSUME NEW g \in Seq(Int), NEW x \in Seq(Int), NEW D \in Seq(Int), NEW k \in Nat, NEW n \in Nat,
         NEW figures, Figured(figures, k, D), NEW zeros \in Seq(Int), Len(zeros) = n,
         \A i \in 1..n : zeros[i] = Zero,
         NEW out, out = g \o x \o zeros \o figures
  PROVE  Laid(out, 0, g, x, n + k, D, 0)
<1>1. /\ figures \in Seq(Int) /\ Len(figures) = k + Len(D)
      /\ \A i \in 1..k : figures[i] = Zero
      /\ \A i \in 1..Len(D) : figures[k + i] = D[i]
  BY DEF Figured
<1>2. /\ out \in Seq(Int) /\ Len(out) = Len(g) + Len(x) + Len(zeros) + Len(figures)
      /\ \A i \in 1..Len(g) : out[i] = g[i]
      /\ \A i \in 1..Len(x) : out[Len(g) + i] = x[i]
      /\ \A i \in 1..Len(zeros) : out[Len(g) + Len(x) + i] = zeros[i]
      /\ \A i \in 1..Len(figures) : out[Len(g) + Len(x) + Len(zeros) + i] = figures[i]
  <2>1. figures \in Seq(Int)
    BY <1>1
  <2>2. FourParts(Int, out, g, x, zeros, figures)
    BY <2>1, CatFour
  <2> QED BY <2>2, Zenon DEF FourParts
<1>3. PICK lg, lx, ld : lg = Len(g) /\ lx = Len(x) /\ ld = Len(D)
  OBVIOUS
<1>4. lg \in Nat /\ lx \in Nat /\ ld \in Nat
  BY <1>3
<1>5. Len(figures) = k + ld
  BY <1>1, <1>3
<1>6. ASSUME NEW i \in 1..lg PROVE out[0 + i] = g[i]
  BY <1>2, <1>3
<1>7. ASSUME NEW i \in 1..lx PROVE out[0 + lg + i] = x[i]
  <2>1. 0 + lg + i = lg + i
    BY <1>4
  <2> QED BY <1>2, <1>3, <2>1, Zenon
<1>8. ASSUME NEW i \in 1..(n + k) PROVE out[0 + lg + lx + i] = Zero
  <2>1. CASE i <= n
    <3>1. 0 + lg + lx + i = lg + lx + i /\ i \in 1..n
      BY <1>4, <2>1
    <3> QED BY <1>2, <1>3, <3>1, Zenon
  <2>2. CASE ~(i <= n)
    <3>1. PICK j : j = i - n
      OBVIOUS
    <3>2. 0 + lg + lx + i = lg + lx + n + j /\ j \in 1..k /\ j \in 1..(k + ld)
      BY <1>4, <2>2, <3>1
    <3>3. out[lg + lx + n + j] = figures[j]
      BY <1>2, <1>3, <1>5, <3>2, Zenon
    <3> QED BY <1>1, <3>2, <3>3, Zenon
  <2> QED BY <2>1, <2>2
<1>9. ASSUME NEW i \in 1..ld PROVE out[0 + lg + lx + (n + k) + i] = D[i]
  <2>1. PICK j : j = k + i
    OBVIOUS
  <2>2. 0 + lg + lx + (n + k) + i = lg + lx + n + j /\ j \in 1..(k + ld)
    BY <1>4, <2>1
  <2>3. out[lg + lx + n + j] = figures[j]
    BY <1>2, <1>3, <1>5, <2>2, Zenon
  <2>4. figures[j] = D[i]
    BY <1>1, <1>3, <2>1, Zenon
  <2> QED BY <2>2, <2>3, <2>4, Zenon
<1>10. Len(out) = 0 + lg + lx + (n + k) + ld + 0
  BY <1>2, <1>3, <1>4, <1>5
<1>11. \A i \in 1..0 : out[i] = Space /\ out[0 + lg + lx + (n + k) + ld + i] = Space
  OBVIOUS
<1> QED BY <1>2, <1>3, <1>6, <1>7, <1>8, <1>9, <1>10, <1>11 DEF Laid

LEMMA LaidRight ==
  ASSUME NEW g \in Seq(Int), NEW x \in Seq(Int), NEW D \in Seq(Int), NEW k \in Nat, NEW n \in Nat,
         NEW figures, Figured(figures, k, D), NEW blanks \in Seq(Int), Len(blanks) = n,
         \A i \in 1..n : blanks[i] = Space,
         NEW out, out = blanks \o g \o x \o figures
  PROVE  Laid(out, n, g, x, k, D, 0)
<1>1. /\ figures \in Seq(Int) /\ Len(figures) = k + Len(D)
      /\ \A i \in 1..k : figures[i] = Zero
      /\ \A i \in 1..Len(D) : figures[k + i] = D[i]
  BY DEF Figured
<1>2. /\ out \in Seq(Int) /\ Len(out) = Len(blanks) + Len(g) + Len(x) + Len(figures)
      /\ \A i \in 1..Len(blanks) : out[i] = blanks[i]
      /\ \A i \in 1..Len(g) : out[Len(blanks) + i] = g[i]
      /\ \A i \in 1..Len(x) : out[Len(blanks) + Len(g) + i] = x[i]
      /\ \A i \in 1..Len(figures) : out[Len(blanks) + Len(g) + Len(x) + i] = figures[i]
  <2>1. figures \in Seq(Int)
    BY <1>1
  <2>2. FourParts(Int, out, blanks, g, x, figures)
    BY <2>1, CatFour
  <2> QED BY <2>2, Zenon DEF FourParts
<1>3. PICK lg, lx, ld : lg = Len(g) /\ lx = Len(x) /\ ld = Len(D)
  OBVIOUS
<1>4. lg \in Nat /\ lx \in Nat /\ ld \in Nat
  BY <1>3
<1>5. Len(figures) = k + ld
  BY <1>1, <1>3
<1>6. ASSUME NEW i \in 1..k PROVE out[n + lg + lx + i] = Zero
  <2>1. i \in 1..(k + ld)
    BY <1>4
  <2> QED BY <1>1, <1>2, <1>3, <1>5, <2>1, Zenon
<1>7. ASSUME NEW i \in 1..ld PROVE out[n + lg + lx + k + i] = D[i]
  <2>1. PICK j : j = k + i
    OBVIOUS
  <2>2. n + lg + lx + k + i = n + lg + lx + j /\ j \in 1..(k + ld)
    BY <1>4, <2>1
  <2>3. out[n + lg + lx + j] = figures[j]
    BY <1>2, <1>3, <1>5, <2>2, Zenon
  <2>4. figures[j] = D[i]
    BY <1>1, <1>3, <2>1, Zenon
  <2> QED BY <2>2, <2>3, <2>4, Zenon
<1>8. Len(out) = n + lg + lx + k + ld + 0
  BY <1>2, <1>3, <1>4, <1>5
<1>9. \A i \in 1..0 : out[n + lg + lx + k + ld + i] = Space
  OBVIOUS
<1> QED BY <1>2, <1>3, <1>6, <1>7, <1>8, <1>9 DEF Laid

(* What number puts out.                                                   *)
SignText(s) == s \in {<<>>, <<Minus>>, <<Plus>>, <<Space>>}
PrefixText(s) == s \in {<<>>, <<Zero>>, <<Zero, 88>>, <<Zero, 120>>}

LEMMA Shapes == ASSUME NEW num, NEW flags, NEW base \in Bases
  PROVE /\ SignText(Sign(num, flags)) /\ PrefixText(Prefix(base, flags))
        /\ Sign(num, flags) \in Seq(Int) /\ Prefix(base, flags) \in Seq(Int)
<1>1. SignText(Sign(num, flags))
  BY DEF SignText, Sign
<1>2. PrefixText(Prefix(base, flags))
  BY DEF PrefixText, Prefix, Bases
<1>3. /\ <<>> \in Seq(Int) /\ <<45>> \in Seq(Int) /\ <<43>> \in Seq(Int) /\ <<32>> \in Seq(Int)
      /\ <<48>> \in Seq(Int) /\ <<48, 88>> \in Seq(Int) /\ <<48, 120>> \in Seq(Int)
  OBVIOUS
<1> QED BY <1>1, <1>2, <1>3, Zenon DEF SignText, PrefixText, Minus, Plus, Space, Zero

Padding(out, size, precision, flags, g, x, D, l, z, r) ==
    /\ l \in Nat /\ z \in Nat /\ r \in Nat
    /\ Laid(out, l, g, x, z, D, r)
    /\ Len(out) = Larger(size, Len(g) + Len(x) + Larger(precision, Len(D)))
    /\ z + Len(D) >= precision
    /\ "LEFT" \in flags => l = 0
    /\ "LEFT" \notin flags => r = 0

LEMMA NumberPadded ==
  ASSUME NEW num \in Int, NEW base \in Bases, NEW size \in Int, NEW precision \in Int, NEW flags,
         NEW w \in Nat, w = Magnitude(num, flags)
  PROVE  \E l, z, r : Padding(Number(num, base, size, precision, flags), size, precision, flags,
                              Sign(num, flags), Prefix(base, flags),
                              Digits(w, base, "SMALL" \in flags), l, z, r)
<1>1. PICK g, x, D : /\ g = Sign(num, flags) /\ x = Prefix(base, flags)
                     /\ D = Digits(w, base, "SMALL" \in flags)
  OBVIOUS
<1>2. g \in Seq(Int) /\ x \in Seq(Int)
  BY <1>1, Shapes, Zenon
<1>3. D \in Seq(Int)
  <2>1. ("SMALL" \in flags) \in BOOLEAN
    OBVIOUS
  <2> QED BY <1>1, <2>1, DigitsReadable, Zenon DEF Readable
<1>4. PICK lg, lx, ld : lg = Len(g) /\ lx = Len(x) /\ ld = Len(D)
  OBVIOUS
<1>5. lg \in Nat /\ lx \in Nat /\ ld \in Nat
  BY <1>2, <1>3, <1>4
<1>6. PICK zeros : zeros = Repeat(Zero, precision - ld)
  OBVIOUS
<1>7. PICK k : k = IF precision - ld > 0 THEN precision - ld ELSE 0
  OBVIOUS
<1>8. zeros \in Seq(Int) /\ Len(zeros) = k /\ k \in Nat /\ \A i \in 1..k : zeros[i] = Zero
  <2>1. precision - ld \in Int /\ Zero \in Int
    BY <1>5 DEF Zero
  <2> QED BY <1>6, <1>7, <2>1, Repeated
<1>9. PICK figures : figures = zeros \o D
  OBVIOUS
<1>10. Figured(figures, k, D) /\ Len(figures) = k + ld
  <2>1. /\ zeros \o D \in Seq(Int) /\ Len(zeros \o D) = Len(zeros) + Len(D)
        /\ \A i \in 1..Len(zeros) : (zeros \o D)[i] = zeros[i]
        /\ \A i \in 1..Len(D) : (zeros \o D)[Len(zeros) + i] = D[i]
    <3>1. zeros \in Seq(Int)
      BY <1>8
    <3> QED BY <1>3, <3>1, Cat
  <2> QED BY <1>4, <1>8, <1>9, <2>1 DEF Figured
<1>11. PICK missing : missing = size - Len(g \o x \o figures)
  OBVIOUS
<1>12. missing = size - (lg + lx + k + ld) /\ missing \in Int
  <2>1. PICK gx : gx = g \o x
    OBVIOUS
  <2>2. gx \in Seq(Int) /\ Len(gx) = lg + lx
    BY <1>2, <1>4, <2>1, Cat
  <2>3. figures \in Seq(Int)
    BY <1>10 DEF Figured
  <2>4. Len(gx \o figures) = Len(gx) + Len(figures)
    <3>1. gx \in Seq(Int)
      BY <2>2
    <3> QED BY <2>3, <3>1, Cat
  <2> QED BY <1>5, <1>8, <1>10, <1>11, <2>1, <2>2, <2>4
<1>13. PICK n : n = IF missing > 0 THEN missing ELSE 0
  OBVIOUS
<1>14. n \in Nat
  BY <1>12, <1>13
<1>15. PICK blanks, fill : blanks = Repeat(Space, missing) /\ fill = Repeat(Zero, missing)
  OBVIOUS
<1>16. /\ blanks \in Seq(Int) /\ Len(blanks) = n /\ \A i \in 1..n : blanks[i] = Space
       /\ fill \in Seq(Int) /\ Len(fill) = n /\ \A i \in 1..n : fill[i] = Zero
  <2>1. Zero \in Int /\ Space \in Int /\ missing \in Int
    BY <1>12 DEF Zero, Space
  <2> QED BY <1>13, <1>15, <2>1, Repeated
<1>17. PICK out : out = Number(num, base, size, precision, flags)
  OBVIOUS
<1>18. out = Padded(g, x, figures, size, flags)
  BY <1>1, <1>4, <1>6, <1>9, <1>17, Zenon DEF Number
<1>19. n + lg + lx + k + ld = Larger(size, lg + lx + Larger(precision, ld))
       /\ k + ld >= precision
  BY <1>5, <1>7, <1>12, <1>13 DEF Larger
<1>20. blanks \in Seq(Int) /\ fill \in Seq(Int)
  BY <1>16
<1>21. CASE "LEFT" \in flags
  <2>1. out = g \o x \o figures \o blanks
    BY <1>11, <1>15, <1>18, <1>21, Zenon DEF Padded
  <2>2. Laid(out, 0, g, x, k, D, n)
    <3>1. k \in Nat /\ Figured(figures, k, D)
      BY <1>8, <1>10
    <3>2. Len(blanks) = n /\ \A i \in 1..n : blanks[i] = Space
      BY <1>16
    <3> QED BY <1>2, <1>3, <1>14, <1>20, <2>1, <3>1, <3>2, LaidLeft
  <2>3. Len(out) = n + lg + lx + k + ld
    BY <1>4, <1>5, <1>8, <1>14, <2>2 DEF Laid
  <2>4. Padding(out, size, precision, flags, g, x, D, 0, k, n)
    BY <1>4, <1>8, <1>14, <1>19, <1>21, <2>2, <2>3 DEF Padding
  <2> QED BY <1>1, <1>17, <2>4, Zenon
<1>22. CASE "LEFT" \notin flags /\ "ZEROPAD" \in flags
  <2>1. out = g \o x \o fill \o figures
    <3>1. Padded(g, x, figures, size, flags) = g \o x \o Repeat(Zero, missing) \o figures
      BY <1>11, <1>22 DEF Padded
    <3> QED BY <1>15, <1>18, <3>1, Zenon
  <2>2. Laid(out, 0, g, x, n + k, D, 0)
    <3>1. k \in Nat /\ Figured(figures, k, D)
      BY <1>8, <1>10
    <3>2. Len(fill) = n /\ \A i \in 1..n : fill[i] = Zero
      BY <1>16
    <3> QED BY <1>2, <1>3, <1>14, <1>20, <2>1, <3>1, <3>2, LaidZeros
  <2>3. Len(out) = n + lg + lx + k + ld
    BY <1>4, <1>5, <1>8, <1>14, <2>2 DEF Laid
  <2>4. (n + k) + ld >= precision /\ n + k \in Nat
    BY <1>5, <1>8, <1>14, <1>19
  <2>5. Padding(out, size, precision, flags, g, x, D, 0, n + k, 0)
    BY <1>4, <1>19, <1>22, <2>2, <2>3, <2>4 DEF Padding
  <2> QED BY <1>1, <1>17, <2>5, Zenon
<1>23. CASE "LEFT" \notin flags /\ "ZEROPAD" \notin flags
  <2>1. out = blanks \o g \o x \o figures
    <3>1. Padded(g, x, figures, size, flags) = Repeat(Space, missing) \o g \o x \o figures
      BY <1>11, <1>23 DEF Padded
    <3> QED BY <1>15, <1>18, <3>1, Zenon
  <2>2. Laid(out, n, g, x, k, D, 0)
    <3>1. k \in Nat /\ Figured(figures, k, D)
      BY <1>8, <1>10
    <3>2. Len(blanks) = n /\ \A i \in 1..n : blanks[i] = Space
      BY <1>16
    <3> QED BY <1>2, <1>3, <1>14, <1>20, <2>1, <3>1, <3>2, LaidRight
  <2>3. Len(out) = n + lg + lx + k + ld
    BY <1>4, <1>5, <1>8, <1>14, <2>2 DEF Laid
  <2>4. Padding(out, size, precision, flags, g, x, D, n, k, 0)
    BY <1>4, <1>8, <1>14, <1>19, <1>23, <2>2, <2>3 DEF Padding
  <2> QED BY <1>1, <1>17, <2>4, Zenon
<1> QED BY <1>21, <1>22, <1>23

-----------------------------------------------------------------------------
(* How the field reads: a blank for a sign is one more blank, the zero that *)
(* marks an octal number one more zero.                                    *)

LEMMA BlankSign ==
  ASSUME NEW out, NEW x \in Seq(Int), NEW D \in Seq(Int), NEW l \in Nat, NEW z \in Nat, NEW r \in Nat,
         NEW g, g = <<Space>>, Laid(out, l, g, x, z, D, r)
  PROVE  Laid(out, l + 1, <<>>, x, z, D, r)
<1>1. PICK lx, ld : lx = Len(x) /\ ld = Len(D)
  OBVIOUS
<1>2. lx \in Nat /\ ld \in Nat
  BY <1>1
<1>3. Len(g) = 1 /\ g[1] = Space
  OBVIOUS
<1>4. /\ out \in Seq(Int) /\ Len(out) = l + 1 + lx + z + ld + r
      /\ \A i \in 1..l : out[i] = Space
      /\ \A i \in 1..1 : out[l + i] = g[i]
      /\ \A i \in 1..lx : out[l + 1 + i] = x[i]
      /\ \A i \in 1..z : out[l + 1 + lx + i] = Zero
      /\ \A i \in 1..ld : out[l + 1 + lx + z + i] = D[i]
      /\ \A i \in 1..r : out[l + 1 + lx + z + ld + i] = Space
  BY <1>1, <1>3, Zenon DEF Laid
<1>5. ASSUME NEW i \in 1..(l + 1) PROVE out[i] = Space
  <2>1. CASE i = l + 1
    BY <1>3, <1>4, <2>1
  <2>2. CASE i # l + 1
    <3>1. i \in 1..l
      BY <2>2
    <3> QED BY <1>4, <3>1, Zenon
  <2> QED BY <2>1, <2>2
<1>6. PICK e, le : e = <<>> /\ le = Len(e)
  OBVIOUS
<1>7. le = 0
  BY <1>6
<1>8. (l + 1) + le = l + 1 /\ \A i \in 1..le : out[(l + 1) + i] = e[i]
  BY <1>7
<1>9. /\ \A i \in 1..lx : out[(l + 1) + le + i] = x[i]
      /\ \A i \in 1..z : out[(l + 1) + le + lx + i] = Zero
      /\ \A i \in 1..ld : out[(l + 1) + le + lx + z + i] = D[i]
      /\ \A i \in 1..r : out[(l + 1) + le + lx + z + ld + i] = Space
      /\ Len(out) = (l + 1) + le + lx + z + ld + r
  BY <1>4, <1>8, Zenon
<1>10. Laid(out, l + 1, e, x, z, D, r)
  BY <1>1, <1>4, <1>5, <1>6, <1>8, <1>9, Zenon DEF Laid
<1> QED BY <1>6, <1>10, Zenon

LEMMA ZeroPrefix ==
  ASSUME NEW out, NEW g \in Seq(Int), NEW D \in Seq(Int), NEW l \in Nat, NEW z \in Nat, NEW r \in Nat,
         NEW x, x = <<Zero>>, Laid(out, l, g, x, z, D, r)
  PROVE  Laid(out, l, g, <<>>, z + 1, D, r)
<1>1. PICK lg, ld : lg = Len(g) /\ ld = Len(D)
  OBVIOUS
<1>2. lg \in Nat /\ ld \in Nat
  BY <1>1
<1>3. Len(x) = 1 /\ x[1] = Zero
  OBVIOUS
<1>4. /\ out \in Seq(Int) /\ Len(out) = l + lg + 1 + z + ld + r
      /\ \A i \in 1..l : out[i] = Space
      /\ \A i \in 1..lg : out[l + i] = g[i]
      /\ \A i \in 1..1 : out[l + lg + i] = x[i]
      /\ \A i \in 1..z : out[l + lg + 1 + i] = Zero
      /\ \A i \in 1..ld : out[l + lg + 1 + z + i] = D[i]
      /\ \A i \in 1..r : out[l + lg + 1 + z + ld + i] = Space
  BY <1>1, <1>3, Zenon DEF Laid
<1>5. ASSUME NEW i \in 1..(z + 1) PROVE out[l + lg + 0 + i] = Zero
  <2>1. CASE i = 1
    <3>1. l + lg + 0 + i = l + lg + 1
      BY <1>2, <2>1
    <3>2. 1 \in 1..1
      OBVIOUS
    <3> QED BY <1>3, <1>4, <3>1, <3>2, Zenon
  <2>2. CASE i # 1
    <3>1. PICK j : j = i - 1
      OBVIOUS
    <3>2. j \in 1..z /\ l + lg + 0 + i = l + lg + 1 + j
      BY <1>2, <2>2, <3>1
    <3> QED BY <1>4, <3>2, Zenon
  <2> QED BY <2>1, <2>2
<1>6. Len(out) = l + lg + 0 + (z + 1) + ld + r
  <2>1. Len(out) = l + lg + 1 + z + ld + r
    BY <1>4
  <2>2. l + lg + 0 + (z + 1) + ld + r = l + lg + 1 + z + ld + r
    BY <1>2
  <2> QED BY <2>1, <2>2, Zenon
<1>7. ASSUME NEW i \in 1..ld PROVE out[l + lg + 0 + (z + 1) + i] = D[i]
  <2>1. l + lg + 0 + (z + 1) + i = l + lg + 1 + z + i
    BY <1>2
  <2> QED BY <1>4, <2>1, Zenon
<1>8. ASSUME NEW i \in 1..r PROVE out[l + lg + 0 + (z + 1) + ld + i] = Space
  <2>1. l + lg + 0 + (z + 1) + ld + i = l + lg + 1 + z + ld + i
    BY <1>2
  <2> QED BY <1>4, <2>1, Zenon
<1>9. Len(<<>>) = 0 /\ \A i \in 1..0 : out[l + lg + i] = (<<>>)[i]
  OBVIOUS
<1> QED BY <1>1, <1>4, <1>5, <1>6, <1>7, <1>8, <1>9, Zenon DEF Laid

(* Within the blanks there is none.                                        *)
SignSeen(g) == g \in {<<>>, <<Minus>>, <<Plus>>}
MarkSeen(x) == x \in {<<>>, <<Zero, 88>>, <<Zero, 120>>}

LEMMA SeenIs == /\ \A g : SignSeen(g) => /\ g \in Seq(Int) /\ \A i \in 1..Len(g) : g[i] # Space
                                         /\ Len(g) \in 0..1
                /\ \A x : MarkSeen(x) => /\ x \in Seq(Int) /\ \A i \in 1..Len(x) : x[i] # Space
                                         /\ Len(x) \in {0, 2}
<1>1. ASSUME NEW g, SignSeen(g)
      PROVE  g \in Seq(Int) /\ Len(g) \in 0..1 /\ \A i \in 1..Len(g) : g[i] # Space
  <2>1. g = <<>> \/ g = <<45>> \/ g = <<43>>
    BY <1>1, Zenon DEF SignSeen, Minus, Plus
  <2>2. CASE g = <<>>
    BY <2>2
  <2>3. CASE g = <<45>>
    BY <2>3 DEF Space
  <2>4. CASE g = <<43>>
    BY <2>4 DEF Space
  <2> QED BY <2>1, <2>2, <2>3, <2>4
<1>2. ASSUME NEW x, MarkSeen(x)
      PROVE  x \in Seq(Int) /\ Len(x) \in {0, 2} /\ \A i \in 1..Len(x) : x[i] # Space
  <2>1. x = <<>> \/ x = <<48, 88>> \/ x = <<48, 120>>
    BY <1>2, Zenon DEF MarkSeen, Zero
  <2>2. CASE x = <<>>
    BY <2>2
  <2>3. CASE x = <<48, 88>>
    BY <2>3 DEF Space
  <2>4. CASE x = <<48, 120>>
    BY <2>4 DEF Space
  <2> QED BY <2>1, <2>2, <2>3, <2>4
<1> QED BY <1>1, <1>2, Zenon

LEMMA FieldNoBlank ==
  ASSUME NEW out, NEW g, NEW x, NEW D \in Seq(Int), NEW l \in Nat, NEW z \in Nat, NEW r \in Nat,
         SignSeen(g), MarkSeen(x), Laid(out, l, g, x, z, D, r),
         \A i \in 1..Len(D) : D[i] \in Figures
  PROVE  \A i \in 1..(Len(g) + Len(x) + z + Len(D)) : out[l + i] # Space
<1>1. PICK lg, lx, ld : lg = Len(g) /\ lx = Len(x) /\ ld = Len(D)
  OBVIOUS
<1>2. lg \in Nat /\ lx \in Nat /\ ld \in Nat
  BY <1>1, SeenIs
<1>3. /\ \A i \in 1..lg : g[i] # Space
      /\ \A i \in 1..lx : x[i] # Space
  BY <1>1, SeenIs, Zenon
<1>4. \A i \in 1..ld : D[i] # Space
  <2>1. ~(Space \in Figures)
    BY DEF Figures, Space
  <2> QED BY <1>1, <2>1, Zenon
<1>5. /\ \A i \in 1..lg : out[l + i] = g[i]
      /\ \A i \in 1..lx : out[l + lg + i] = x[i]
      /\ \A i \in 1..z : out[l + lg + lx + i] = Zero
      /\ \A i \in 1..ld : out[l + lg + lx + z + i] = D[i]
  BY <1>1, Zenon DEF Laid
<1>6. ASSUME NEW i \in 1..(lg + lx + z + ld) PROVE out[l + i] # Space
  <2>1. CASE i <= lg
    <3>1. i \in 1..lg
      BY <1>2, <2>1
    <3> QED BY <1>3, <1>5, <3>1, Zenon
  <2>2. CASE i > lg /\ i <= lg + lx
    <3>1. PICK j : j = i - lg
      OBVIOUS
    <3>2. j \in 1..lx /\ l + i = l + lg + j
      BY <1>2, <2>2, <3>1
    <3> QED BY <1>3, <1>5, <3>2, Zenon
  <2>3. CASE i > lg + lx /\ i <= lg + lx + z
    <3>1. PICK j : j = i - (lg + lx)
      OBVIOUS
    <3>2. j \in 1..z /\ l + i = l + lg + lx + j
      BY <1>2, <2>3, <3>1
    <3>3. Zero # Space
      BY DEF Zero, Space
    <3> QED BY <1>5, <3>2, <3>3, Zenon
  <2>4. CASE i > lg + lx + z
    <3>1. PICK j : j = i - (lg + lx + z)
      OBVIOUS
    <3>2. j \in 1..ld /\ l + i = l + lg + lx + z + j
      BY <1>2, <2>4, <3>1
    <3> QED BY <1>4, <1>5, <3>2, Zenon
  <2> QED BY <1>2, <2>1, <2>2, <2>3, <2>4
<1> QED BY <1>1, <1>6

LEMMA BareLaid ==
  ASSUME NEW out, NEW g, NEW x, NEW D \in Seq(Int), NEW l \in Nat, NEW z \in Nat, NEW r \in Nat,
         SignSeen(g), MarkSeen(x), Laid(out, l, g, x, z, D, r),
         Len(D) >= 1, \A i \in 1..Len(D) : D[i] \in Figures
  PROVE  Laid(Bare(out), 0, g, x, z, D, 0)
<1>1. PICK lg, lx, ld : lg = Len(g) /\ lx = Len(x) /\ ld = Len(D)
  OBVIOUS
<1>2. lg \in Nat /\ lx \in Nat /\ ld \in Nat /\ ld >= 1
  BY <1>1, SeenIs
<1>3. PICK t : t = lg + lx + z + ld
  OBVIOUS
<1>4. t \in Nat /\ t >= 1
  BY <1>2, <1>3
<1>5. \A i \in 1..t : out[l + i] # Space
  BY <1>1, <1>3, FieldNoBlank, Zenon
<1>6. /\ out \in Seq(Int) /\ Len(out) = l + lg + lx + z + ld + r
      /\ \A i \in 1..l : out[i] = Space
      /\ \A i \in 1..lg : out[l + i] = g[i]
      /\ \A i \in 1..lx : out[l + lg + i] = x[i]
      /\ \A i \in 1..z : out[l + lg + lx + i] = Zero
      /\ \A i \in 1..ld : out[l + lg + lx + z + i] = D[i]
      /\ \A i \in 1..r : out[l + lg + lx + z + ld + i] = Space
  BY <1>1, Zenon DEF Laid
<1>7. Len(out) = l + t + r
  BY <1>2, <1>3, <1>6
<1>8. PICK inner : inner = {i \in 1..Len(out) : out[i] # Space}
  OBVIOUS
<1>9. inner = (l + 1)..(l + t)
  <2>1. ASSUME NEW i \in inner PROVE i \in (l + 1)..(l + t)
    <3>1. i \in 1..(l + t + r) /\ out[i] # Space
      BY <1>7, <1>8
    <3>2. CASE i <= l
      <4>1. i \in 1..l
        BY <3>1, <3>2
      <4> QED BY <1>6, <3>1, <4>1, Zenon
    <3>3. CASE i > l + t
      <4>1. PICK j : j = i - (l + t)
        OBVIOUS
      <4>2. j \in 1..r /\ i = l + lg + lx + z + ld + j
        BY <1>2, <1>3, <3>1, <3>3, <4>1
      <4> QED BY <1>6, <3>1, <4>2, Zenon
    <3> QED BY <1>4, <3>1, <3>2, <3>3
  <2>2. ASSUME NEW i \in (l + 1)..(l + t) PROVE i \in inner
    <3>1. PICK j : j = i - l
      OBVIOUS
    <3>2. j \in 1..t /\ i = l + j /\ i \in 1..Len(out)
      BY <1>4, <1>7, <3>1
    <3> QED BY <1>5, <1>8, <3>2
  <2> QED BY <2>1, <2>2
<1>10. Min(inner) = l + 1 /\ Max(inner) = l + t
  <2>1. /\ l + 1 \in inner /\ \A i \in inner : l + 1 <= i
        /\ l + t \in inner /\ \A i \in inner : l + t >= i
        /\ inner \subseteq Int
    BY <1>4, <1>9
  <2>2. Min(inner) \in inner /\ \A i \in inner : Min(inner) <= i
    BY <2>1, Zenon DEF Min
  <2>3. Max(inner) \in inner /\ \A i \in inner : Max(inner) >= i
    BY <2>1, Zenon DEF Max
  <2>4. PICK first, last : first = Min(inner) /\ last = Max(inner)
    OBVIOUS
  <2>5. /\ first <= l + 1 /\ l + 1 <= first /\ first \in Int
        /\ last >= l + t /\ l + t >= last /\ last \in Int
    BY <2>1, <2>2, <2>3, <2>4, Zenon
  <2>6. first = l + 1 /\ last = l + t
    BY <1>4, <2>5
  <2> QED BY <2>4, <2>6, Zenon
<1>11. Bare(out) = SubSeq(out, l + 1, l + t)
  BY <1>8, <1>10, Zenon DEF Bare
<1>12. /\ Bare(out) \in Seq(Int) /\ Len(Bare(out)) = t
       /\ \A i \in 1..t : Bare(out)[i] = out[l + i]
  <2>1. PICK m, n : m = l + 1 /\ n = l + t
    OBVIOUS
  <2>2. m \in 1..(Len(out) + 1) /\ n \in 0..Len(out) /\ m <= n + 1 /\ n - m + 1 = t
    BY <1>4, <1>7, <2>1
  <2>3. out \in Seq(Int)
    BY <1>6
  <2>4. /\ SubSeq(out, m, n) \in Seq(Int) /\ Len(SubSeq(out, m, n)) = n - m + 1
        /\ \A i \in 1..(n - m + 1) : SubSeq(out, m, n)[i] = out[m + i - 1]
    BY <2>2, <2>3, Part
  <2>5. \A i \in 1..t : m + i - 1 = l + i
    BY <1>4, <2>1
  <2> QED BY <1>11, <2>1, <2>2, <2>4, <2>5, Zenon
<1>13. PICK text : text = Bare(out)
  OBVIOUS
<1>14. text \in Seq(Int) /\ Len(text) = t /\ \A i \in 1..t : text[i] = out[l + i]
  BY <1>12, <1>13, Zenon
<1>15. ASSUME NEW i \in 1..lg PROVE text[0 + i] = g[i]
  <2>1. 0 + i = i /\ i \in 1..t
    BY <1>2, <1>3
  <2> QED BY <1>6, <1>14, <2>1, Zenon
<1>16. ASSUME NEW i \in 1..lx PROVE text[0 + lg + i] = x[i]
  <2>1. PICK j : j = 0 + lg + i
    OBVIOUS
  <2>2. j \in 1..t /\ l + j = l + lg + i
    BY <1>2, <1>3, <2>1
  <2> QED BY <1>6, <1>14, <2>1, <2>2, Zenon
<1>17. ASSUME NEW i \in 1..z PROVE text[0 + lg + lx + i] = Zero
  <2>1. PICK j : j = 0 + lg + lx + i
    OBVIOUS
  <2>2. j \in 1..t /\ l + j = l + lg + lx + i
    BY <1>2, <1>3, <2>1
  <2> QED BY <1>6, <1>14, <2>1, <2>2, Zenon
<1>18. ASSUME NEW i \in 1..ld PROVE text[0 + lg + lx + z + i] = D[i]
  <2>1. PICK j : j = 0 + lg + lx + z + i
    OBVIOUS
  <2>2. j \in 1..t /\ l + j = l + lg + lx + z + i
    BY <1>2, <1>3, <2>1
  <2> QED BY <1>6, <1>14, <2>1, <2>2, Zenon
<1>19. Len(text) = 0 + lg + lx + z + ld + 0
  BY <1>2, <1>3, <1>14
<1>20. \A i \in 1..0 : text[i] = Space /\ text[0 + lg + lx + z + ld + i] = Space
  OBVIOUS
<1>21. Laid(text, 0, g, x, z, D, 0)
  BY <1>1, <1>14, <1>15, <1>16, <1>17, <1>18, <1>19, <1>20, Zenon DEF Laid
<1> QED BY <1>13, <1>21, Zenon

(* The sign, the prefix and the figures are found where they are.          *)
TextRead(text, g, x, z, D) ==
    /\ text[1] = Minus <=> g = <<Minus>>
    /\ text[1] = Plus <=> g = <<Plus>>
    /\ Signs(text) = Len(g)
    /\ Len(x) = 2 => SubSeq(text, Len(g) + 1, Len(g) + 2) = x
    /\ Figured(SubSeq(text, Len(g) + Len(x) + 1, Len(text)), z, D)

LEMMA TextReads ==
  ASSUME NEW D \in Seq(Int), Len(D) >= 1, \A i \in 1..Len(D) : D[i] \in Figures,
         NEW text, NEW g, NEW x, NEW z \in Nat, SignSeen(g), MarkSeen(x),
         Laid(text, 0, g, x, z, D, 0)
  PROVE  TextRead(text, g, x, z, D)
<1>1. PICK lg, lx, ld : lg = Len(g) /\ lx = Len(x) /\ ld = Len(D)
  OBVIOUS
<1>2. D \in Seq(Int) /\ ld >= 1 /\ \A i \in 1..ld : D[i] \in Figures
  BY <1>1, Zenon
<1>3. lg \in 0..1 /\ lx \in {0, 2} /\ ld \in Nat
  <2>1. Len(g) \in 0..1 /\ Len(x) \in {0, 2}
    BY SeenIs, Zenon
  <2> QED BY <1>1, <1>2, <2>1
<1>4. /\ text \in Seq(Int) /\ Len(text) = 0 + lg + lx + z + ld + 0
      /\ \A i \in 1..lg : text[0 + i] = g[i]
      /\ \A i \in 1..lx : text[0 + lg + i] = x[i]
      /\ \A i \in 1..z : text[0 + lg + lx + i] = Zero
      /\ \A i \in 1..ld : text[0 + lg + lx + z + i] = D[i]
  BY <1>1, Zenon DEF Laid
<1>5. ASSUME g = <<>> PROVE lg = 0 /\ text[1] # Minus /\ text[1] # Plus
  <2>1. lg = 0
    BY <1>1, <1>5
  <2>2. text[1] # Minus /\ text[1] # Plus
    <3>1. CASE lx = 2
      <4>1. x = <<>> \/ x = <<48, 88>> \/ x = <<48, 120>>
        BY Zenon DEF MarkSeen, Zero
      <4>2. x # <<>>
        <5> SUFFICES ASSUME x = <<>> PROVE FALSE
          OBVIOUS
        <5>1. Len(x) = 0
          OBVIOUS
        <5>2. Len(x) = 2
          BY <1>1, <3>1
        <5> QED BY <5>1, <5>2
      <4>3. x[1] = 48
        BY <4>1, <4>2
      <4>4. 1 \in 1..lx /\ 0 + lg + 1 = 1
        BY <2>1, <3>1
      <4>5. text[0 + lg + 1] = x[1]
        BY <1>4, <4>4, Zenon
      <4> QED BY <4>3, <4>4, <4>5 DEF Minus, Plus
    <3>2. CASE lx = 0 /\ z >= 1
      <4>1. 0 + lg + lx + 1 = 1 /\ 1 \in 1..z
        BY <2>1, <3>2
      <4>2. text[0 + lg + lx + 1] = Zero
        BY <1>4, <4>1, Zenon
      <4> QED BY <4>1, <4>2 DEF Zero, Minus, Plus
    <3>3. CASE lx = 0 /\ z = 0
      <4>1. 0 + lg + lx + z + 1 = 1 /\ 1 \in 1..ld
        BY <1>2, <1>3, <2>1, <3>3
      <4>2. text[0 + lg + lx + z + 1] = D[1] /\ D[1] \in Figures
        BY <1>2, <1>4, <4>1, Zenon
      <4>3. \A c \in Figures : c # Minus /\ c # Plus
        BY DEF Figures, Minus, Plus
      <4> QED BY <4>1, <4>2, <4>3, Zenon
    <3> QED BY <1>3, <3>1, <3>2, <3>3
  <2> QED BY <2>1, <2>2
<1>6. ASSUME g # <<>> PROVE lg = 1 /\ text[1] = g[1] /\ g \in {<<Minus>>, <<Plus>>}
  <2>1. g \in {<<Minus>>, <<Plus>>}
    BY <1>6 DEF SignSeen
  <2>2. lg = 1
    BY <1>1, <2>1
  <2>3. 0 + 1 = 1 /\ 1 \in 1..lg
    BY <2>2
  <2>4. text[0 + 1] = g[1]
    BY <1>4, <2>3, Zenon
  <2> QED BY <2>1, <2>2, <2>3, <2>4
<1>7. /\ text[1] = Minus <=> g = <<Minus>>
      /\ text[1] = Plus <=> g = <<Plus>>
      /\ Signs(text) = lg
  <2>1. CASE g = <<>>
    <3>1. g # <<Minus>> /\ g # <<Plus>>
      BY <2>1
    <3> QED BY <1>5, <2>1, <3>1 DEF Signs
  <2>2. CASE g # <<>>
    <3>1. lg = 1 /\ text[1] = g[1]
      BY <1>6, <2>2
    <3>2. CASE g = <<Minus>>
      <4>1. g[1] = 45 /\ g # <<Plus>>
        BY <3>2 DEF Minus, Plus
      <4> QED BY <3>1, <3>2, <4>1 DEF Signs, Minus, Plus
    <3>3. CASE g = <<Plus>>
      <4>1. g[1] = 43 /\ g # <<Minus>>
        BY <3>3 DEF Minus, Plus
      <4> QED BY <3>1, <3>3, <4>1 DEF Signs, Minus, Plus
    <3> QED BY <1>6, <2>2, <3>2, <3>3
  <2> QED BY <2>1, <2>2
<1>8. Len(text) = lg + lx + z + ld /\ Len(text) \in Nat /\ text \in Seq(Int)
  BY <1>3, <1>4
<1>9. ASSUME lx = 2 PROVE SubSeq(text, lg + 1, lg + 2) = x
  <2>1. PICK m, n : m = lg + 1 /\ n = lg + 2
    OBVIOUS
  <2>2. m \in 1..(Len(text) + 1) /\ n \in 0..Len(text) /\ m <= n + 1 /\ n - m + 1 = 2
    BY <1>2, <1>3, <1>8, <1>9, <2>1
  <2>3. text \in Seq(Int)
    BY <1>8
  <2>4. /\ SubSeq(text, m, n) \in Seq(Int) /\ Len(SubSeq(text, m, n)) = n - m + 1
        /\ \A i \in 1..(n - m + 1) : SubSeq(text, m, n)[i] = text[m + i - 1]
    BY <2>2, <2>3, Part
  <2>5. PICK part : part = SubSeq(text, m, n)
    OBVIOUS
  <2>6. part \in Seq(Int) /\ Len(part) = 2 /\ \A i \in 1..2 : part[i] = text[m + i - 1]
    BY <2>2, <2>4, <2>5, Zenon
  <2>7. ASSUME NEW i \in 1..2 PROVE part[i] = x[i]
    <3>1. m + i - 1 = 0 + lg + i /\ i \in 1..lx
      BY <1>3, <1>9, <2>1
    <3> QED BY <1>4, <2>6, <3>1, Zenon
  <2>8. x \in Seq(Int)
    BY SeenIs, Zenon
  <2>9. part = x
    <3>1. part \in Seq(Int)
      BY <2>6
    <3>2. Len(part) = Len(x) /\ \A i \in 1..Len(part) : part[i] = x[i]
      BY <1>1, <1>9, <2>6, <2>7, Zenon
    <3> QED BY <2>8, <3>1, <3>2, EqualSeq
  <2> QED BY <2>1, <2>5, <2>9, Zenon
<1>10. Figured(SubSeq(text, lg + lx + 1, Len(text)), z, D)
  <2>1. PICK m, n : m = lg + lx + 1 /\ n = Len(text)
    OBVIOUS
  <2>2. m \in 1..(Len(text) + 1) /\ n \in 0..Len(text) /\ m <= n + 1 /\ n - m + 1 = z + ld
    BY <1>2, <1>3, <1>8, <2>1
  <2>3. text \in Seq(Int)
    BY <1>8
  <2>4. /\ SubSeq(text, m, n) \in Seq(Int) /\ Len(SubSeq(text, m, n)) = n - m + 1
        /\ \A i \in 1..(n - m + 1) : SubSeq(text, m, n)[i] = text[m + i - 1]
    BY <2>2, <2>3, Part
  <2>5. PICK part : part = SubSeq(text, m, n)
    OBVIOUS
  <2>6. part \in Seq(Int) /\ Len(part) = z + ld /\ \A i \in 1..(z + ld) : part[i] = text[m + i - 1]
    BY <2>2, <2>4, <2>5, Zenon
  <2>7. ASSUME NEW i \in 1..z PROVE part[i] = Zero
    <3>1. m + i - 1 = 0 + lg + lx + i /\ i \in 1..(z + ld)
      BY <1>3, <2>1
    <3> QED BY <1>4, <2>6, <3>1, Zenon
  <2>8. ASSUME NEW i \in 1..ld PROVE part[z + i] = D[i]
    <3>1. PICK j : j = z + i
      OBVIOUS
    <3>2. m + j - 1 = 0 + lg + lx + z + i /\ j \in 1..(z + ld)
      BY <1>3, <2>1, <3>1
    <3> QED BY <1>4, <2>6, <3>1, <3>2, Zenon
  <2>9. Figured(part, z, D)
    BY <1>1, <2>6, <2>7, <2>8, Zenon DEF Figured
  <2> QED BY <2>1, <2>5, <2>9, Zenon
<1> QED BY <1>1, <1>7, <1>9, <1>10, Zenon DEF TextRead

(* Zeros before them leave the figures what they are.                      *)
FiguresAre(figures, base, small, w, z, D) ==
    /\ \A i \in DOMAIN figures : /\ DigitValue(figures[i]) \in 0..(base - 1)
                                 /\ figures[i] >= 97 => small
    /\ Len(figures) = z + Len(D)
    /\ ValueOf(figures, base) = w

LEMMA FiguresRead ==
  ASSUME NEW base \in Bases, NEW small \in BOOLEAN, NEW w \in Nat, NEW D, Readable(D, w, base, small),
         NEW z \in Nat, NEW figures, Figured(figures, z, D)
  PROVE  FiguresAre(figures, base, small, w, z, D)
<1>1. /\ D \in Seq(Int) /\ Len(D) \in Nat /\ ValueOf(D, base) = w
      /\ \A i \in 1..Len(D) : /\ D[i] \in Figures /\ DigitValue(D[i]) \in 0..(base - 1)
                              /\ D[i] >= 97 => small
  BY DEF Readable
<1>2. /\ figures \in Seq(Int) /\ Len(figures) = z + Len(D)
      /\ \A i \in 1..z : figures[i] = Zero
      /\ \A i \in 1..Len(D) : figures[z + i] = D[i]
  BY DEF Figured
<1>3. ASSUME NEW i \in 1..Len(figures)
      PROVE  DigitValue(figures[i]) \in 0..(base - 1) /\ (figures[i] >= 97 => small)
  <2>1. CASE i <= z
    <3>1. figures[i] = Zero
      BY <1>2, <2>1
    <3>2. DigitValue(Zero) \in 0..(base - 1) /\ ~(Zero >= 97)
      BY DEF DigitValue, Zero, Bases
    <3> QED BY <3>1, <3>2, Zenon
  <2>2. CASE ~(i <= z)
    <3>1. PICK j : j = i - z
      OBVIOUS
    <3>2. j \in 1..Len(D) /\ i = z + j
      BY <1>1, <1>2, <2>2, <3>1
    <3> QED BY <1>1, <1>2, <3>2, Zenon
  <2> QED BY <2>1, <2>2
<1>4. ValueOf(figures, base) = ValueOf(D, base)
  <2>1. D \in Seq(Int)
    BY <1>1
  <2>2. figures \in Seq(Int)
    BY <1>2
  <2> QED BY <1>2, <2>1, <2>2, ValueShifted
<1>5. DOMAIN figures = 1..Len(figures)
  BY <1>2
<1>6. \A i \in DOMAIN figures : DigitValue(figures[i]) \in 0..(base - 1) /\ (figures[i] >= 97 => small)
  <2> TAKE i \in DOMAIN figures
  <2>1. i \in 1..Len(figures)
    BY <1>5, Zenon
  <2> QED BY <1>3, <2>1, Zenon
<1>7. ValueOf(figures, base) = w
  BY <1>1, <1>4, Zenon
<1>8. Len(figures) = z + Len(D)
  BY <1>2
<1> QED BY <1>6, <1>7, <1>8, Zenon DEF FiguresAre

-----------------------------------------------------------------------------
(* The number is the argument.                                             *)

(* The sizes of the types, as far as they matter.                          *)
Widths ==
    /\ LongBits \in Nat
    /\ \A bits \in {ShortBits, IntBits, LongBits} :
         /\ 2 ^ (bits - 1) \in Nat \ {0, 1} /\ 2 ^ bits = 2 * (2 ^ (bits - 1))
         /\ 2 ^ bits <= 2 ^ LongBits

LEMMA SignedIs == ASSUME Widths, NEW bits \in {ShortBits, IntBits, LongBits}, NEW n \in Int
  PROVE /\ Signed(n, bits) \in (-(2 ^ (bits - 1)))..((2 ^ (bits - 1)) - 1)
        /\ Unsigned(n, bits) \in 0..((2 ^ bits) - 1)
<1>1. PICK h, m : h = 2 ^ (bits - 1) /\ m = 2 ^ bits
  OBVIOUS
<1>2. h \in Nat \ {0} /\ m = 2 * h
  BY <1>1 DEF Widths
<1>3. m \in Nat \ {0}
  BY <1>2
<1>4. n % m \in 0..(m - 1)
  BY <1>3
<1>5. Unsigned(n, bits) = n % m
  BY <1>1, Zenon DEF Unsigned
<1>6. Signed(n, bits) = IF n % m < h THEN n % m ELSE (n % m) - m
  BY <1>1, Zenon DEF Signed, Unsigned
<1>7. Signed(n, bits) \in (-h)..(h - 1)
  BY <1>2, <1>4, <1>6
<1> QED BY <1>1, <1>4, <1>5, <1>7, Zenon

LEMMA SignedLong ==
  ASSUME Widths, NEW n \in (-(2 ^ (LongBits - 1)))..((2 ^ (LongBits - 1)) - 1)
  PROVE  Signed(n, LongBits) = n
<1>1. PICK h, m : h = 2 ^ (LongBits - 1) /\ m = 2 ^ LongBits
  OBVIOUS
<1>2. h \in Nat \ {0} /\ m = 2 * h
  BY <1>1 DEF Widths
<1>3. n \in (-h)..(h - 1)
  BY <1>1
<1>4. n % m = IF n < 0 THEN n + m ELSE n
  BY <1>2, <1>3
<1>5. Signed(n, LongBits) = IF n % m < h THEN n % m ELSE (n % m) - m
  BY <1>1, Zenon DEF Signed, Unsigned
<1> QED BY <1>2, <1>3, <1>4, <1>5

(* Reading as a signed long, and as an unsigned one what was read so.      *)
LEMMA UnsignedLong ==
  ASSUME Widths, NEW n \in 0..((2 ^ LongBits) - 1)
  PROVE  Unsigned(Signed(n, LongBits), LongBits) = n
<1>1. PICK h, m : h = 2 ^ (LongBits - 1) /\ m = 2 ^ LongBits
  OBVIOUS
<1>2. h \in Nat \ {0} /\ m = 2 * h
  BY <1>1 DEF Widths
<1>3. n \in 0..(m - 1)
  BY <1>1
<1>4. n % m = n
  BY <1>2, <1>3
<1>5. Signed(n, LongBits) = IF n < h THEN n ELSE n - m
  BY <1>1, <1>4, Zenon DEF Signed, Unsigned
<1>6. (n - m) % m = n
  BY <1>2, <1>3
<1>7. CASE n < h
  <2>1. Signed(n, LongBits) = n
    BY <1>5, <1>7
  <2> QED BY <1>1, <1>4, <2>1, Zenon DEF Unsigned
<1>8. CASE ~(n < h)
  <2>1. Signed(n, LongBits) = n - m
    BY <1>5, <1>8
  <2> QED BY <1>1, <1>6, <2>1, Zenon DEF Unsigned
<1> QED BY <1>7, <1>8

Absolute(v) == IF v < 0 THEN -v ELSE v
Slots == 0..((2 ^ LongBits) - 1)
SignedConversion(d) == d.conv \in {"d", "i"}

(* What is asked of number, for the argument v.                            *)
Asked(d, num, base, flags, v) ==
    /\ num \in Int /\ v \in Int /\ base = ReadBase(d) /\ base \in Bases
    /\ Magnitude(num, flags) = Absolute(v)
    /\ "SIGN" \in flags <=> SignedConversion(d)
    /\ SignedConversion(d) => num = v
    /\ ~SignedConversion(d) => v >= 0
    /\ "SMALL" \in flags <=> d.conv = "x"
    /\ \A flag \in {"PLUS", "SPACE", "SPECIAL"} : flag \in flags <=> flag \in d.flags
    /\ "LEFT" \in flags <=> ToTheLeft(d)

LEMMA SignedMagnitude ==
  ASSUME Widths, NEW num \in (-(2 ^ (LongBits - 1)))..((2 ^ (LongBits - 1)) - 1), NEW flags, "SIGN" \in flags
  PROVE  Magnitude(num, flags) = Absolute(num)
<1>1. PICK h, m : h = 2 ^ (LongBits - 1) /\ m = 2 ^ LongBits
  OBVIOUS
<1>2. h \in Nat \ {0} /\ m = 2 * h
  BY <1>1 DEF Widths
<1>3. num \in (-h)..(h - 1)
  BY <1>1
<1>4. Magnitude(num, flags) = (IF num < 0 THEN -num ELSE num) % m
  BY <1>1, Zenon DEF Magnitude, Unsigned
<1>5. PICK a : a = IF num < 0 THEN -num ELSE num
  OBVIOUS
<1>6. a \in 0..(m - 1)
  BY <1>2, <1>3, <1>5
<1>7. a % m = a
  BY <1>2, <1>6
<1> QED BY <1>4, <1>5, <1>7, Zenon DEF Absolute

Directives == [conv : {"text", "c", "s", "p", "n", "%", "other", "d", "i", "u", "o", "x", "X"},
               flags : SUBSET Flags, width : {None, Star} \union Nat,
               precision : {None, Star} \union Nat, qualifier : {"none", "h", "l", "L"},
               text : Seq(0..255)]

LEMMA FlagsKept == ASSUME NEW d \in Directives
  PROVE /\ \A flag : flag \in FlagsOf(d) <=> flag \in d.flags \/ (flag = "LEFT" /\ d.width = Star /\ StarWidth(d) < 0)
        /\ "LEFT" \in FlagsOf(d) <=> ToTheLeft(d)
        /\ "SIGN" \notin d.flags /\ "SMALL" \notin d.flags
  BY DEF FlagsOf, ToTheLeft, Directives, Flags

LEMMA IntegerAsked ==
  ASSUME Widths, NEW d \in Directives, d.conv \in {"d", "i", "u", "o", "x", "X"}, NEW slot \in Slots
  PROVE  Asked(d, Num(d, slot), Base(d), NumberFlags(d), Meant(d, slot))
<1>1. PICK flags : flags = NumberFlags(d)
  OBVIOUS
<1>2. /\ "SIGN" \in flags <=> SignedConversion(d)
      /\ "SMALL" \in flags <=> d.conv = "x"
      /\ \A flag \in {"PLUS", "SPACE", "SPECIAL"} : flag \in flags <=> flag \in d.flags
      /\ "LEFT" \in flags <=> ToTheLeft(d)
  BY <1>1, FlagsKept DEF NumberFlags, SignedConversion
<1>3. Base(d) = ReadBase(d) /\ Base(d) \in Bases
  BY DEF Base, ReadBase, Bases
<1>4. slot \in Int
  BY DEF Slots
<1>5. PICK bits : bits = CASE d.qualifier = "l" -> LongBits [] d.qualifier = "h" -> ShortBits
                           [] OTHER -> IntBits
  OBVIOUS
<1>6. bits \in {ShortBits, IntBits, LongBits}
  BY <1>5
<1>7. CASE SignedConversion(d)
  <2>1. Meant(d, slot) = Signed(slot, bits)
    BY <1>5, <1>7 DEF Meant, SignedConversion
  <2>2. Signed(slot, bits) \in (-(2 ^ (bits - 1)))..((2 ^ (bits - 1)) - 1)
    BY <1>4, <1>6, SignedIs
  <2>3. Signed(slot, bits) \in (-(2 ^ (LongBits - 1)))..((2 ^ (LongBits - 1)) - 1)
    <3>1. PICK h, m, H, M : /\ h = 2 ^ (bits - 1) /\ m = 2 ^ bits
                            /\ H = 2 ^ (LongBits - 1) /\ M = 2 ^ LongBits
      OBVIOUS
    <3>2. h \in Nat /\ H \in Nat /\ m = 2 * h /\ M = 2 * H /\ m <= M
      BY <1>6, <3>1 DEF Widths
    <3> QED BY <2>2, <3>1, <3>2
  <2>4. Num(d, slot) = Signed(slot, bits)
    <3>1. CASE d.qualifier = "l"
      BY <1>5, <3>1 DEF Num
    <3>2. CASE d.qualifier # "l"
      <4>1. Num(d, slot) = Signed(Signed(slot, bits), LongBits)
        BY <1>5, <1>7, <3>2 DEF Num, SignedConversion
      <4> QED BY <2>3, <4>1, SignedLong
    <3> QED BY <3>1, <3>2
  <2>5. Magnitude(Num(d, slot), flags) = Absolute(Meant(d, slot))
    <3>1. "SIGN" \in flags
      BY <1>2, <1>7
    <3>2. PICK num : num = Signed(slot, bits)
      OBVIOUS
    <3>3. Magnitude(num, flags) = Absolute(num)
      BY <2>3, <3>1, <3>2, SignedMagnitude
    <3> QED BY <2>1, <2>4, <3>2, <3>3, Zenon
  <2>6. Num(d, slot) \in Int /\ Meant(d, slot) \in Int /\ Num(d, slot) = Meant(d, slot)
    <3>1. Signed(slot, bits) \in Int
      <4>1. 2 ^ (LongBits - 1) \in Int
        BY DEF Widths
      <4> QED BY <2>3, <4>1
    <3> QED BY <2>1, <2>4, <3>1, Zenon
  <2> QED BY <1>1, <1>2, <1>3, <1>7, <2>5, <2>6, Zenon DEF Asked
<1>8. CASE ~SignedConversion(d)
  <2>1. Meant(d, slot) = Unsigned(slot, bits)
    BY <1>5, <1>8 DEF Meant, SignedConversion
  <2>2. Unsigned(slot, bits) \in 0..((2 ^ bits) - 1)
    BY <1>4, <1>6, SignedIs
  <2>3. Unsigned(slot, bits) \in 0..((2 ^ LongBits) - 1) /\ Unsigned(slot, bits) \in Nat
    <3>1. PICK m, M : m = 2 ^ bits /\ M = 2 ^ LongBits
      OBVIOUS
    <3>2. PICK h, H : h = 2 ^ (bits - 1) /\ H = 2 ^ (LongBits - 1)
      OBVIOUS
    <3>3. h \in Nat /\ H \in Nat /\ m = 2 * h /\ M = 2 * H /\ m <= M
      BY <1>6, <3>1, <3>2 DEF Widths
    <3> QED BY <2>2, <3>1, <3>3
  <2>4. Num(d, slot) = Signed(Unsigned(slot, bits), LongBits)
    <3>1. CASE d.qualifier = "l"
      <4>1. Num(d, slot) = Signed(slot, LongBits) /\ bits = LongBits
        BY <1>5, <3>1 DEF Num
      <4>2. Unsigned(slot, LongBits) = slot
        <5>1. PICK m, H : m = 2 ^ LongBits /\ H = 2 ^ (LongBits - 1)
          OBVIOUS
        <5>2. H \in Nat \ {0} /\ m = 2 * H
          BY <5>1 DEF Widths
        <5>3. slot \in 0..(m - 1)
          BY <5>1 DEF Slots
        <5>4. slot % m = slot
          BY <5>2, <5>3
        <5> QED BY <5>1, <5>4, Zenon DEF Unsigned
      <4> QED BY <4>1, <4>2, Zenon
    <3>2. CASE d.qualifier # "l"
      BY <1>5, <1>8, <3>2 DEF Num, SignedConversion
    <3> QED BY <3>1, <3>2
  <2>5. PICK n : n = Unsigned(slot, bits)
    OBVIOUS
  <2>6. Unsigned(Signed(n, LongBits), LongBits) = n
    BY <2>3, <2>5, UnsignedLong
  <2>7. Magnitude(Num(d, slot), flags) = Unsigned(Num(d, slot), LongBits)
    BY <1>2, <1>8, Zenon DEF Magnitude
  <2>8. Absolute(n) = n /\ n \in Int /\ n >= 0
    BY <2>3, <2>5 DEF Absolute
  <2>9. Num(d, slot) \in Int
    <3>1. Signed(n, LongBits) \in (-(2 ^ (LongBits - 1)))..((2 ^ (LongBits - 1)) - 1)
      BY <2>8, SignedIs
    <3>2. 2 ^ (LongBits - 1) \in Int
      BY DEF Widths
    <3>3. Signed(n, LongBits) \in Int
      BY <3>1, <3>2
    <3> QED BY <2>4, <2>5, <3>3, Zenon
  <2>10. Magnitude(Num(d, slot), flags) = Absolute(Meant(d, slot))
    BY <2>1, <2>4, <2>5, <2>6, <2>7, <2>8, Zenon
  <2>11. Meant(d, slot) \in Int /\ Meant(d, slot) >= 0
    BY <2>1, <2>5, <2>8, Zenon
  <2> QED BY <1>1, <1>2, <1>3, <1>8, <2>9, <2>10, <2>11, Zenon DEF Asked
<1> QED BY <1>7, <1>8

LEMMA PointerAsked ==
  ASSUME Widths, NEW d \in Directives, d.conv = "p", NEW slot \in Slots,
         NEW flags, flags = FlagsOf(d) \/ flags = FlagsOf(d) \union {"ZEROPAD"}
  PROVE  Asked(d, Signed(slot, LongBits), 16, flags, Meant(d, slot))
<1>1. /\ ~SignedConversion(d) /\ "SIGN" \notin flags
      /\ "SMALL" \notin flags
      /\ \A flag \in {"PLUS", "SPACE", "SPECIAL"} : flag \in flags <=> flag \in d.flags
      /\ "LEFT" \in flags <=> ToTheLeft(d)
  BY FlagsKept DEF SignedConversion
<1>2. 16 = ReadBase(d) /\ 16 \in Bases
  BY DEF ReadBase, Bases
<1>3. Meant(d, slot) = Unsigned(slot, LongBits)
  BY DEF Meant
<1>4. PICK m, H : m = 2 ^ LongBits /\ H = 2 ^ (LongBits - 1)
  OBVIOUS
<1>5. H \in Nat \ {0} /\ m = 2 * H
  BY <1>4 DEF Widths
<1>6. slot \in 0..(m - 1)
  BY <1>4 DEF Slots
<1>7. slot % m = slot /\ slot \in Int /\ slot >= 0
  BY <1>5, <1>6
<1>8. Meant(d, slot) = slot
  BY <1>3, <1>4, <1>7, Zenon DEF Unsigned
<1>9. Unsigned(Signed(slot, LongBits), LongBits) = slot
  BY UnsignedLong, Zenon DEF Slots
<1>10. Signed(slot, LongBits) \in Int
  <2>1. Signed(slot, LongBits) \in (-H)..(H - 1)
    BY <1>4, <1>7, SignedIs
  <2> QED BY <1>5, <2>1
<1>11. Magnitude(Signed(slot, LongBits), flags) = slot
  BY <1>1, <1>9, Zenon DEF Magnitude
<1>12. Absolute(slot) = slot
  BY <1>7 DEF Absolute
<1>13. d.conv # "x"
  OBVIOUS
<1> QED BY <1>1, <1>2, <1>7, <1>8, <1>10, <1>11, <1>12, <1>13, Zenon DEF Asked

-----------------------------------------------------------------------------
(* What number puts out, for what is asked of it.                          *)

ReadsAs(out, d, v, precision) ==
    LET text    == Bare(out)
        figures == FiguresIn(d, text)
    IN  /\ (text[1] = Minus) = (v < 0)
        /\ text[1] = Plus => "PLUS" \in d.flags /\ d.conv \in {"d", "i"}
        /\ Marked(d) => SubSeq(text, Signs(text) + 1, Signs(text) + 2) \in {<<48, 88>>, <<48, 120>>}
        /\ \A i \in DOMAIN figures : DigitValue(figures[i]) \in 0..(ReadBase(d) - 1)
        /\ \A i \in DOMAIN figures : figures[i] >= 97 => d.conv = "x"
        /\ Len(figures) >= precision
        /\ ValueOf(figures, ReadBase(d)) = IF v < 0 THEN -v ELSE v

Widened(d, v) ==
    (IF d.conv \in {"d", "i"} /\ (v < 0 \/ {"PLUS", "SPACE"} \intersect d.flags # {}) THEN 1 ELSE 0)
    + (IF "SPECIAL" \notin d.flags THEN 0
       ELSE CASE ReadBase(d) = 16 -> 2 [] ReadBase(d) = 8 -> 1 [] OTHER -> 0)

Fills(out, d, v, size, precision) ==
    /\ Len(out) = Larger(size, Widened(d, v)
                               + Larger(precision, FewestFigures(Absolute(v), ReadBase(d))))
    /\ ToTheLeft(d) => out[1] # Space \/ "SPACE" \in d.flags
    /\ ~ToTheLeft(d) => out[Len(out)] # Space

SignFits(g, d, v) ==
    /\ g = <<Minus>> <=> v < 0
    /\ g = <<Plus>> => "PLUS" \in d.flags /\ d.conv \in {"d", "i"}
    /\ g = <<Space>> => "SPACE" \in d.flags
    /\ Len(g) = IF d.conv \in {"d", "i"} /\ (v < 0 \/ {"PLUS", "SPACE"} \intersect d.flags # {})
                THEN 1 ELSE 0

LEMMA SignAsked ==
  ASSUME NEW d, NEW num, NEW base, NEW flags, NEW v, Asked(d, num, base, flags, v),
         NEW g, g = Sign(num, flags)
  PROVE  SignFits(g, d, v)
<1>1. /\ v \in Int
      /\ "SIGN" \in flags <=> SignedConversion(d)
      /\ SignedConversion(d) => num = v
      /\ ~SignedConversion(d) => v >= 0
      /\ "PLUS" \in flags <=> "PLUS" \in d.flags
      /\ "SPACE" \in flags <=> "SPACE" \in d.flags
  BY DEF Asked
<1>2. /\ <<45>> # <<43>> /\ <<45>> # <<32>> /\ <<43>> # <<32>>
      /\ <<>> # <<45>> /\ <<>> # <<43>> /\ <<>> # <<32>>
      /\ Len(<<>>) = 0 /\ Len(<<45>>) = 1 /\ Len(<<43>>) = 1 /\ Len(<<32>>) = 1
  OBVIOUS
<1>3. CASE ~SignedConversion(d)
  <2>1. g = <<>> /\ ~(v < 0)
    BY <1>1, <1>3 DEF Sign
  <2>2. Len(g) = 0 /\ g # <<45>> /\ g # <<43>> /\ g # <<32>>
    BY <2>1
  <2>3. (IF d.conv \in {"d", "i"} /\ (v < 0 \/ {"PLUS", "SPACE"} \intersect d.flags # {}) THEN 1 ELSE 0) = 0
    BY <1>3 DEF SignedConversion
  <2>4. Len(g) = IF d.conv \in {"d", "i"} /\ (v < 0 \/ {"PLUS", "SPACE"} \intersect d.flags # {})
                 THEN 1 ELSE 0
    BY <2>2, <2>3
  <2> QED BY <2>1, <2>2, <2>4, Zenon DEF SignFits, Minus, Plus, Space
<1>4. CASE SignedConversion(d)
  <2>1. d.conv \in {"d", "i"} /\ num = v /\ "SIGN" \in flags
    BY <1>1, <1>4, Zenon DEF SignedConversion
  <2>2. ({"PLUS", "SPACE"} \intersect d.flags # {}) <=> "PLUS" \in d.flags \/ "SPACE" \in d.flags
    OBVIOUS
  <2>3. CASE v < 0
    <3>1. g = <<45>>
      BY <2>1, <2>3, Zenon DEF Sign, Minus
    <3> QED BY <1>2, <2>1, <2>3, <3>1, Zenon DEF SignFits, Minus, Plus, Space
  <2>4. CASE ~(v < 0) /\ "PLUS" \in d.flags
    <3>1. g = <<43>>
      BY <1>1, <2>1, <2>4, Zenon DEF Sign, Plus
    <3> QED BY <1>2, <2>1, <2>2, <2>4, <3>1, Zenon DEF SignFits, Minus, Plus, Space
  <2>5. CASE ~(v < 0) /\ "PLUS" \notin d.flags /\ "SPACE" \in d.flags
    <3>1. g = <<32>>
      BY <1>1, <2>1, <2>5, Zenon DEF Sign, Space
    <3> QED BY <1>2, <2>1, <2>2, <2>5, <3>1, Zenon DEF SignFits, Minus, Plus, Space
  <2>6. CASE ~(v < 0) /\ "PLUS" \notin d.flags /\ "SPACE" \notin d.flags
    <3>1. g = <<>>
      BY <1>1, <2>1, <2>6, Zenon DEF Sign
    <3>2. Len(g) = 0 /\ g # <<45>> /\ g # <<43>> /\ g # <<32>>
      BY <3>1
    <3> QED BY <2>1, <2>2, <2>6, <3>2, Zenon DEF SignFits, Minus, Plus, Space
  <2> QED BY <2>3, <2>4, <2>5, <2>6, Zenon
<1> QED BY <1>3, <1>4

PrefixFits(x, d) ==
    /\ Len(x) = IF "SPECIAL" \notin d.flags THEN 0
                ELSE CASE ReadBase(d) = 16 -> 2 [] ReadBase(d) = 8 -> 1 [] OTHER -> 0
    /\ Marked(d) <=> Len(x) = 2
    /\ x = <<>> \/ x = <<Zero>> \/ x = <<Zero, 88>> \/ x = <<Zero, 120>>

LEMMA PrefixAsked ==
  ASSUME NEW d, NEW num, NEW base, NEW flags, NEW v, Asked(d, num, base, flags, v),
         NEW x, x = Prefix(base, flags)
  PROVE  PrefixFits(x, d)
<1> SUFFICES /\ Len(x) = IF "SPECIAL" \notin d.flags THEN 0
                         ELSE CASE ReadBase(d) = 16 -> 2 [] ReadBase(d) = 8 -> 1 [] OTHER -> 0
             /\ Marked(d) <=> Len(x) = 2
             /\ x = <<>> \/ x = <<Zero>> \/ x = <<Zero, 88>> \/ x = <<Zero, 120>>
  BY DEF PrefixFits
<1>1. /\ base = ReadBase(d) /\ base \in {8, 10, 16}
      /\ "SPECIAL" \in flags <=> "SPECIAL" \in d.flags
  BY DEF Asked, Bases
<1>2. CASE "SPECIAL" \notin d.flags
  <2>1. x = <<>>
    BY <1>1, <1>2, Zenon DEF Prefix
  <2> QED BY <1>2, <2>1 DEF Marked
<1>3. CASE "SPECIAL" \in d.flags /\ base = 8
  <2>1. x = <<48>>
    BY <1>1, <1>3 DEF Prefix, Zero
  <2>2. Len(x) = 1 /\ ReadBase(d) = 8
    BY <1>1, <1>3, <2>1
  <2> QED BY <1>3, <2>1, <2>2 DEF Marked, Zero
<1>4. CASE "SPECIAL" \in d.flags /\ base = 10
  <2>1. x = <<>>
    BY <1>1, <1>4 DEF Prefix, Zero
  <2>2. Len(x) = 0 /\ ReadBase(d) = 10
    BY <1>1, <1>4, <2>1
  <2> QED BY <1>4, <2>1, <2>2 DEF Marked
<1>5. CASE "SPECIAL" \in d.flags /\ base = 16
  <2>1. x = <<48, 88>> \/ x = <<48, 120>>
    BY <1>1, <1>5 DEF Prefix, Zero
  <2>2. Len(x) = 2 /\ ReadBase(d) = 16
    BY <1>1, <1>5, <2>1
  <2> QED BY <1>5, <2>1, <2>2 DEF Marked, Zero
<1> QED BY <1>1, <1>2, <1>3, <1>4, <1>5

SignShown(g) == IF g = <<Space>> THEN <<>> ELSE g
MarkShown(x) == IF x = <<Zero>> THEN <<>> ELSE x

Normalised(out, g, x, D, m, y, r, precision, flags) ==
    /\ Laid(out, m, SignShown(g), MarkShown(x), y, D, r)
    /\ r \in Nat /\ y + Len(D) >= precision
    /\ "LEFT" \in flags => m = 0 \/ g = <<Space>>

LEMMA Normal ==
  ASSUME NEW d, NEW num, NEW base, NEW flags, NEW v, Asked(d, num, base, flags, v),
         NEW out, NEW size, NEW precision \in Int, NEW D \in Seq(Int), NEW l, NEW z, NEW r,
         Padding(out, size, precision, flags, Sign(num, flags), Prefix(base, flags), D, l, z, r)
  PROVE  \E m, y \in Nat : Normalised(out, Sign(num, flags), Prefix(base, flags), D, m, y, r, precision, flags)
<1>1. PICK g, x : g = Sign(num, flags) /\ x = Prefix(base, flags)
  OBVIOUS
<1>2. /\ l \in Nat /\ z \in Nat /\ r \in Nat
      /\ Laid(out, l, g, x, z, D, r)
      /\ z + Len(D) >= precision
      /\ "LEFT" \in flags => l = 0
  BY <1>1, Zenon DEF Padding
<1>3. base \in Bases
  BY DEF Asked
<1>4. g \in Seq(Int) /\ x \in Seq(Int)
  BY <1>1, <1>3, Shapes, Zenon
<1>5. PICK y \in Nat : Laid(out, l, g, MarkShown(x), y, D, r) /\ y >= z
  <2>1. CASE x = <<Zero>>
    <3>1. Laid(out, l, g, <<>>, z + 1, D, r)
      <4>1. l \in Nat /\ z \in Nat /\ r \in Nat
        BY <1>2
      <4>2. Laid(out, l, g, x, z, D, r) /\ g \in Seq(Int)
        BY <1>2, <1>4
      <4> QED BY <2>1, <4>1, <4>2, ZeroPrefix
    <3>2. z + 1 \in Nat /\ z + 1 >= z
      BY <1>2
    <3>3. MarkShown(x) = <<>>
      BY <2>1, Zenon DEF MarkShown
    <3> QED BY <3>1, <3>2, <3>3, Zenon
  <2>2. CASE x # <<Zero>>
    <3>1. MarkShown(x) = x /\ z >= z
      BY <1>2, <2>2 DEF MarkShown
    <3> QED BY <1>2, <3>1
  <2> QED BY <2>1, <2>2
<1>6. y + Len(D) >= precision
  <2>1. Len(D) \in Nat /\ z \in Nat /\ y >= z /\ z + Len(D) >= precision
    BY <1>2, <1>5
  <2> QED BY <2>1
<1>7. CASE g = <<Space>>
  <2>1. Laid(out, l + 1, <<>>, MarkShown(x), y, D, r)
    <3>1. l \in Nat /\ y \in Nat /\ r \in Nat /\ MarkShown(x) \in Seq(Int)
      BY <1>2, <1>4 DEF MarkShown
    <3>2. Laid(out, l, g, MarkShown(x), y, D, r)
      BY <1>5
    <3>3. PICK xx : xx = MarkShown(x)
      OBVIOUS
    <3>4. xx \in Seq(Int) /\ Laid(out, l, g, xx, y, D, r)
      BY <3>1, <3>2, <3>3
    <3>5. Laid(out, l + 1, <<>>, xx, y, D, r)
      BY <1>7, <3>1, <3>4, BlankSign
    <3> QED BY <3>3, <3>5, Zenon
  <2>2. SignShown(g) = <<>> /\ l + 1 \in Nat
    BY <1>2, <1>7 DEF SignShown
  <2>3. Normalised(out, g, x, D, l + 1, y, r, precision, flags)
    BY <1>2, <1>6, <1>7, <2>1, <2>2, Zenon DEF Normalised
  <2> QED BY <1>1, <2>2, <2>3, Zenon
<1>8. CASE g # <<Space>>
  <2>1. SignShown(g) = g
    BY <1>8, Zenon DEF SignShown
  <2>2. Normalised(out, g, x, D, l, y, r, precision, flags)
    BY <1>2, <1>5, <1>6, <2>1, Zenon DEF Normalised
  <2> QED BY <1>1, <1>2, <2>2, Zenon
<1> QED BY <1>7, <1>8

LEMMA NumberReads ==
  ASSUME Widths, NEW d, NEW num, NEW base, NEW flags, NEW v, Asked(d, num, base, flags, v),
         NEW size \in Int, NEW precision \in Int, NEW out,
         out = Number(num, base, size, precision, flags)
  PROVE  ReadsAs(out, d, v, precision) /\ Fills(out, d, v, size, precision) /\ out \in Seq(Int)
<1>1. /\ num \in Int /\ v \in Int /\ base = ReadBase(d) /\ base \in Bases
      /\ Magnitude(num, flags) = Absolute(v)
      /\ "SMALL" \in flags <=> d.conv = "x"
      /\ "LEFT" \in flags <=> ToTheLeft(d)
  BY Zenon DEF Asked
<1>2. PICK w : w = Absolute(v)
  OBVIOUS
<1>3. w \in Nat /\ w = (IF v < 0 THEN -v ELSE v)
  BY <1>1, <1>2 DEF Absolute
<1>4. PICK g, x, D : /\ g = Sign(num, flags) /\ x = Prefix(base, flags)
                     /\ D = Digits(w, base, "SMALL" \in flags)
  OBVIOUS
<1>5. Readable(D, w, base, "SMALL" \in flags)
  <2>1. ("SMALL" \in flags) \in BOOLEAN
    OBVIOUS
  <2> QED BY <1>1, <1>3, <1>4, <2>1, DigitsReadable, Zenon
<1>6. D \in Seq(Int) /\ Len(D) >= 1 /\ \A i \in 1..Len(D) : D[i] \in Figures
  BY <1>5, Zenon DEF Readable
<1>7. D \in Seq(Int)
  BY <1>6
<1>8. PICK l, z, r : Padding(out, size, precision, flags, g, x, D, l, z, r)
  BY <1>1, <1>2, <1>3, <1>4, NumberPadded, Zenon
<1>9. PICK m, y \in Nat :
           /\ Laid(out, m, SignShown(g), MarkShown(x), y, D, r)
           /\ r \in Nat /\ y + Len(D) >= precision
           /\ "LEFT" \in flags => m = 0 \/ g = <<Space>>
  <2>1. \E m, y \in Nat : Normalised(out, g, x, D, m, y, r, precision, flags)
    BY <1>4, <1>7, <1>8, Normal, Zenon
  <2> QED BY <2>1, Zenon DEF Normalised
<1>10. /\ g = <<Minus>> <=> v < 0
       /\ g = <<Plus>> => "PLUS" \in d.flags /\ d.conv \in {"d", "i"}
       /\ g = <<Space>> => "SPACE" \in d.flags
       /\ Len(g) = IF d.conv \in {"d", "i"} /\ (v < 0 \/ {"PLUS", "SPACE"} \intersect d.flags # {})
                   THEN 1 ELSE 0
  <2>1. SignFits(g, d, v)
    BY <1>4, SignAsked, Zenon
  <2> QED BY <2>1, Zenon DEF SignFits
<1>11. /\ Len(x) = IF "SPECIAL" \notin d.flags THEN 0
                   ELSE CASE ReadBase(d) = 16 -> 2 [] ReadBase(d) = 8 -> 1 [] OTHER -> 0
       /\ Marked(d) <=> Len(x) = 2
       /\ x = <<>> \/ x = <<Zero>> \/ x = <<Zero, 88>> \/ x = <<Zero, 120>>
  <2>1. PrefixFits(x, d)
    BY <1>4, PrefixAsked, Zenon
  <2> QED BY <2>1, Zenon DEF PrefixFits
<1>12. PICK gg, xx : gg = SignShown(g) /\ xx = MarkShown(x)
  OBVIOUS
<1>13. SignSeen(gg) /\ MarkSeen(xx)
  <2>1. SignText(g)
    BY <1>1, <1>4, Shapes, Zenon
  <2>2. SignSeen(gg)
    BY <1>12, <2>1, Zenon DEF SignText, SignShown, SignSeen
  <2> QED BY <1>11, <1>12, <2>2, Zenon DEF MarkShown, MarkSeen
<1>14. gg = <<Minus>> <=> g = <<Minus>>
  <2>1. <<Minus>> # <<Space>> /\ <<>> # <<Minus>>
    BY DEF Minus, Space
  <2> QED BY <1>12, <2>1, Zenon DEF SignShown
<1>15. gg = <<Plus>> <=> g = <<Plus>>
  <2>1. <<Plus>> # <<Space>> /\ <<>> # <<Plus>>
    BY DEF Plus, Space
  <2> QED BY <1>12, <2>1, Zenon DEF SignShown
<1>16. Len(xx) = IF Marked(d) THEN 2 ELSE 0
  <2>1. CASE Len(x) = 2
    <3>1. x # <<Zero>>
      BY <2>1
    <3> QED BY <1>11, <1>12, <2>1, <3>1, Zenon DEF MarkShown
  <2>2. CASE Len(x) # 2
    <3>1. x = <<>> \/ x = <<Zero>>
      BY <1>11, <2>2
    <3>2. xx = <<>>
      BY <1>12, <3>1, Zenon DEF MarkShown
    <3>3. Len(xx) = 0
      BY <3>2
    <3> QED BY <1>11, <2>2, <3>3, Zenon
  <2> QED BY <2>1, <2>2
<1>17. PICK text : text = Bare(out)
  OBVIOUS
<1>18. Laid(out, m, gg, xx, y, D, r)
  BY <1>9, <1>12, Zenon
<1>19. Laid(text, 0, gg, xx, y, D, 0)
  <2>1. r \in Nat /\ Len(D) >= 1 /\ \A i \in 1..Len(D) : D[i] \in Figures
    BY <1>6, <1>9, Zenon
  <2>2. Laid(Bare(out), 0, gg, xx, y, D, 0)
    BY <1>7, <1>9, <1>13, <1>18, <2>1, BareLaid, Zenon
  <2> QED BY <1>17, <2>2, Zenon
<1>20. PICK figures : figures = SubSeq(text, Len(gg) + Len(xx) + 1, Len(text))
  OBVIOUS
<1>21. /\ text[1] = Minus <=> gg = <<Minus>>
       /\ text[1] = Plus <=> gg = <<Plus>>
       /\ Signs(text) = Len(gg)
       /\ Len(xx) = 2 => SubSeq(text, Len(gg) + 1, Len(gg) + 2) = xx
       /\ Figured(figures, y, D)
  <2>1. TextRead(text, gg, xx, y, D)
    BY <1>6, <1>7, <1>9, <1>13, <1>19, TextReads, Zenon
  <2> QED BY <1>20, <2>1, Zenon DEF TextRead
<1>22. /\ \A i \in DOMAIN figures : /\ DigitValue(figures[i]) \in 0..(base - 1)
                                    /\ figures[i] >= 97 => "SMALL" \in flags
       /\ Len(figures) = y + Len(D)
       /\ ValueOf(figures, base) = w
  <2>1. PICK small \in BOOLEAN : small <=> "SMALL" \in flags
    OBVIOUS
  <2>2. Readable(D, w, base, small)
    <3>1. CASE "SMALL" \in flags
      <4>1. small = TRUE /\ ("SMALL" \in flags) = TRUE
        BY <2>1, <3>1, Zenon
      <4> QED BY <1>5, <4>1, Zenon
    <3>2. CASE ~("SMALL" \in flags)
      <4>1. small = FALSE /\ ("SMALL" \in flags) = FALSE
        BY <2>1, <3>2, Zenon
      <4> QED BY <1>5, <4>1, Zenon
    <3> QED BY <3>1, <3>2
  <2>3. FiguresAre(figures, base, small, w, y, D)
    <3>1. small \in BOOLEAN /\ y \in Nat
      OBVIOUS
    <3>2. Figured(figures, y, D)
      BY <1>21
    <3> QED BY <1>1, <1>3, <2>2, <3>1, <3>2, FiguresRead
  <2>4. /\ \A i \in DOMAIN figures : /\ DigitValue(figures[i]) \in 0..(base - 1)
                                     /\ figures[i] >= 97 => small
        /\ Len(figures) = y + Len(D)
        /\ ValueOf(figures, base) = w
    BY <2>3, Zenon DEF FiguresAre
  <2> QED BY <2>1, <2>4, Zenon
<1>23. FiguresIn(d, text) = figures
  BY <1>16, <1>20, <1>21, Zenon DEF FiguresIn
<1>24. Marked(d) => SubSeq(text, Signs(text) + 1, Signs(text) + 2) \in {<<48, 88>>, <<48, 120>>}
  <2> SUFFICES ASSUME Marked(d) PROVE SubSeq(text, Signs(text) + 1, Signs(text) + 2) \in {<<48, 88>>, <<48, 120>>}
    OBVIOUS
  <2>1. Len(xx) = 2
    BY <1>16
  <2>2. xx \in {<<48, 88>>, <<48, 120>>}
    <3>1. xx = <<>> \/ xx = <<48, 88>> \/ xx = <<48, 120>>
      BY <1>13, Zenon DEF MarkSeen, Zero
    <3>2. xx # <<>>
      BY <2>1
    <3> QED BY <3>1, <3>2, Zenon
  <2>3. SubSeq(text, Len(gg) + 1, Len(gg) + 2) = xx
    BY <1>21, <2>1, Zenon
  <2>4. Signs(text) = Len(gg)
    BY <1>21
  <2>5. PICK n : n = Len(gg)
    OBVIOUS
  <2>6. SubSeq(text, n + 1, n + 2) = xx
    BY <2>3, <2>5, Zenon
  <2>7. Signs(text) = n
    BY <2>4, <2>5, Zenon
  <2> QED BY <2>2, <2>6, <2>7, Zenon
<1>25. ReadsAs(out, d, v, precision)
  <2>1. (text[1] = Minus) = (v < 0)
    <3>1. text[1] = Minus <=> v < 0
      BY <1>10, <1>14, <1>21, Zenon
    <3> QED BY <3>1
  <2>2. text[1] = Plus => "PLUS" \in d.flags /\ d.conv \in {"d", "i"}
    BY <1>10, <1>15, <1>21, Zenon
  <2>3. Len(figures) >= precision
    BY <1>9, <1>22, Zenon
  <2>4. \A i \in DOMAIN figures : DigitValue(figures[i]) \in 0..(ReadBase(d) - 1)
    BY <1>1, <1>22, Zenon
  <2>5. \A i \in DOMAIN figures : figures[i] >= 97 => d.conv = "x"
    BY <1>1, <1>22, Zenon
  <2>6. ValueOf(figures, ReadBase(d)) = IF v < 0 THEN -v ELSE v
    BY <1>1, <1>3, <1>22, Zenon
  <2> QED BY <1>17, <1>23, <1>24, <2>1, <2>2, <2>3, <2>4, <2>5, <2>6, Zenon DEF ReadsAs
<1>26. Len(out) = Larger(size, Widened(d, v) + Larger(precision, FewestFigures(Absolute(v), ReadBase(d))))
  <2>1. Len(out) = Larger(size, Len(g) + Len(x) + Larger(precision, Len(D)))
    BY <1>8, Zenon DEF Padding
  <2>2. Len(D) = FewestFigures(w, base)
    <3>1. ("SMALL" \in flags) \in BOOLEAN
      OBVIOUS
    <3> QED BY <1>1, <1>3, <1>4, <3>1, FiguresAreFewest, Zenon
  <2>3. Len(g) + Len(x) = Widened(d, v)
    BY <1>10, <1>11, Zenon DEF Widened
  <2> QED BY <1>1, <1>2, <2>1, <2>2, <2>3, Zenon
<1>27. \A i \in 1..(Len(gg) + Len(xx) + y + Len(D)) : out[m + i] # Space
  <2>1. r \in Nat /\ \A i \in 1..Len(D) : D[i] \in Figures
    BY <1>6, <1>9, Zenon
  <2> QED BY <1>7, <1>9, <1>13, <1>18, <2>1, FieldNoBlank, Zenon
<1>28. /\ out \in Seq(Int) /\ Len(out) = m + Len(gg) + Len(xx) + y + Len(D) + r
  BY <1>18, Zenon DEF Laid
<1>29. /\ m \in Nat /\ y \in Nat /\ r \in Nat /\ Len(D) \in Nat /\ Len(D) >= 1
       /\ Len(gg) \in Nat /\ Len(xx) \in Nat
  BY <1>6, <1>9, <1>13, SeenIs
<1>30. ASSUME ToTheLeft(d) PROVE out[1] # Space \/ "SPACE" \in d.flags
  <2>1. m = 0 \/ g = <<Space>>
    BY <1>1, <1>9, <1>30, Zenon
  <2>2. CASE m = 0
    <3>1. 1 \in 1..(Len(gg) + Len(xx) + y + Len(D)) /\ m + 1 = 1
      BY <1>29, <2>2
    <3>2. out[m + 1] # Space
      BY <1>27, <3>1, Zenon
    <3> QED BY <3>1, <3>2
  <2>3. CASE g = <<Space>>
    BY <1>10, <2>3, Zenon
  <2> QED BY <2>1, <2>2, <2>3, Zenon
<1>31. ASSUME ~ToTheLeft(d) PROVE out[Len(out)] # Space
  <2>1. r = 0
    BY <1>1, <1>8, <1>31, Zenon DEF Padding
  <2>2. PICK n : n = Len(gg) + Len(xx) + y + Len(D)
    OBVIOUS
  <2>3. n \in 1..n /\ Len(out) = m + n
    BY <1>28, <1>29, <2>1, <2>2
  <2>4. out[m + n] # Space
    BY <1>27, <2>2, <2>3, Zenon
  <2> QED BY <2>3, <2>4, Zenon
<1>32. Fills(out, d, v, size, precision)
  BY <1>26, <1>30, <1>31, Zenon DEF Fills
<1> QED BY <1>25, <1>28, <1>32, Zenon

-----------------------------------------------------------------------------
(* The arguments.  Of a call that is well formed there are as many as the  *)
(* directives name, each of one slot.                                      *)

Singles(seqs) == [k \in 1..Len(seqs) |-> seqs[k][1]]

LEMMA Flattened == ASSUME NEW S, NEW seqs \in Seq([1..1 -> S])
  PROVE FlattenSeq(seqs) = Singles(seqs)
<1>1. Len(seqs) \in Nat /\ \A i \in 1..Len(seqs) : seqs[i] \in [1..1 -> S]
  OBVIOUS
<1>2. CASE Len(seqs) = 0
  <2>1. FlattenSeq(seqs) = seqs
    BY <1>2 DEF FlattenSeq
  <2>2. seqs = Singles(seqs)
    BY <1>2 DEF Singles
  <2> QED BY <2>1, <2>2, Zenon
<1>3. CASE Len(seqs) # 0
  <2> DEFINE Is(f) == f = [i \in 1..Len(seqs) |-> IF i = 1 THEN seqs[i] ELSE f[i - 1] \o seqs[i]]
             First(k) == [i \in 1..k |-> seqs[i][1]]
             g == [k \in 1..Len(seqs) |-> First(k)]
  <2>1. \A i \in 1..Len(seqs) : seqs[i] = <<seqs[i][1]>> /\ seqs[i][1] \in S
    BY <1>1
  <2>2. First(1) = <<seqs[1][1]>>
    OBVIOUS
  <2>3. ASSUME NEW k \in 1..Len(seqs), k # 1
        PROVE  First(k) = First(k - 1) \o seqs[k]
    <3>1. PICK a : a = First(k - 1)
      OBVIOUS
    <3>2. a \in Seq(S) /\ Len(a) = k - 1 /\ \A i \in 1..(k - 1) : a[i] = seqs[i][1]
      <4>1. k - 1 \in Nat /\ \A i \in 1..(k - 1) : i \in 1..Len(seqs)
        BY <1>1, <2>3
      <4>2. a \in [1..(k - 1) -> S]
        BY <2>1, <3>1, <4>1
      <4> QED BY <3>1, <4>1, <4>2
    <3>3. seqs[k] \in Seq(S) /\ Len(seqs[k]) = 1 /\ seqs[k] = <<seqs[k][1]>>
      <4>1. seqs[k] = <<seqs[k][1]>> /\ seqs[k][1] \in S
        BY <2>1
      <4>2. PICK b : b = seqs[k]
        OBVIOUS
      <4>3. b \in Seq(S) /\ Len(b) = 1
        <5>1. PICK e : e = seqs[k][1]
          OBVIOUS
        <5>2. e \in S /\ b = <<e>>
          BY <4>1, <4>2, <5>1, Zenon
        <5> QED BY <5>2
      <4> QED BY <4>1, <4>2, <4>3, Zenon
    <3>4. PICK b : b = seqs[k]
      OBVIOUS
    <3>5. a \in Seq(S) /\ b \in Seq(S) /\ Len(b) = 1 /\ b[1] = seqs[k][1]
      BY <3>2, <3>3, <3>4, Zenon
    <3>6. /\ a \o b \in Seq(S) /\ Len(a \o b) = Len(a) + Len(b)
          /\ \A i \in 1..Len(a) : (a \o b)[i] = a[i]
          /\ \A i \in 1..Len(b) : (a \o b)[Len(a) + i] = b[i]
      <4>1. a \in Seq(S)
        BY <3>5
      <4>2. b \in Seq(S)
        BY <3>5
      <4> QED BY <4>1, <4>2, Cat
    <3>7. PICK c : c = a \o b
      OBVIOUS
    <3>8. /\ c \in Seq(S) /\ Len(c) = k
          /\ \A i \in 1..(k - 1) : c[i] = a[i]
          /\ c[k] = b[1]
      <4>1. Len(a) + 1 = k /\ 1 \in 1..Len(b) /\ Len(a) = k - 1
        BY <2>3, <3>2, <3>5
      <4>2. c[Len(a) + 1] = b[1] /\ \A i \in 1..(k - 1) : c[i] = a[i]
        BY <3>6, <3>7, <4>1, Zenon
      <4>3. c \in Seq(S) /\ Len(c) = Len(a) + Len(b)
        BY <3>6, <3>7, Zenon
      <4> QED BY <3>5, <4>1, <4>2, <4>3
    <3>9. ASSUME NEW i \in 1..k PROVE c[i] = seqs[i][1]
      <4>1. CASE i = k
        BY <3>5, <3>8, <4>1, Zenon
      <4>2. CASE i # k
        <5>1. i \in 1..(k - 1)
          BY <4>2
        <5> QED BY <3>2, <3>8, <5>1, Zenon
      <4> QED BY <4>1, <4>2
    <3>10. c = First(k)
      BY <3>8, <3>9
    <3> QED BY <3>1, <3>4, <3>7, <3>10, Zenon
  <2>4. ASSUME NEW k \in 1..Len(seqs) PROVE g[k] = IF k = 1 THEN seqs[k] ELSE g[k - 1] \o seqs[k]
    <3>1. CASE k = 1
      BY <2>1, <2>2, <3>1
    <3>2. CASE k # 1
      <4>1. k - 1 \in 1..Len(seqs)
        BY <1>1, <3>2
      <4>2. g[k] = First(k) /\ g[k - 1] = First(k - 1)
        BY <4>1
      <4> HIDE DEF g, First
      <4> QED BY <2>3, <3>2, <4>2, Zenon
    <3> QED BY <3>1, <3>2
  <2>5. Is(g)
    <3>1. g = [k \in 1..Len(seqs) |-> g[k]]
      OBVIOUS
    <3> HIDE DEF g
    <3> QED BY <2>4, <3>1
  <2>6. PICK f : f = CHOOSE h : Is(h)
    OBVIOUS
  <2>7. Is(f)
    BY <2>5, <2>6, Zenon
  <2>8. FlattenSeq(seqs) = f[Len(seqs)]
    BY <1>3, <2>6, Zenon DEF FlattenSeq
  <2>9. \A k \in 1..Len(seqs) : f[k] = IF k = 1 THEN seqs[k] ELSE f[k - 1] \o seqs[k]
    BY <2>7
  <2> DEFINE T == {k \in Nat : k + 1 <= Len(seqs) => f[k + 1] = g[k + 1]}
  <2>10. 0 \in T
    <3>1. 0 + 1 = 1 /\ 1 \in 1..Len(seqs)
      BY <1>1, <1>3
    <3>2. f[1] = seqs[1] /\ g[1] = seqs[1]
      <4> HIDE DEF g
      <4> QED BY <2>4, <2>9, <3>1
    <3> HIDE DEF g
    <3> QED BY <3>1, <3>2
  <2>11. ASSUME NEW k \in Nat, k \in T PROVE k + 1 \in T
    <3> HIDE DEF g
    <3> SUFFICES ASSUME (k + 1) + 1 <= Len(seqs) PROVE f[(k + 1) + 1] = g[(k + 1) + 1]
      OBVIOUS
    <3>1. PICK j : j = (k + 1) + 1
      OBVIOUS
    <3>2. j \in 1..Len(seqs) /\ j # 1 /\ j - 1 = k + 1 /\ f[k + 1] = g[k + 1]
      BY <1>1, <2>11, <3>1
    <3>3. f[j] = f[j - 1] \o seqs[j] /\ g[j] = g[j - 1] \o seqs[j]
      BY <2>4, <2>9, <3>2, Zenon
    <3> QED BY <3>1, <3>2, <3>3, Zenon
  <2>12. Nat \subseteq T
    <3> HIDE DEF T
    <3> QED BY <2>10, <2>11, Induction, Zenon
  <2>13. f[Len(seqs)] = g[Len(seqs)]
    <3>1. PICK k : k = Len(seqs) - 1
      OBVIOUS
    <3>2. k \in Nat /\ k + 1 = Len(seqs) /\ k + 1 <= Len(seqs)
      BY <1>1, <1>3, <3>1
    <3> HIDE DEF g
    <3>3. f[k + 1] = g[k + 1]
      BY <2>12, <3>2
    <3> QED BY <3>2, <3>3, Zenon
  <2>14. g[Len(seqs)] = First(Len(seqs))
    BY <1>1, <1>3
  <2>15. First(Len(seqs)) = Singles(seqs)
    BY DEF Singles
  <2> QED BY <2>8, <2>13, <2>14, <2>15, Zenon
<1> QED BY <1>2, <1>3

(* The formats the theorems are about: each argument fits a slot, there    *)
(* are as many as the directives name, and pointers to strings are such.   *)
Codes == 0..255

Strings == {p \in DOMAIN Memory : Memory[p] \in Seq(Codes)}

WellFormed ==
    /\ call.fmt \in Seq(Directives)
    /\ call.arguments \in Seq([1..1 -> Slots])
    /\ Len(call.arguments) = Named(Len(call.fmt) + 1)
    /\ \A i \in 1..Len(call.fmt) :
         call.fmt[i].conv = "s" => call.arguments[Named(i + 1)][1] \in Strings

(* All that a call may need to be printed: slots enough, however the       *)
(* caller's arguments lie in them.                                         *)
AllSlots == FlattenSeq(call.arguments)

Enough ==
    /\ call.fmt \in Seq(Directives)
    /\ AllSlots \in Seq(Slots)
    /\ Named(Len(call.fmt) + 1) <= Len(AllSlots)
    /\ \A i \in 1..Len(call.fmt) :
         call.fmt[i].conv = "s" => AllSlots[Named(i + 1)] \in Strings

LEMMA NamedByIs == ASSUME NEW d PROVE NamedBy(d) \in 0..3 /\ NamedBy(d) \in Nat
  BY DEF NamedBy

LEMMA NamedIs == ASSUME call.fmt \in Seq(Directives)
  PROVE /\ Named(1) = 0
        /\ \A i \in 1..Len(call.fmt) : Named(i + 1) = Named(i) + NamedBy(call.fmt[i])
        /\ \A i \in 1..(Len(call.fmt) + 1) : Named(i) \in Nat
        /\ \A i \in 1..(Len(call.fmt) + 1) : Named(i) <= Named(Len(call.fmt) + 1)
<1>1. PICK n : n = Len(call.fmt)
  OBVIOUS
<1>2. n \in Nat
  BY <1>1
<1> DEFINE Is(f) == f = [k \in 0..Len(call.fmt) |->
                          IF k = 0 THEN 0 ELSE f[k - 1] + NamedBy(call.fmt[k])]
           step == [k \in Nat |-> [v \in Nat |-> v + NamedBy(call.fmt[k])]]
<1>3. step \in [Nat -> [Nat -> Nat]]
  BY NamedByIs
<1>4. PICK g \in [0..n -> Nat] : Recursion(g, 0, step, n)
  <2>1. 0 \in Nat /\ n \in Nat
    BY <1>2
  <2> HIDE DEF step
  <2>2. step \in [Nat -> [Nat -> Nat]]
    BY <1>3
  <2> QED BY <2>1, <2>2, RecursionExists, Zenon
<1>5. \A k \in 1..n : g[k] = g[k - 1] + NamedBy(call.fmt[k])
  <2> TAKE k \in 1..n
  <2>1. g[k] = step[k][g[k - 1]]
    BY <1>4, Zenon DEF Recursion
  <2>2. k \in Nat /\ k - 1 \in 0..n
    BY <1>2
  <2>3. g[k - 1] \in Nat
    BY <2>2
  <2> QED BY <2>1, <2>2, <2>3
<1>6. Is(g)
  BY <1>1, <1>4, <1>5 DEF Recursion
<1>7. PICK f : f = CHOOSE h : Is(h)
  OBVIOUS
<1>8. Is(f)
  BY <1>6, <1>7, Zenon
<1>9. ASSUME NEW i PROVE Named(i) = f[i - 1]
  BY <1>7, Zenon DEF Named
<1>10. f[0] = 0 /\ \A k \in 1..n : f[k] = f[k - 1] + NamedBy(call.fmt[k])
  <2>1. f = [k \in 0..n |-> IF k = 0 THEN 0 ELSE f[k - 1] + NamedBy(call.fmt[k])]
    BY <1>1, <1>8, Zenon
  <2>2. 0 \in 0..n
    BY <1>2
  <2>3. f[0] = 0
    BY <2>1, <2>2
  <2>4. ASSUME NEW k \in 1..n PROVE f[k] = f[k - 1] + NamedBy(call.fmt[k])
    <3>1. k \in 0..n /\ k # 0
      BY <1>2
    <3> QED BY <2>1, <3>1, Zenon
  <2> QED BY <2>3, <2>4
<1>11. Named(1) = 0
  <2>1. 1 - 1 = 0
    OBVIOUS
  <2> QED BY <1>9, <1>10, <2>1, Zenon
<1>12. ASSUME NEW i \in 1..n PROVE Named(i + 1) = Named(i) + NamedBy(call.fmt[i])
  <2>1. (i + 1) - 1 = i
    OBVIOUS
  <2> QED BY <1>9, <1>10, <2>1, Zenon
<1>13. \A i \in 1..(n + 1) : Named(i) \in Nat
  <2> DEFINE S == {k \in Nat : k <= n => Named(k + 1) \in Nat}
  <2>1. 0 \in S
    BY <1>11
  <2>2. ASSUME NEW k \in Nat, k \in S PROVE k + 1 \in S
    <3> SUFFICES ASSUME k + 1 <= n PROVE Named((k + 1) + 1) \in Nat
      OBVIOUS
    <3>1. k + 1 \in 1..n /\ Named(k + 1) \in Nat
      BY <1>2, <2>2
    <3>2. Named((k + 1) + 1) = Named(k + 1) + NamedBy(call.fmt[k + 1])
      BY <1>12, <3>1
    <3> QED BY <3>1, <3>2, NamedByIs
  <2>3. Nat \subseteq S
    <3> HIDE DEF S
    <3> QED BY <2>1, <2>2, Induction, Zenon
  <2>4. ASSUME NEW i \in 1..(n + 1) PROVE Named(i) \in Nat
    <3>1. PICK k : k = i - 1
      OBVIOUS
    <3>2. k \in Nat /\ k <= n /\ k + 1 = i
      BY <1>2, <3>1
    <3>3. Named(k + 1) \in Nat
      BY <2>3, <3>2
    <3> QED BY <3>2, <3>3, Zenon
  <2> QED BY <2>4
<1>14. \A i \in 1..(n + 1) : Named(i) <= Named(n + 1)
  <2> DEFINE S == {k \in Nat : k <= n => Named((n + 1) - k) <= Named(n + 1)}
  <2>1. 0 \in S
    <3>1. (n + 1) - 0 = n + 1 /\ Named(n + 1) \in Nat
      BY <1>2, <1>13
    <3> QED BY <3>1
  <2>2. ASSUME NEW k \in Nat, k \in S PROVE k + 1 \in S
    <3> SUFFICES ASSUME k + 1 <= n PROVE Named((n + 1) - (k + 1)) <= Named(n + 1)
      OBVIOUS
    <3>1. PICK i : i = (n + 1) - (k + 1)
      OBVIOUS
    <3>2. i \in 1..n /\ i + 1 = (n + 1) - k /\ i \in 1..(n + 1) /\ i + 1 \in 1..(n + 1) /\ n + 1 \in 1..(n + 1)
      BY <1>2, <3>1
    <3>3. Named(i + 1) <= Named(n + 1)
      <4>1. Named((n + 1) - k) <= Named(n + 1)
        BY <1>2, <2>2
      <4> QED BY <3>2, <4>1, Zenon
    <3>4. Named(i + 1) = Named(i) + NamedBy(call.fmt[i]) /\ NamedBy(call.fmt[i]) \in Nat
      BY <1>12, <3>2, NamedByIs
    <3>5. Named(i) \in Nat /\ Named(n + 1) \in Nat
      BY <1>13, <3>2
    <3>6. Named(i) <= Named(n + 1)
      BY <3>3, <3>4, <3>5
    <3> QED BY <3>1, <3>6, Zenon
  <2>3. Nat \subseteq S
    <3> HIDE DEF S
    <3> QED BY <2>1, <2>2, Induction, Zenon
  <2>4. ASSUME NEW i \in 1..(n + 1) PROVE Named(i) <= Named(n + 1)
    <3>1. PICK k : k = (n + 1) - i
      OBVIOUS
    <3>2. k \in Nat /\ k <= n /\ (n + 1) - k = i
      BY <1>2, <3>1
    <3>3. Named((n + 1) - k) <= Named(n + 1)
      BY <2>3, <3>2
    <3> QED BY <3>2, <3>3, Zenon
  <2> QED BY <2>4
<1> QED BY <1>1, <1>11, <1>12, <1>13, <1>14, Zenon

(* A well-formed call has them, one for each argument.                     *)
LEMMA WellFormedSlots == ASSUME WellFormed
  PROVE  AllSlots = Singles(call.arguments) /\ Len(AllSlots) = Len(call.arguments)
<1>1. call.arguments \in Seq([1..1 -> Slots])
  BY DEF WellFormed
<1>2. AllSlots = Singles(call.arguments)
  BY <1>1, Flattened DEF AllSlots
<1>3. PICK n, singles : n = Len(call.arguments) /\ singles = [k \in 1..n |-> call.arguments[k][1]]
  <2>1. \E n : n = Len(call.arguments)
    OBVIOUS
  <2> QED BY <2>1
<1>4. singles = Singles(call.arguments)
  BY <1>3, Zenon DEF Singles
<1>5. n \in Nat /\ Len(singles) = n
  BY <1>1, <1>3
<1> QED BY <1>2, <1>3, <1>4, <1>5, Zenon

LEMMA WellFormedEnough == ASSUME WellFormed PROVE Enough
<1>1. /\ call.fmt \in Seq(Directives) /\ call.arguments \in Seq([1..1 -> Slots])
      /\ Len(call.arguments) = Named(Len(call.fmt) + 1)
      /\ \A i \in 1..Len(call.fmt) :
           call.fmt[i].conv = "s" => call.arguments[Named(i + 1)][1] \in Strings
  BY Zenon DEF WellFormed
<1>2. PICK all, given, n : all = AllSlots /\ given = call.arguments /\ n = Len(call.arguments)
  OBVIOUS
<1>3. /\ given \in Seq([1..1 -> Slots]) /\ Len(given) = n /\ n \in Nat
      /\ all = [k \in 1..n |-> given[k][1]]
  <2>1. all = Singles(given)
    BY <1>2, WellFormedSlots, Zenon
  <2>2. all = [k \in 1..Len(given) |-> given[k][1]]
    BY <2>1, Zenon DEF Singles
  <2> QED BY <1>1, <1>2, <2>2
<1>4. all \in Seq(Slots) /\ Len(all) = n
  <2>1. \A k \in 1..n : given[k][1] \in Slots
    BY <1>3
  <2>2. all \in [1..n -> Slots]
    BY <1>3, <2>1
  <2> QED BY <1>3, <2>2
<1>5. Len(call.fmt) \in Nat /\ Named(Len(call.fmt) + 1) = n
  BY <1>1, <1>2
<1>6. ASSUME NEW i \in 1..Len(call.fmt), call.fmt[i].conv = "s"
      PROVE  all[Named(i + 1)] \in Strings
  <2>1. call.fmt \in Seq(Directives) /\ i + 1 \in 1..(Len(call.fmt) + 1) /\ i \in 1..(Len(call.fmt) + 1)
    BY <1>1, <1>5
  <2>2. PICK j, m, by : j = Named(i + 1) /\ m = Named(i) /\ by = NamedBy(call.fmt[i])
    OBVIOUS
  <2>3. j = m + by /\ m \in Nat /\ j \in Nat /\ j <= n
    BY <1>5, <2>1, <2>2, NamedIs, Zenon
  <2>4. by >= 1
    BY <1>6, <2>2 DEF NamedBy, Reading
  <2>5. by \in Nat
    BY <2>2, NamedByIs
  <2>6. j \in 1..n
    BY <2>3, <2>4, <2>5
  <2>7. given[j][1] \in Strings
    BY <1>1, <1>2, <1>6, <2>2, Zenon
  <2>8. all[j] = given[j][1]
    BY <1>3, <2>6
  <2> QED BY <2>2, <2>7, <2>8, Zenon
<1>7. Named(Len(call.fmt) + 1) <= Len(all)
  BY <1>3, <1>4, <1>5
<1> QED BY <1>1, <1>2, <1>4, <1>6, <1>7, Zenon DEF Enough

-----------------------------------------------------------------------------
(* The invariant: what is left of the slots is what is left to name.       *)

Rest(i) == [k \in 1..(Len(AllSlots) - Named(i)) |-> AllSlots[Named(i) + k]]

IInv ==
    /\ Enough
    /\ pos \in 1..(Len(call.fmt) + 1)
    /\ args = Rest(pos)
    /\ str \in Seq(Codes)
    /\ stored \in Seq(Nat) /\ \A i \in 1..Len(stored) : stored[i] <= Len(str)

(* Before each directive there is all that it reads.                       *)
LEMMA RestIs == ASSUME Enough, NEW i \in 1..(Len(call.fmt) + 1)
  PROVE /\ Rest(i) \in Seq(Slots) /\ Len(Rest(i)) = Len(AllSlots) - Named(i)
        /\ Named(i) \in Nat /\ Len(AllSlots) - Named(i) \in Nat
        /\ \A k \in 1..(Len(AllSlots) - Named(i)) : Rest(i)[k] = AllSlots[Named(i) + k]
<1>1. PICK all : all = AllSlots
  OBVIOUS
<1>2. /\ call.fmt \in Seq(Directives) /\ all \in Seq(Slots)
      /\ Named(Len(call.fmt) + 1) <= Len(all)
  BY <1>1, Zenon DEF Enough
<1>3. Named(i) \in Nat /\ Named(i) <= Len(all) /\ Len(all) \in Nat
  <2>1. Len(call.fmt) \in Nat
    BY <1>2
  <2>2. Len(call.fmt) + 1 \in 1..(Len(call.fmt) + 1)
    BY <2>1
  <2>3. call.fmt \in Seq(Directives)
    BY <1>2
  <2>4. Named(i) \in Nat /\ Named(i) <= Named(Len(call.fmt) + 1)
    BY <2>3, NamedIs, Zenon
  <2>5. Named(Len(call.fmt) + 1) \in Nat
    BY <2>2, <2>3, NamedIs, Zenon
  <2> QED BY <1>2, <2>4, <2>5
<1>4. PICK n, r : n = Len(all) - Named(i) /\ r = Rest(i)
  OBVIOUS
<1>5. n \in Nat
  BY <1>3, <1>4
<1>6. r = [k \in 1..n |-> all[Named(i) + k]]
  BY <1>1, <1>4, Zenon DEF Rest
<1>7. \A k \in 1..n : all[Named(i) + k] \in Slots
  <2> TAKE k \in 1..n
  <2>1. PICK j : j = Named(i) + k
    OBVIOUS
  <2>2. j \in 1..Len(all)
    BY <1>3, <1>4, <2>1
  <2>3. all[j] \in Slots
    BY <1>2, <2>2
  <2> QED BY <2>1, <2>3, Zenon
<1>8. r \in [1..n -> Slots] /\ \A k \in 1..n : r[k] = all[Named(i) + k]
  BY <1>6, <1>7
<1>9. r \in Seq(Slots) /\ Len(r) = n
  BY <1>5, <1>8
<1> QED BY <1>1, <1>3, <1>4, <1>5, <1>8, <1>9, Zenon

(* Reading a directive's arguments leaves those of the ones after it.      *)
LEMMA TakenIs == ASSUME Enough, NEW i \in 1..Len(call.fmt), args = Rest(i)
  PROVE /\ Taken(NamedBy(call.fmt[i])) = Rest(i + 1)
        /\ NamedBy(call.fmt[i]) <= Len(args)
        /\ args \in Seq(Slots)
        /\ NamedBy(call.fmt[i]) >= 1 =>
             args[NamedBy(call.fmt[i])] = AllSlots[Named(i + 1)]
<1>1. call.fmt \in Seq(Directives) /\ Len(call.fmt) \in Nat
  BY DEF Enough
<1>2. PICK n, m, d : n = Named(i) /\ m = Named(i + 1) /\ d = NamedBy(call.fmt[i])
  OBVIOUS
<1>3. m = n + d /\ d \in Nat
  <2>1. call.fmt \in Seq(Directives)
    BY <1>1
  <2> QED BY <1>2, <2>1, NamedIs, NamedByIs, Zenon
<1>4. i \in 1..(Len(call.fmt) + 1) /\ i + 1 \in 1..(Len(call.fmt) + 1)
  BY <1>1
<1>5. PICK all, total : all = AllSlots /\ total = Len(AllSlots)
  OBVIOUS
<1>6. /\ args \in Seq(Slots) /\ Len(args) = total - n
      /\ n \in Nat /\ total - n \in Nat
      /\ \A k \in 1..(total - n) : args[k] = all[n + k]
  BY <1>2, <1>4, <1>5, RestIs, Zenon
<1>7. PICK r : r = Rest(i + 1)
  OBVIOUS
<1>8. /\ r \in Seq(Slots) /\ Len(r) = total - m
      /\ m \in Nat /\ total - m \in Nat
      /\ \A k \in 1..(total - m) : r[k] = all[m + k]
  BY <1>2, <1>4, <1>5, <1>7, RestIs, Zenon
<1>9. total \in Nat
  <2>1. all \in Seq(Slots) /\ Len(all) = total
    BY <1>5, Zenon DEF Enough
  <2> QED BY <2>1
<1>10. d <= Len(args)
  BY <1>3, <1>6, <1>8, <1>9
<1>11. ASSUME d >= 1 PROVE args[d] = all[m]
  <2>1. d \in 1..(total - n)
    BY <1>3, <1>6, <1>10, <1>11
  <2>2. n + d = m
    BY <1>3
  <2> QED BY <1>6, <2>1, <2>2, Zenon
<1>12. SubSeq(args, d + 1, Len(args)) = r
  <2>1. PICK a, b, s : a = d + 1 /\ b = Len(args) /\ s = SubSeq(args, a, b)
    OBVIOUS
  <2>2. a \in 1..(Len(args) + 1) /\ b \in 0..Len(args) /\ a <= b + 1 /\ b - a + 1 = total - m
    BY <1>3, <1>6, <1>8, <1>9, <1>10, <2>1
  <2>3. args \in Seq(Slots)
    BY <1>6
  <2>4. /\ SubSeq(args, a, b) \in Seq(Slots) /\ Len(SubSeq(args, a, b)) = b - a + 1
        /\ \A k \in 1..(b - a + 1) : SubSeq(args, a, b)[k] = args[a + k - 1]
    BY <2>2, <2>3, Part
  <2>5. s \in Seq(Slots) /\ Len(s) = total - m /\ \A k \in 1..(total - m) : s[k] = args[a + k - 1]
    BY <2>1, <2>2, <2>4, Zenon
  <2>6. ASSUME NEW k \in 1..(total - m) PROVE s[k] = r[k]
    <3>1. PICK j : j = a + k - 1
      OBVIOUS
    <3>2. j \in 1..(total - n) /\ n + j = m + k
      BY <1>3, <1>6, <1>8, <1>9, <2>1, <3>1
    <3> QED BY <1>6, <1>8, <2>5, <3>1, <3>2, Zenon
  <2>7. s \in Seq(Slots)
    BY <2>5
  <2>8. r \in Seq(Slots)
    BY <1>8
  <2>9. Len(s) = Len(r) /\ \A k \in 1..Len(s) : s[k] = r[k]
    BY <1>8, <2>5, <2>6, Zenon
  <2>10. s = r
    BY <2>7, <2>8, <2>9, EqualSeq
  <2> QED BY <2>1, <2>10, Zenon
<1> QED BY <1>2, <1>5, <1>6, <1>7, <1>10, <1>11, <1>12, Zenon DEF Taken

(* The item to convert, and what it reads.                                 *)
LEMMA ItemReads == ASSUME Widths, IInv, pos <= Len(call.fmt)
  PROVE /\ Item \in Directives
        /\ Item.conv \in Reading => /\ Taken(Stars(Item) + 1) = Rest(pos + 1)
                                    /\ Slot \in Slots
                                    /\ Item.conv = "s" => Slot \in Strings
        /\ Item.conv \notin Reading => Taken(Stars(Item)) = Rest(pos + 1)
        /\ StarWidth(Item) \in Int
        /\ Width(Item) \in Int
        /\ Precision(Item) \in {None} \union Nat
        /\ Width(Item) = None <=> Item.width = None
        /\ args \in Seq(Slots)
<1>1. /\ Enough /\ pos \in 1..(Len(call.fmt) + 1) /\ args = Rest(pos)
      /\ call.fmt \in Seq(Directives) /\ Len(call.fmt) \in Nat
  BY DEF IInv, Enough
<1>2. pos \in 1..Len(call.fmt)
  BY <1>1
<1>3. Item \in Directives
  BY <1>1, <1>2 DEF Item
<1>4. PICK d : d = Item
  OBVIOUS
<1>5. /\ Taken(NamedBy(d)) = Rest(pos + 1)
      /\ NamedBy(d) <= Len(args)
      /\ args \in Seq(Slots)
      /\ NamedBy(d) >= 1 => args[NamedBy(d)] = AllSlots[Named(pos + 1)]
  BY <1>1, <1>2, <1>4, TakenIs, Zenon DEF Item
<1>6. Stars(d) \in 0..2 /\ NamedBy(d) = Stars(d) + (IF d.conv \in Reading THEN 1 ELSE 0)
  BY DEF Stars, NamedBy
<1>7. PICK stars : stars = Stars(d)
  OBVIOUS
<1>8. ASSUME d.conv \in Reading
      PROVE  /\ Taken(stars + 1) = Rest(pos + 1)
             /\ args[stars + 1] \in Slots
             /\ d.conv = "s" => args[stars + 1] \in Strings
  <2>1. NamedBy(d) = stars + 1
    BY <1>6, <1>7, <1>8
  <2>2. stars + 1 \in 1..Len(args) /\ stars + 1 >= 1
    BY <1>5, <1>6, <1>7, <2>1
  <2>3. args[stars + 1] \in Slots
    BY <1>5, <2>2
  <2>4. ASSUME d.conv = "s" PROVE args[stars + 1] \in Strings
    <3>1. AllSlots[Named(pos + 1)] \in Strings
      BY <1>1, <1>2, <1>4, <2>4, Zenon DEF Enough, Item
    <3> QED BY <1>5, <2>1, <2>2, <3>1, Zenon
  <2> QED BY <1>5, <2>1, <2>3, <2>4, Zenon
<1>9. ASSUME d.conv \notin Reading PROVE Taken(stars) = Rest(pos + 1)
  <2>1. NamedBy(d) = stars
    BY <1>6, <1>7, <1>9
  <2> QED BY <1>5, <2>1, Zenon
<1>10. ASSUME NEW n \in 1..Len(args) PROVE args[n] \in Int /\ Signed(args[n], IntBits) \in Int
  <2>1. args[n] \in Slots
    BY <1>5
  <2>2. args[n] \in Int
    BY <2>1 DEF Slots
  <2>3. PICK a, b : a = args[n] /\ b = Signed(args[n], IntBits)
    OBVIOUS
  <2>4. a \in Int /\ b = Signed(a, IntBits)
    BY <2>2, <2>3, Zenon
  <2>5. PICK h : h = 2 ^ (IntBits - 1)
    OBVIOUS
  <2>6. b \in (-h)..(h - 1)
    BY <2>4, <2>5, SignedIs
  <2>7. h \in Int
    BY <2>5 DEF Widths
  <2>8. b \in Int
    BY <2>6, <2>7
  <2> QED BY <2>2, <2>3, <2>8, Zenon
<1>11. ASSUME d.width = Star PROVE Signed(args[1], IntBits) \in Int
  <2>1. 1 \in 1..Len(args)
    BY <1>5, <1>6, <1>11 DEF Stars
  <2> QED BY <1>10, <2>1
<1>12. d.width \in {None, Star} \union Nat /\ d.precision \in {None, Star} \union Nat
  BY <1>3, <1>4 DEF Directives
<1>13. StarWidth(d) \in Int /\ (d.width # Star => StarWidth(d) = d.width)
  BY <1>11, <1>12 DEF StarWidth, None, Star
<1>14. Width(d) \in Int /\ (Width(d) = None <=> d.width = None)
  <2>1. CASE d.width = Star
    <3>1. PICK h, m, w : h = 2 ^ (IntBits - 1) /\ m = 2 ^ IntBits /\ w = StarWidth(d)
      OBVIOUS
    <3>2. h \in Nat \ {0, 1} /\ m = 2 * h
      BY <3>1 DEF Widths
    <3>3. 1 \in 1..Len(args)
      BY <1>5, <1>6, <2>1 DEF Stars
    <3>4. w \in (-h)..(h - 1)
      <4>1. PICK a : a = args[1]
        OBVIOUS
      <4>2. a \in Int /\ w = Signed(a, IntBits)
        BY <1>10, <2>1, <3>1, <3>3, <4>1, Zenon DEF StarWidth
      <4> QED BY <3>1, <4>2, SignedIs
    <3>5. ASSUME w < 0 PROVE Width(d) \in Int /\ Width(d) # -1
      <4>1. PICK n : n = -w
        BY <3>4
      <4>2. n \in 1..h /\ n % m = n
        BY <3>2, <3>4, <3>5, <4>1
      <4>3. Width(d) = IF n % m < h THEN n % m ELSE (n % m) - m
        <5>1. Width(d) = Signed(n, IntBits)
          BY <2>1, <3>1, <3>5, <4>1, Zenon DEF Width
        <5> QED BY <3>1, <5>1, Zenon DEF Signed, Unsigned
      <4> QED BY <3>2, <4>2, <4>3
    <3>6. ASSUME ~(w < 0) PROVE Width(d) \in Int /\ Width(d) # -1
      <4>1. Width(d) = w
        BY <3>1, <3>6, Zenon DEF Width
      <4> QED BY <3>2, <3>4, <3>6, <4>1
    <3> QED BY <2>1, <3>5, <3>6 DEF None, Star
  <2>2. CASE d.width # Star
    <3>1. Width(d) = d.width
      BY <1>13, <2>2 DEF Width
    <3> QED BY <1>12, <2>2, <3>1 DEF None, Star
  <2> QED BY <2>1, <2>2
<1>15. Precision(d) \in {None} \union Nat
  <2>1. CASE d.precision = Star
    <3>1. stars \in 1..Len(args)
      BY <1>5, <1>6, <1>7, <2>1 DEF Stars
    <3>2. Signed(args[stars], IntBits) \in Int
      BY <1>10, <3>1
    <3>3. Precision(d) = IF Signed(args[stars], IntBits) < 0 THEN 0 ELSE Signed(args[stars], IntBits)
      BY <1>7, <2>1, Zenon DEF Precision
    <3> QED BY <3>2, <3>3
  <2>2. CASE d.precision # Star
    BY <1>12, <2>2 DEF Precision
  <2> QED BY <2>1, <2>2
<1> QED BY <1>3, <1>4, <1>5, <1>7, <1>8, <1>9, <1>13, <1>14, <1>15, Zenon DEF Slot

-----------------------------------------------------------------------------
(* What is put out is a row of characters.                                 *)

LEMMA FieldBytes ==
  ASSUME NEW out, NEW g, NEW x, NEW D \in Seq(Int), NEW l \in Nat, NEW z \in Nat, NEW r \in Nat,
         SignText(g), PrefixText(x), Laid(out, l, g, x, z, D, r),
         \A i \in 1..Len(D) : D[i] \in Figures
  PROVE  out \in Seq(Codes)
<1>1. PICK lg, lx, ld : lg = Len(g) /\ lx = Len(x) /\ ld = Len(D)
  OBVIOUS
<1>2. lg \in Nat /\ \A i \in 1..lg : g[i] \in Codes
  <2>1. g = <<>> \/ g = <<45>> \/ g = <<43>> \/ g = <<32>>
    BY Zenon DEF SignText, Minus, Plus, Space
  <2>2. CASE g = <<>>
    BY <1>1, <2>2
  <2>3. CASE g = <<45>>
    BY <1>1, <2>3 DEF Codes
  <2>4. CASE g = <<43>>
    BY <1>1, <2>4 DEF Codes
  <2>5. CASE g = <<32>>
    BY <1>1, <2>5 DEF Codes
  <2> QED BY <2>1, <2>2, <2>3, <2>4, <2>5
<1>3. lx \in Nat /\ \A i \in 1..lx : x[i] \in Codes
  <2>1. x = <<>> \/ x = <<48>> \/ x = <<48, 88>> \/ x = <<48, 120>>
    BY Zenon DEF PrefixText, Zero
  <2>2. CASE x = <<>>
    BY <1>1, <2>2
  <2>3. CASE x = <<48>>
    BY <1>1, <2>3 DEF Codes
  <2>4. CASE x = <<48, 88>>
    <3>1. lx = 2 /\ x[1] = 48 /\ x[2] = 88
      BY <1>1, <2>4
    <3>2. \A i \in 1..2 : i = 1 \/ i = 2
      OBVIOUS
    <3>3. 48 \in Codes /\ 88 \in Codes /\ 2 \in Nat
      BY DEF Codes
    <3> QED BY <3>1, <3>2, <3>3, Zenon
  <2>5. CASE x = <<48, 120>>
    <3>1. lx = 2 /\ x[1] = 48 /\ x[2] = 120
      BY <1>1, <2>5
    <3>2. \A i \in 1..2 : i = 1 \/ i = 2
      OBVIOUS
    <3>3. 48 \in Codes /\ 120 \in Codes /\ 2 \in Nat
      BY DEF Codes
    <3> QED BY <3>1, <3>2, <3>3, Zenon
  <2> QED BY <2>1, <2>2, <2>3, <2>4, <2>5
<1>4. ld \in Nat /\ \A i \in 1..ld : D[i] \in Codes
  <2>1. Figures \subseteq Codes
    BY DEF Figures, Codes
  <2>2. ld \in Nat
    BY <1>1
  <2> QED BY <1>1, <2>1, <2>2, Zenon
<1>5. /\ out \in Seq(Int) /\ Len(out) = l + lg + lx + z + ld + r
      /\ \A i \in 1..l : out[i] = Space
      /\ \A i \in 1..lg : out[l + i] = g[i]
      /\ \A i \in 1..lx : out[l + lg + i] = x[i]
      /\ \A i \in 1..z : out[l + lg + lx + i] = Zero
      /\ \A i \in 1..ld : out[l + lg + lx + z + i] = D[i]
      /\ \A i \in 1..r : out[l + lg + lx + z + ld + i] = Space
  BY <1>1, Zenon DEF Laid
<1>6. Space \in Codes /\ Zero \in Codes
  BY DEF Space, Zero, Codes
<1>7. ASSUME NEW i \in 1..Len(out) PROVE out[i] \in Codes
  <2>1. i \in 1..(l + lg + lx + z + ld + r)
    BY <1>5, Zenon
  <2>2. CASE i <= l
    <3>1. i \in 1..l
      BY <2>1, <2>2
    <3> QED BY <1>5, <1>6, <3>1, Zenon
  <2>3. CASE i > l /\ i <= l + lg
    <3>1. PICK j : j = i - l
      OBVIOUS
    <3>2. j \in 1..lg /\ i = l + j
      BY <1>2, <2>1, <2>3, <3>1
    <3> QED BY <1>2, <1>5, <3>2, Zenon
  <2>4. CASE i > l + lg /\ i <= l + lg + lx
    <3>1. PICK j : j = i - (l + lg)
      OBVIOUS
    <3>2. j \in 1..lx /\ i = l + lg + j
      BY <1>2, <1>3, <2>1, <2>4, <3>1
    <3> QED BY <1>3, <1>5, <3>2, Zenon
  <2>5. CASE i > l + lg + lx /\ i <= l + lg + lx + z
    <3>1. PICK j : j = i - (l + lg + lx)
      OBVIOUS
    <3>2. j \in 1..z /\ i = l + lg + lx + j
      BY <1>2, <1>3, <2>1, <2>5, <3>1
    <3> QED BY <1>5, <1>6, <3>2, Zenon
  <2>6. CASE i > l + lg + lx + z /\ i <= l + lg + lx + z + ld
    <3>1. PICK j : j = i - (l + lg + lx + z)
      OBVIOUS
    <3>2. j \in 1..ld /\ i = l + lg + lx + z + j
      BY <1>2, <1>3, <1>4, <2>1, <2>6, <3>1
    <3> QED BY <1>4, <1>5, <3>2, Zenon
  <2>7. CASE i > l + lg + lx + z + ld
    <3>1. PICK j : j = i - (l + lg + lx + z + ld)
      OBVIOUS
    <3>2. j \in 1..r /\ i = l + lg + lx + z + ld + j
      BY <1>2, <1>3, <1>4, <2>1, <2>7, <3>1
    <3> QED BY <1>5, <1>6, <3>2, Zenon
  <2> QED BY <1>2, <1>3, <1>4, <2>1, <2>2, <2>3, <2>4, <2>5, <2>6, <2>7
<1>8. out \in Seq(Int)
  BY <1>5
<1> QED BY <1>7, <1>8

LEMMA NumberBytes ==
  ASSUME NEW d, NEW num, NEW base, NEW flags, NEW v, Asked(d, num, base, flags, v),
         NEW size \in Int, NEW precision \in Int, NEW out,
         out = Number(num, base, size, precision, flags)
  PROVE  out \in Seq(Codes)
<1>1. num \in Int /\ v \in Int /\ base \in Bases /\ Magnitude(num, flags) = Absolute(v)
  BY Zenon DEF Asked
<1>2. PICK w : w = Absolute(v)
  OBVIOUS
<1>3. w \in Nat
  BY <1>1, <1>2 DEF Absolute
<1>4. PICK g, x, D : /\ g = Sign(num, flags) /\ x = Prefix(base, flags)
                     /\ D = Digits(w, base, "SMALL" \in flags)
  OBVIOUS
<1>5. D \in Seq(Int) /\ \A i \in 1..Len(D) : D[i] \in Figures
  <2>1. ("SMALL" \in flags) \in BOOLEAN
    OBVIOUS
  <2> QED BY <1>1, <1>3, <1>4, <2>1, DigitsReadable, Zenon DEF Readable
<1>6. PICK l, z, r : Padding(out, size, precision, flags, g, x, D, l, z, r)
  BY <1>1, <1>2, <1>3, <1>4, NumberPadded, Zenon
<1>7. l \in Nat /\ z \in Nat /\ r \in Nat /\ Laid(out, l, g, x, z, D, r)
  BY <1>6, Zenon DEF Padding
<1>8. SignText(g) /\ PrefixText(x)
  BY <1>1, <1>4, Shapes, Zenon
<1> QED BY <1>5, <1>7, <1>8, FieldBytes, Zenon

(* A text in its columns.                                                  *)
LEMMA StartsWith == ASSUME NEW S, NEW s \in Seq(S), NEW t \in Seq(S), NEW out, out = s \o t
  PROVE IsPrefix(s, out)
<1>1. /\ out \in Seq(S) /\ Len(out) = Len(s) + Len(t)
      /\ \A i \in 1..Len(s) : out[i] = s[i]
  BY Cat
<1>2. Len(s) \in Nat /\ Len(t) \in Nat
  OBVIOUS
<1>3. Len(s) <= Len(out)
  BY <1>1, <1>2
<1>4. SubSeq(s, 1, Len(s)) = s
  <2>1. PICK n : n = Len(s)
    OBVIOUS
  <2>2. 1 \in 1..(Len(s) + 1) /\ n \in 0..Len(s) /\ 1 <= n + 1 /\ n - 1 + 1 = n
    BY <1>2, <2>1
  <2>3. /\ SubSeq(s, 1, n) \in Seq(S) /\ Len(SubSeq(s, 1, n)) = n
        /\ \A i \in 1..n : SubSeq(s, 1, n)[i] = s[1 + i - 1]
    BY <2>2, Part
  <2>4. ASSUME NEW i \in 1..n PROVE SubSeq(s, 1, n)[i] = s[i]
    BY <2>3
  <2> QED BY <2>1, <2>3, <2>4, EqualSeq
<1>5. SubSeq(out, 1, Len(s)) = s
  <2>1. PICK n : n = Len(s)
    OBVIOUS
  <2>2. 1 \in 1..(Len(out) + 1) /\ n \in 0..Len(out) /\ 1 <= n + 1 /\ n - 1 + 1 = n /\ n \in Nat
    BY <1>1, <1>2, <2>1
  <2>3. out \in Seq(S)
    BY <1>1
  <2>4. /\ SubSeq(out, 1, n) \in Seq(S) /\ Len(SubSeq(out, 1, n)) = n
        /\ \A i \in 1..n : SubSeq(out, 1, n)[i] = out[1 + i - 1]
    BY <2>2, <2>3, Part
  <2>5. ASSUME NEW i \in 1..n PROVE SubSeq(out, 1, n)[i] = s[i]
    <3>1. 1 + i - 1 = i
      OBVIOUS
    <3>2. SubSeq(out, 1, n)[i] = out[i]
      BY <2>4, <3>1, Zenon
    <3> QED BY <1>1, <2>1, <3>2, Zenon
  <2> QED BY <2>1, <2>4, <2>5, EqualSeq
<1> QED BY <1>3, <1>4, <1>5, Zenon DEF IsPrefix

LEMMA Reversed == ASSUME NEW S, NEW s \in Seq(S)
  PROVE /\ Reverse(s) \in Seq(S) /\ Len(Reverse(s)) = Len(s)
        /\ \A i \in 1..Len(s) : Reverse(s)[i] = s[Len(s) - i + 1]
<1>1. PICK n : n = Len(s)
  OBVIOUS
<1>2. n \in Nat /\ \A i \in 1..n : s[i] \in S
  BY <1>1
<1>3. PICK t : t = [i \in 1..n |-> s[n - i + 1]]
  OBVIOUS
<1>4. ASSUME NEW i \in 1..n PROVE t[i] = s[n - i + 1] /\ t[i] \in S
  <2>1. n - i + 1 \in 1..n
    BY <1>2
  <2> QED BY <1>2, <1>3, <2>1
<1>5. t \in Seq(S) /\ Len(t) = n
  <2>1. t \in [1..n -> S]
    BY <1>3, <1>4
  <2> QED BY <1>2, <2>1
<1>6. Reverse(s) = t
  BY <1>1, <1>3, Zenon DEF Reverse
<1> QED BY <1>1, <1>4, <1>5, <1>6, Zenon

LEMMA EndsWith == ASSUME NEW S, NEW s \in Seq(S), NEW t \in Seq(S), NEW out, out = t \o s
  PROVE IsSuffix(s, out)
<1>1. /\ out \in Seq(S) /\ Len(out) = Len(t) + Len(s)
      /\ \A i \in 1..Len(t) : out[i] = t[i]
      /\ \A i \in 1..Len(s) : out[Len(t) + i] = s[i]
  BY Cat
<1>2. out \in Seq(S)
  BY <1>1
<1>3. PICK m, n : m = Len(t) /\ n = Len(s)
  OBVIOUS
<1>4. m \in Nat /\ n \in Nat /\ Len(out) = m + n
  BY <1>1, <1>3
<1>5. PICK a, b, c : a = Reverse(s) /\ b = Reverse(t) /\ c = Reverse(out)
  OBVIOUS
<1>6. /\ a \in Seq(S) /\ Len(a) = n /\ \A i \in 1..n : a[i] = s[n - i + 1]
      /\ b \in Seq(S) /\ Len(b) = m /\ \A i \in 1..m : b[i] = t[m - i + 1]
      /\ c \in Seq(S) /\ Len(c) = m + n /\ \A i \in 1..(m + n) : c[i] = out[(m + n) - i + 1]
  <2>1. a \in Seq(S) /\ Len(a) = n /\ \A i \in 1..n : a[i] = s[n - i + 1]
    BY <1>3, <1>5, Reversed
  <2>2. b \in Seq(S) /\ Len(b) = m /\ \A i \in 1..m : b[i] = t[m - i + 1]
    BY <1>3, <1>5, Reversed
  <2>3. c \in Seq(S) /\ Len(c) = m + n /\ \A i \in 1..(m + n) : c[i] = out[(m + n) - i + 1]
    <3>1. /\ Reverse(out) \in Seq(S) /\ Len(Reverse(out)) = Len(out)
          /\ \A i \in 1..Len(out) : Reverse(out)[i] = out[Len(out) - i + 1]
      BY <1>2, Reversed
    <3> QED BY <1>4, <1>5, <3>1, Zenon
  <2> QED BY <2>1, <2>2, <2>3, Zenon
<1>7. a \in Seq(S) /\ b \in Seq(S) /\ c \in Seq(S)
  BY <1>6
<1>8. PICK ab : ab = a \o b
  OBVIOUS
<1>9. /\ ab \in Seq(S) /\ Len(ab) = n + m
      /\ \A i \in 1..n : ab[i] = a[i]
      /\ \A i \in 1..m : ab[n + i] = b[i]
  <2>1. /\ a \o b \in Seq(S) /\ Len(a \o b) = Len(a) + Len(b)
        /\ \A i \in 1..Len(a) : (a \o b)[i] = a[i]
        /\ \A i \in 1..Len(b) : (a \o b)[Len(a) + i] = b[i]
    BY <1>7, Cat
  <2> QED BY <1>6, <1>8, <2>1, Zenon
<1>10. ASSUME NEW i \in 1..(n + m) PROVE c[i] = ab[i]
  <2>1. i \in 1..(m + n)
    BY <1>4
  <2>2. c[i] = out[(m + n) - i + 1]
    BY <1>6, <2>1, Zenon
  <2>3. CASE i <= n
    <3>1. PICK j : j = n - i + 1
      OBVIOUS
    <3>2. i \in 1..n /\ j \in 1..n /\ (m + n) - i + 1 = m + j
      BY <1>4, <2>3, <3>1
    <3>3. out[m + j] = s[j] /\ ab[i] = a[i] /\ a[i] = s[j]
      BY <1>1, <1>3, <1>6, <1>9, <3>1, <3>2, Zenon
    <3> QED BY <2>2, <3>2, <3>3, Zenon
  <2>4. CASE ~(i <= n)
    <3>1. PICK k, j : k = i - n /\ j = m - k + 1
      <4>1. \E k : k = i - n
        OBVIOUS
      <4> QED BY <4>1
    <3>2. k \in 1..m /\ i = n + k /\ j \in 1..m /\ (m + n) - i + 1 = j
      BY <1>4, <2>4, <3>1
    <3>3. out[j] = t[j] /\ ab[n + k] = b[k] /\ b[k] = t[j]
      BY <1>1, <1>3, <1>6, <1>9, <3>1, <3>2, Zenon
    <3> QED BY <2>2, <3>2, <3>3, Zenon
  <2> QED BY <2>3, <2>4
<1>11. c = ab
  <2>1. ab \in Seq(S) /\ Len(c) = Len(ab) /\ Len(c) = n + m
    BY <1>4, <1>6, <1>9
  <2>2. \A i \in 1..Len(c) : c[i] = ab[i]
    BY <1>10, <2>1, Zenon
  <2> QED BY <1>7, <2>1, <2>2, EqualSeq
<1>12. IsPrefix(a, c)
  BY <1>7, <1>8, <1>11, StartsWith
<1> QED BY <1>5, <1>12, Zenon DEF IsSuffix

LEMMA AlignedIs ==
  ASSUME NEW d \in Directives, Width(d) \in Int, NEW s \in Seq(Codes), NEW out, out = Aligned(s, d)
  PROVE  /\ out \in Seq(Codes) /\ Len(out) = Larger(Width(d), Len(s))
         /\ IF ToTheLeft(d) THEN IsPrefix(s, out) ELSE IsSuffix(s, out)
<1>1. PICK n, w : n = Len(s) /\ w = Width(d)
  OBVIOUS
<1>2. n \in Nat /\ w \in Int
  BY <1>1
<1>3. PICK blanks, m : blanks = Repeat(Space, w - n) /\ m = IF w - n > 0 THEN w - n ELSE 0
  OBVIOUS
<1>4. blanks \in Seq(Codes) /\ Len(blanks) = m /\ m \in Nat
  <2>1. Space \in Codes /\ w - n \in Int
    BY <1>2 DEF Space, Codes
  <2> QED BY <1>3, <2>1, Repeated
<1>5. n + m = Larger(w, n) /\ m + n = Larger(w, n)
  BY <1>2, <1>3 DEF Larger
<1>6. blanks \in Seq(Codes)
  BY <1>4
<1>7. CASE ToTheLeft(d)
  <2>1. "LEFT" \in FlagsOf(d)
    BY <1>7, FlagsKept
  <2>2. out = s \o blanks
    BY <1>1, <1>3, <2>1, Zenon DEF Aligned
  <2>3. out \in Seq(Codes) /\ Len(out) = n + m
    BY <1>1, <1>4, <1>6, <2>2, Cat
  <2>4. IsPrefix(s, out)
    BY <1>6, <2>2, StartsWith
  <2> QED BY <1>1, <1>5, <1>7, <2>3, <2>4, Zenon
<1>8. CASE ~ToTheLeft(d)
  <2>1. "LEFT" \notin FlagsOf(d)
    BY <1>8, FlagsKept
  <2>2. out = blanks \o s
    BY <1>1, <1>3, <2>1, Zenon DEF Aligned
  <2>3. out \in Seq(Codes) /\ Len(out) = m + n
    BY <1>1, <1>4, <1>6, <2>2, Cat
  <2>4. IsSuffix(s, out)
    BY <1>6, <2>2, EndsWith
  <2> QED BY <1>1, <1>5, <1>8, <2>3, <2>4, Zenon
<1> QED BY <1>7, <1>8

(* What a step adds is what it puts.                                       *)
LEMMA AddedIs == ASSUME NEW S, NEW s \in Seq(S), str \in Seq(S), str' = str \o s
  PROVE  /\ Added = s /\ str' \in Seq(S) /\ Len(str') = Len(str) + Len(s)
         /\ Len(str) \in Nat /\ Len(s) \in Nat
<1>1. PICK n, k, both : n = Len(str) /\ k = Len(s) /\ both = str'
  OBVIOUS
<1>2. /\ both \in Seq(S) /\ Len(both) = n + k
      /\ \A i \in 1..k : both[n + i] = s[i]
  <2>1. /\ str \o s \in Seq(S) /\ Len(str \o s) = Len(str) + Len(s)
        /\ \A i \in 1..Len(s) : (str \o s)[Len(str) + i] = s[i]
    BY Cat
  <2> QED BY <1>1, <2>1, Zenon
<1>3. n \in Nat /\ k \in Nat
  BY <1>1
<1>4. PICK part, a, b : a = n + 1 /\ b = n + k /\ part = SubSeq(both, a, b)
  <2>1. \E a, b : a = n + 1 /\ b = n + k
    OBVIOUS
  <2> QED BY <2>1
<1>5. a \in 1..(Len(both) + 1) /\ b \in 0..Len(both) /\ a <= b + 1 /\ b - a + 1 = k
  BY <1>2, <1>3, <1>4
<1>6. /\ part \in Seq(S) /\ Len(part) = k
      /\ \A i \in 1..k : part[i] = both[a + i - 1]
  <2>1. both \in Seq(S)
    BY <1>2
  <2>2. /\ SubSeq(both, a, b) \in Seq(S) /\ Len(SubSeq(both, a, b)) = b - a + 1
        /\ \A i \in 1..(b - a + 1) : SubSeq(both, a, b)[i] = both[a + i - 1]
    BY <1>5, <2>1, Part
  <2> QED BY <1>4, <1>5, <2>2, Zenon
<1>7. ASSUME NEW i \in 1..k PROVE part[i] = s[i]
  <2>1. a + i - 1 = n + i
    BY <1>3, <1>4
  <2> QED BY <1>2, <1>6, <2>1, Zenon
<1>8. part = s
  BY <1>1, <1>6, <1>7, EqualSeq
<1>9. Added = part
  BY <1>1, <1>2, <1>4, Zenon DEF Added
<1> QED BY <1>1, <1>2, <1>3, <1>8, <1>9, Zenon

-----------------------------------------------------------------------------
(* The invariant holds when the call is made.                              *)
LEMMA InitInvariant == ASSUME Enough, Init PROVE IInv
<1>1. PICK all : all = AllSlots
  OBVIOUS
<1>2. /\ call.fmt \in Seq(Directives) /\ all \in Seq(Slots)
      /\ pos = 1 /\ args = all /\ str = <<>> /\ stored = <<>>
  BY <1>1, Zenon DEF Enough, Init, AllSlots
<1>3. Len(call.fmt) \in Nat /\ pos \in 1..(Len(call.fmt) + 1)
  BY <1>2
<1>4. args = Rest(pos)
  <2>1. Named(pos) = 0
    <3>1. call.fmt \in Seq(Directives)
      BY <1>2
    <3> QED BY <1>2, <3>1, NamedIs, Zenon
  <2>2. Rest(pos) = [k \in 1..(Len(all) - 0) |-> all[0 + k]]
    BY <1>1, <2>1, Zenon DEF Rest
  <2>3. PICK rest : rest = [k \in 1..(Len(all) - 0) |-> all[0 + k]]
    OBVIOUS
  <2>4. Len(all) \in Nat /\ rest = [k \in 1..Len(all) |-> all[k]]
    BY <1>2, <2>3
  <2>5. rest = all
    BY <1>2, <2>4
  <2> QED BY <1>2, <2>2, <2>3, <2>5, Zenon
<1>5. str \in Seq(Codes) /\ stored \in Seq(Nat) /\ \A i \in 1..Len(stored) : stored[i] <= Len(str)
  BY <1>2
<1> QED BY <1>3, <1>4, <1>5, Zenon DEF IInv

(* A step that leaves what is left to name keeps it.                       *)
Moved(s) ==
    /\ pos <= Len(call.fmt) /\ pos' = pos + 1 /\ call' = call /\ args' = Rest(pos + 1)
    /\ str' = str \o s

LEMMA MovedKeeps ==
  ASSUME IInv, NEW s \in Seq(Codes), Moved(s),
         stored' = stored \/ stored' = Append(stored, Len(str))
  PROVE  IInv'
<1>1. /\ Enough /\ pos \in 1..(Len(call.fmt) + 1) /\ str \in Seq(Codes)
      /\ stored \in Seq(Nat) /\ \A i \in 1..Len(stored) : stored[i] <= Len(str)
  BY DEF IInv
<1>2. pos <= Len(call.fmt) /\ pos' = pos + 1 /\ call' = call /\ args' = Rest(pos + 1) /\ str' = str \o s
  BY DEF Moved
<1>3. ASSUME NEW i PROVE Named(i)' = Named(i)
  BY <1>2, Zenon DEF Named
<1>4. AllSlots' = AllSlots /\ Enough'
  <2>1. AllSlots' = AllSlots
    BY <1>2, Zenon DEF AllSlots
  <2> QED BY <1>1, <1>2, <1>3, <2>1, Zenon DEF Enough
<1>5. Len(call.fmt) \in Nat
  BY <1>1 DEF Enough
<1>6. pos' \in 1..(Len(call'.fmt) + 1)
  BY <1>1, <1>2, <1>5
<1>7. args' = Rest(pos)'
  <2>1. PICK n : n = pos + 1
    OBVIOUS
  <2>2. Named(pos)' = Named(n)
    BY <1>2, <2>1, Zenon DEF Named
  <2>3. args' = [k \in 1..(Len(AllSlots) - Named(n)) |-> AllSlots[Named(n) + k]]
    BY <1>2, <2>1, Zenon DEF Rest
  <2>4. Rest(pos)' = [k \in 1..(Len(AllSlots') - Named(pos)') |-> AllSlots'[Named(pos)' + k]]
    BY Zenon DEF Rest
  <2> QED BY <1>4, <2>2, <2>3, <2>4, Zenon
<1>8. str' \in Seq(Codes) /\ Len(str') = Len(str) + Len(s) /\ Len(str) \in Nat /\ Len(s) \in Nat
  <2>1. str \in Seq(Codes)
    BY <1>1
  <2> QED BY <1>2, <2>1, AddedIs, Zenon
<1>9. stored' \in Seq(Nat) /\ \A i \in 1..Len(stored') : stored'[i] <= Len(str')
  <2>1. PICK n, m : n = Len(str) /\ m = Len(str')
    OBVIOUS
  <2>2. n \in Nat /\ m \in Nat /\ n <= m
    BY <1>8, <2>1
  <2>3. stored \in Seq(Nat) /\ \A i \in 1..Len(stored) : stored[i] <= n
    BY <1>1, <2>1, Zenon
  <2>4. CASE stored' = stored
    <3>1. \A i \in 1..Len(stored) : stored[i] <= m
      BY <2>2, <2>3
    <3> QED BY <2>1, <2>3, <2>4, <3>1, Zenon
  <2>5. CASE stored' = Append(stored, Len(str))
    <3>1. PICK new : new = Append(stored, n)
      OBVIOUS
    <3>2. new \in Seq(Nat) /\ \A i \in 1..Len(new) : new[i] <= m
      BY <2>2, <2>3, <3>1
    <3> QED BY <2>1, <2>5, <3>1, <3>2, Zenon
  <2> QED BY <2>4, <2>5
<1> QED BY <1>4, <1>6, <1>7, <1>8, <1>9, Zenon DEF IInv

(* What is not left to name is not in the va_list: when each argument has  *)
(* one slot and none is left over.                                         *)
LEMMA InvariantInStep == ASSUME IInv, WellFormed PROVE ArgumentsInStep
<1>1. /\ Enough /\ pos \in 1..(Len(call.fmt) + 1) /\ args = Rest(pos)
      /\ call.arguments \in Seq([1..1 -> Slots])
  BY DEF IInv, WellFormed
<1>2. PICK all, n, named : all = call.arguments /\ n = Len(call.arguments) /\ named = Named(pos)
  OBVIOUS
<1>3. /\ AllSlots = Singles(all) /\ Len(AllSlots) = n
      /\ named \in Nat /\ n - named \in Nat
  <2>1. AllSlots = Singles(all) /\ Len(AllSlots) = n
    BY <1>2, WellFormedSlots, Zenon
  <2> QED BY <1>1, <1>2, <2>1, RestIs, Zenon
<1>4. all \in Seq([1..1 -> Slots]) /\ Len(all) = n /\ n \in Nat
  BY <1>1, <1>2
<1>5. PICK part, m : m = named + 1 /\ part = SubSeq(all, m, n)
  <2>1. \E m : m = named + 1
    OBVIOUS
  <2> QED BY <2>1
<1>6. m \in 1..(Len(all) + 1) /\ n \in 0..Len(all) /\ m <= n + 1 /\ n - m + 1 = n - named
  BY <1>3, <1>4, <1>5
<1>7. /\ part \in Seq([1..1 -> Slots]) /\ Len(part) = n - named
      /\ \A k \in 1..(n - named) : part[k] = all[m + k - 1]
  <2>1. all \in Seq([1..1 -> Slots])
    BY <1>4
  <2>2. /\ SubSeq(all, m, n) \in Seq([1..1 -> Slots]) /\ Len(SubSeq(all, m, n)) = n - m + 1
        /\ \A k \in 1..(n - m + 1) : SubSeq(all, m, n)[k] = all[m + k - 1]
    BY <1>6, <2>1, Part
  <2> QED BY <1>5, <1>6, <2>2, Zenon
<1>8. FlattenSeq(part) = Singles(part)
  <2>1. part \in Seq([1..1 -> Slots])
    BY <1>7
  <2> QED BY <2>1, Flattened
<1>9. Singles(part) = [k \in 1..(n - named) |-> part[k][1]]
  BY <1>7, Zenon DEF Singles
<1>10. \A k \in 1..(n - named) : part[k][1] = all[named + k][1]
  <2> TAKE k \in 1..(n - named)
  <2>1. m + k - 1 = named + k
    BY <1>3, <1>5
  <2> QED BY <1>7, <2>1, Zenon
<1>11. [k \in 1..(n - named) |-> part[k][1]] = [k \in 1..(n - named) |-> all[named + k][1]]
  <2>1. PICK f : f = [k \in 1..(n - named) |-> part[k][1]]
    OBVIOUS
  <2>2. PICK g : g = [k \in 1..(n - named) |-> all[named + k][1]]
    OBVIOUS
  <2>3. \A k \in 1..(n - named) : f[k] = g[k]
    BY <1>10, <2>1, <2>2
  <2>4. f = g
    BY <2>1, <2>2, <2>3
  <2> QED BY <2>1, <2>2, <2>4, Zenon
<1>12. Rest(pos) = [k \in 1..(n - named) |-> all[named + k][1]]
  <2>1. Rest(pos) = [k \in 1..(n - named) |-> Singles(all)[named + k]]
    BY <1>2, <1>3, Zenon DEF Rest
  <2>2. \A k \in 1..(n - named) : Singles(all)[named + k] = all[named + k][1]
    <3> TAKE k \in 1..(n - named)
    <3>1. named + k \in 1..Len(all)
      BY <1>3, <1>4
    <3> QED BY <3>1 DEF Singles
  <2>3. PICK f, g : /\ f = [k \in 1..(n - named) |-> Singles(all)[named + k]]
                    /\ g = [k \in 1..(n - named) |-> all[named + k][1]]
    OBVIOUS
  <2>4. f = g
    BY <2>2, <2>3
  <2> QED BY <2>1, <2>3, <2>4, Zenon
<1> QED BY <1>1, <1>2, <1>5, <1>8, <1>9, <1>11, <1>12, Zenon DEF ArgumentsInStep

LEMMA Members == ASSUME NEW S, NEW s \in Seq(S) PROVE \A i \in DOMAIN s : s[i] \in S
  OBVIOUS

LEMMA InvariantTypes == ASSUME IInv PROVE TypeOK
<1>1. /\ Enough /\ pos \in 1..(Len(call.fmt) + 1) /\ args = Rest(pos) /\ str \in Seq(Codes)
      /\ stored \in Seq(Nat) /\ \A i \in 1..Len(stored) : stored[i] <= Len(str)
  BY DEF IInv
<1>2. args \in Seq(Slots)
  BY <1>1, RestIs, Zenon
<1>3. \A i \in DOMAIN args : args[i] \in 0..((2 ^ LongBits) - 1)
  BY <1>2, Members, Zenon DEF Slots
<1>4. \A i \in DOMAIN str : str[i] \in 0..255
  BY <1>1, Members, Zenon DEF Codes
<1>5. \A i \in DOMAIN stored : stored[i] \in 0..Len(str)
  BY <1>1
<1> QED BY <1>1, <1>3, <1>4, <1>5, Zenon DEF TypeOK

-----------------------------------------------------------------------------
(* Each conversion keeps the invariant, and what it adds is right.         *)
Right == IInv' /\ ReadsBack /\ Filled

LEMMA ReadMoved ==
  ASSUME Widths, IInv, pos <= Len(call.fmt), Item.conv \in Reading,
         NEW s, Put(s), args' = Taken(Stars(Item) + 1), Step
  PROVE  Moved(s)
<1>1. Taken(Stars(Item) + 1) = Rest(pos + 1)
  BY ItemReads, Zenon
<1> QED BY <1>1, Zenon DEF Moved, Put, Step

LEMMA SkipMoved ==
  ASSUME Widths, IInv, pos <= Len(call.fmt), Item.conv \notin Reading, NEW s, Put(s), Skip
  PROVE  Moved(s)
<1>1. Taken(Stars(Item)) = Rest(pos + 1)
  BY ItemReads, Zenon
<1> QED BY <1>1, Zenon DEF Moved, Put, Skip, Step

LEMMA SkipRight ==
  ASSUME Widths, IInv, pos <= Len(call.fmt), Item.conv \in {"text", "%", "other"},
         NEW s \in Seq(Codes), Put(s), Skip
  PROVE  Right
<1>1. Item.conv \notin Reading /\ Item.conv \notin Numeric /\ Item.conv \notin {"c", "s"}
  BY DEF Reading, Numeric
<1>2. Moved(s)
  BY <1>1, SkipMoved, Zenon
<1>3. IInv'
  BY <1>2, MovedKeeps, Zenon DEF Skip
<1> QED BY <1>1, <1>3, Zenon DEF Right, ReadsBack, Filled

LEMMA LiteralRight == ASSUME Widths, IInv, Literal PROVE Right
<1>1. pos <= Len(call.fmt) /\ Item.conv = "text" /\ Put(Item.text) /\ Skip
  BY DEF Literal, ConvertingOf
<1>2. Item.text \in Seq(Codes)
  <2>1. Item \in Directives
    BY <1>1, ItemReads, Zenon
  <2> QED BY <2>1 DEF Directives, Codes
<1>3. Item.conv \in {"text", "%", "other"}
  BY <1>1
<1> QED BY <1>1, <1>2, <1>3, SkipRight, Zenon

LEMMA PercentRight == ASSUME Widths, IInv, Percent PROVE Right
<1>1. pos <= Len(call.fmt) /\ Item.conv = "%" /\ Put(<<37>>) /\ Skip
  BY DEF Percent, ConvertingOf
<1>2. <<37>> \in Seq(Codes)
  BY DEF Codes
<1>3. Item.conv \in {"text", "%", "other"}
  BY <1>1
<1> QED BY <1>1, <1>2, <1>3, SkipRight, Zenon

LEMMA UnknownRight == ASSUME Widths, IInv, Unknown PROVE Right
<1>1. pos <= Len(call.fmt) /\ Item.conv = "other" /\ Put(<<37>> \o Item.text) /\ Skip
  BY DEF Unknown, ConvertingOf
<1>2. Item.text \in Seq(Codes)
  <2>1. Item \in Directives
    BY <1>1, ItemReads, Zenon
  <2> QED BY <2>1 DEF Directives, Codes
<1>3. <<37>> \in Seq(Codes)
  BY DEF Codes
<1>4. <<37>> \o Item.text \in Seq(Codes)
  BY <1>2, <1>3, Cat
<1>5. Item.conv \in {"text", "%", "other"}
  BY <1>1
<1> QED BY <1>1, <1>4, <1>5, SkipRight, Zenon

LEMMA CountWrittenRight == ASSUME Widths, IInv, CountWritten PROVE Right
<1>1. /\ pos <= Len(call.fmt) /\ Item.conv = "n" /\ stored' = Append(stored, Len(str))
      /\ args' = Taken(Stars(Item) + 1) /\ Step /\ str' = str
  BY DEF CountWritten, ConvertingOf
<1>2. Item.conv \in Reading /\ Item.conv \notin Numeric /\ Item.conv \notin {"c", "s"}
  BY <1>1 DEF Reading, Numeric
<1>3. Put(<<>>)
  <2>1. str \in Seq(Codes)
    BY DEF IInv
  <2>2. str = str \o <<>>
    BY <2>1
  <2> QED BY <1>1, <2>2, Zenon DEF Put
<1>4. Moved(<<>>) /\ <<>> \in Seq(Codes)
  <2>1. Moved(<<>>)
    BY <1>1, <1>2, <1>3, ReadMoved, Zenon
  <2>2. <<>> \in Seq(Codes)
    OBVIOUS
  <2> QED BY <2>1, <2>2
<1>5. IInv'
  BY <1>1, <1>4, MovedKeeps, Zenon
<1> QED BY <1>2, <1>5, Zenon DEF Right, ReadsBack, Filled

(* A character or a string, in its columns.                                *)
LEMMA TextRight ==
  ASSUME Widths, IInv, pos <= Len(call.fmt), Item.conv \in {"c", "s"}, NEW s \in Seq(Codes),
         s = Shown(Item, Slot), Put(Aligned(s, Item)), Read
  PROVE  Right
<1>1. Item.conv \in Reading /\ Item.conv \notin Numeric
  BY DEF Reading, Numeric
<1>2. Item \in Directives /\ Width(Item) \in Int
  BY ItemReads, Zenon
<1>3. PICK d, out : d = Item /\ out = Aligned(s, Item)
  OBVIOUS
<1>4. /\ out \in Seq(Codes) /\ Len(out) = Larger(Width(d), Len(s))
      /\ IF ToTheLeft(d) THEN IsPrefix(s, out) ELSE IsSuffix(s, out)
  <2>1. d \in Directives /\ Width(d) \in Int /\ out = Aligned(s, d)
    BY <1>2, <1>3, Zenon
  <2> QED BY <2>1, AlignedIs
<1>5. Moved(out)
  BY <1>1, <1>3, ReadMoved, Zenon DEF Read
<1>6. IInv'
  <2>1. out \in Seq(Codes)
    BY <1>4
  <2> QED BY <1>5, <2>1, MovedKeeps, Zenon DEF Read
<1>7. Added = out
  <2>1. out \in Seq(Codes) /\ str \in Seq(Codes) /\ str' = str \o out
    BY <1>4, <1>5 DEF IInv, Moved
  <2> QED BY <2>1, AddedIs, Zenon
<1>8. ReadsBack
  BY <1>1, Zenon DEF ReadsBack
<1>9. Filled
  BY <1>1, <1>3, <1>4, <1>7, Zenon DEF Filled
<1> QED BY <1>6, <1>8, <1>9, Zenon DEF Right

LEMMA CharacterRight == ASSUME Widths, IInv, Character PROVE Right
<1>1. pos <= Len(call.fmt) /\ Item.conv = "c" /\ Put(Aligned(<<Char(Slot)>>, Item)) /\ Read
  BY DEF Character, ConvertingOf
<1>2. Slot \in Int
  <2>1. Item.conv \in Reading
    BY <1>1 DEF Reading
  <2>2. Slot \in Slots
    BY <1>1, <2>1, ItemReads, Zenon
  <2> QED BY <2>2 DEF Slots
<1>3. Char(Slot) = Slot % 256 /\ Slot % 256 \in Codes
  <2>1. 2 ^ 8 = 256
    OBVIOUS
  <2>2. Char(Slot) = Slot % 256
    BY <2>1, Zenon DEF Char, Unsigned
  <2>3. Slot % 256 \in Codes
    BY <1>2 DEF Codes
  <2> QED BY <2>2, <2>3
<1>4. PICK s : s = <<Char(Slot)>>
  OBVIOUS
<1>5. s = Shown(Item, Slot)
  BY <1>1, <1>3, <1>4, Zenon DEF Shown
<1>6. s \in Seq(Codes)
  <2>1. PICK c : c = Slot % 256
    OBVIOUS
  <2>2. c \in Codes /\ s = <<c>>
    BY <1>3, <1>4, <2>1, Zenon
  <2> QED BY <2>2
<1>7. Item.conv \in {"c", "s"}
  BY <1>1
<1> QED BY <1>1, <1>4, <1>5, <1>6, <1>7, TextRight, Zenon

LEMMA StringRight == ASSUME Widths, IInv, String PROVE Right
<1>1. /\ pos <= Len(call.fmt) /\ Item.conv = "s"
      /\ Put(Aligned(Strnlen(Memory[Slot], Precision(Item)), Item)) /\ Read
  BY DEF String, ConvertingOf
<1>2. Item.conv \in Reading /\ Item.conv \in {"c", "s"} /\ Item.conv # "c"
  BY <1>1 DEF Reading
<1>3. Slot \in Strings /\ Precision(Item) \in {None} \union Nat
  BY <1>1, <1>2, ItemReads, Zenon
<1>4. PICK t, p : t = Memory[Slot] /\ p = Precision(Item)
  OBVIOUS
<1>5. t \in Seq(Codes) /\ p \in {None} \union Nat
  BY <1>3, <1>4 DEF Strings
<1>6. PICK s : s = Strnlen(t, p)
  OBVIOUS
<1>7. s \in Seq(Codes) /\ (s = IF p = None \/ Len(t) < p THEN t ELSE SubSeq(t, 1, p))
  <2>1. t \in Seq(Codes) /\ Len(t) \in Nat
    BY <1>5
  <2>2. CASE p = None \/ p >= Len(t)
    <3>1. s = t
      BY <1>6, <2>2, Zenon DEF Strnlen
    <3>2. CASE p = Len(t) /\ p # None
      <4>1. SubSeq(t, 1, p) = t
        BY <2>1, <3>2
      <4> QED BY <2>1, <3>1, <4>1, Zenon
    <3>3. CASE p = None \/ p # Len(t)
      <4>1. p = None \/ Len(t) < p
        BY <1>5, <2>1, <2>2, <3>3
      <4> QED BY <2>1, <3>1, <4>1, Zenon
    <3> QED BY <3>2, <3>3
  <2>3. CASE ~(p = None \/ p >= Len(t))
    <3>1. s = SubSeq(t, 1, p)
      BY <1>6, <2>3, Zenon DEF Strnlen
    <3>2. p \in Nat /\ p <= Len(t) /\ ~(p = None \/ Len(t) < p)
      BY <1>5, <2>1, <2>3
    <3>3. 1 \in 1..(Len(t) + 1) /\ p \in 0..Len(t) /\ 1 <= p + 1
      BY <2>1, <3>2
    <3>4. SubSeq(t, 1, p) \in Seq(Codes)
      BY <2>1, <3>3, Part
    <3> QED BY <3>1, <3>2, <3>4, Zenon
  <2> QED BY <2>2, <2>3
<1>8. s = Shown(Item, Slot)
  BY <1>2, <1>4, <1>7, Zenon DEF Shown
<1>9. Put(Aligned(s, Item)) /\ s \in Seq(Codes)
  BY <1>1, <1>4, <1>6, <1>7, Zenon
<1> QED BY <1>1, <1>2, <1>8, <1>9, TextRight, Zenon

(* A number.                                                               *)
LEMMA NumberRight ==
  ASSUME Widths, IInv, pos <= Len(call.fmt), Item.conv \in Numeric,
         NEW num, NEW base, NEW flags, Asked(Item, num, base, flags, Meant(Item, Slot)),
         NEW size \in Int, size = WidthMeant(Item),
         Put(Number(num, base, size, Precision(Item), flags)), Read
  PROVE  Right
<1>1. Item.conv \in Reading /\ Item.conv \notin {"c", "s"}
  BY DEF Reading, Numeric
<1>2. Precision(Item) \in Int
  <2>1. Precision(Item) \in {None} \union Nat
    BY ItemReads, Zenon
  <2> QED BY <2>1 DEF None
<1>3. PICK d, v, p, out : /\ d = Item /\ v = Meant(Item, Slot) /\ p = Precision(Item)
                          /\ out = Number(num, base, size, Precision(Item), flags)
  OBVIOUS
<1>4. p \in Int /\ Asked(d, num, base, flags, v) /\ out = Number(num, base, size, p, flags)
  BY <1>2, <1>3, Zenon
<1>5. ReadsAs(out, d, v, p) /\ Fills(out, d, v, size, p)
  BY <1>4, NumberReads, Zenon
<1>6. out \in Seq(Codes)
  BY <1>4, NumberBytes, Zenon
<1>7. Moved(out)
  BY <1>1, <1>3, ReadMoved, Zenon DEF Read
<1>8. IInv'
  BY <1>6, <1>7, MovedKeeps, Zenon DEF Read
<1>9. Added = out
  <2>1. str \in Seq(Codes) /\ str' = str \o out
    BY <1>7 DEF IInv, Moved
  <2> QED BY <1>6, <2>1, AddedIs, Zenon
<1>10. ReadsBack
  <2>1. ReadsAs(Added, Item, Meant(Item, Slot), Precision(Item))
    BY <1>3, <1>5, <1>9, Zenon
  <2> QED BY <2>1, Zenon DEF ReadsAs, ReadsBack
<1>11. Filled
  <2>1. Fills(Added, Item, Meant(Item, Slot), WidthMeant(Item), Precision(Item))
    BY <1>3, <1>5, <1>9, Zenon
  <2>2. Needed(Item, Slot) = Widened(Item, Meant(Item, Slot))
             + Larger(Precision(Item), FewestFigures(Absolute(Meant(Item, Slot)), ReadBase(Item)))
    BY Zenon DEF Needed, Widened, Absolute
  <2> QED BY <1>1, <2>1, <2>2, Zenon DEF Fills, Filled
<1> QED BY <1>8, <1>10, <1>11, Zenon DEF Right

LEMMA IntegerRight == ASSUME Widths, IInv, Integer PROVE Right
<1>1. /\ pos <= Len(call.fmt) /\ Item.conv \in {"d", "i", "u", "o", "x", "X"} /\ Read
      /\ Put(Number(Num(Item, Slot), Base(Item), Width(Item), Precision(Item), NumberFlags(Item)))
  BY DEF Integer, ConvertingOf
<1>2. Item.conv \in Numeric /\ Item.conv \in Reading /\ Item.conv # "p"
  BY <1>1 DEF Numeric, Reading
<1>3. Item \in Directives /\ Slot \in Slots /\ Width(Item) \in Int
  BY <1>1, <1>2, ItemReads, Zenon
<1>4. Asked(Item, Num(Item, Slot), Base(Item), NumberFlags(Item), Meant(Item, Slot))
  BY <1>1, <1>3, IntegerAsked, Zenon
<1>5. Width(Item) = WidthMeant(Item)
  BY <1>2, Zenon DEF WidthMeant
<1> QED BY <1>1, <1>2, <1>3, <1>4, <1>5, NumberRight, Zenon

LEMMA PointerRight == ASSUME Widths, IInv, Pointer PROVE Right
<1>1. pos <= Len(call.fmt) /\ Item.conv = "p" /\ Read
  BY DEF Pointer, ConvertingOf
<1>2. PICK flags : flags = FlagsOf(Item) \union (IF Width(Item) # None THEN {} ELSE {"ZEROPAD"})
  OBVIOUS
<1>3. PICK size : size = IF Width(Item) # None THEN Width(Item) ELSE LongBits \div 4
  OBVIOUS
<1>4. Put(Number(Signed(Slot, LongBits), 16, size, Precision(Item), flags))
  BY <1>2, <1>3, Zenon DEF Pointer
<1>5. Item.conv \in Numeric /\ Item.conv \in Reading
  BY <1>1 DEF Numeric, Reading
<1>6. /\ Item \in Directives /\ Slot \in Slots /\ Width(Item) \in Int
      /\ Width(Item) = None <=> Item.width = None
  BY <1>1, <1>5, ItemReads, Zenon
<1>7. flags = FlagsOf(Item) \/ flags = FlagsOf(Item) \union {"ZEROPAD"}
  BY <1>2
<1>8. Asked(Item, Signed(Slot, LongBits), 16, flags, Meant(Item, Slot))
  BY <1>1, <1>6, <1>7, PointerAsked, Zenon
<1>9. size \in Int
  BY <1>3, <1>6 DEF Widths
<1>10. size = WidthMeant(Item)
  BY <1>1, <1>3, <1>6, Zenon DEF WidthMeant
<1> QED BY <1>1, <1>4, <1>5, <1>8, <1>9, <1>10, NumberRight, Zenon

LEMMA StepRight == ASSUME Widths, IInv, Next PROVE Right
<1>1. CASE Literal
  BY <1>1, LiteralRight
<1>2. CASE Character
  BY <1>2, CharacterRight
<1>3. CASE String
  BY <1>3, StringRight
<1>4. CASE Pointer
  BY <1>4, PointerRight
<1>5. CASE CountWritten
  BY <1>5, CountWrittenRight
<1>6. CASE Percent
  BY <1>6, PercentRight
<1>7. CASE Unknown
  BY <1>7, UnknownRight
<1>8. CASE Integer
  BY <1>8, IntegerRight
<1> QED BY <1>1, <1>2, <1>3, <1>4, <1>5, <1>6, <1>7, <1>8 DEF Next

LEMMA StutterRight == ASSUME IInv, UNCHANGED vars PROVE Right
<1>1. call' = call /\ pos' = pos /\ args' = args /\ str' = str /\ stored' = stored
  BY DEF vars
<1>2. IInv'
  <2>1. ASSUME NEW i PROVE Named(i)' = Named(i)
    BY <1>1, Zenon DEF Named
  <2>2. AllSlots' = AllSlots
    BY <1>1, Zenon DEF AllSlots
  <2>3. Enough'
    BY <1>1, <2>1, <2>2, Zenon DEF IInv, Enough
  <2>4. Rest(pos)' = Rest(pos)
    <3>1. PICK n : n = pos
      OBVIOUS
    <3>2. Named(pos)' = Named(n)
      BY <1>1, <3>1, Zenon DEF Named
    <3>3. Rest(n) = [k \in 1..(Len(AllSlots) - Named(n)) |-> AllSlots[Named(n) + k]]
      BY Zenon DEF Rest
    <3>4. Rest(pos)' = [k \in 1..(Len(AllSlots') - Named(pos)') |-> AllSlots'[Named(pos)' + k]]
      BY Zenon DEF Rest
    <3> QED BY <2>2, <3>1, <3>2, <3>3, <3>4, Zenon
  <2> QED BY <1>1, <2>3, <2>4, Zenon DEF IInv
<1>3. ReadsBack /\ Filled
  BY <1>1, Zenon DEF ReadsBack, Filled
<1> QED BY <1>2, <1>3, Zenon DEF Right

(* The call, and so whether it is well formed, does not change.            *)
LEMMA CallKept == ASSUME [Next]_vars PROVE call' = call
  BY Zenon DEF Next, Literal, Character, String, Pointer, CountWritten, Percent, Unknown, Integer,
              Skip, Read, Step, vars

LEMMA WellFormedKept == ASSUME WellFormed, [Next]_vars PROVE WellFormed'
<1>1. call' = call
  BY CallKept
<1>2. ASSUME NEW i PROVE Named(i)' = Named(i)
  BY <1>1, Zenon DEF Named
<1> QED BY <1>1, <1>2, Zenon DEF WellFormed

-----------------------------------------------------------------------------
(* The invariant holds for every format with slots enough, and all sizes.  *)
THEOREM Invariance == ASSUME Widths PROVE Enough /\ Spec => []IInv
<1>1. Enough /\ Init => IInv
  BY InitInvariant
<1>2. IInv /\ [Next]_vars => IInv'
  BY StepRight, StutterRight DEF Right
<1> QED BY <1>1, <1>2, PTL DEF Spec

(* No step of vsprintf leaves the types: slots in the va_list, characters  *)
(* in the buffer, counts stored.                                           *)
THEOREM TypesKept == ASSUME Widths PROVE Enough /\ Spec => []TypeOK
<1>1. IInv => TypeOK
  BY InvariantTypes
<1> QED BY <1>1, Invariance, PTL

(* Each directive reads the argument written for it, if the caller wrote   *)
(* one of one slot for each that the directives name.                      *)
THEOREM InStep == ASSUME Widths PROVE WellFormed /\ Spec => []ArgumentsInStep
<1>1. IInv /\ WellFormed => ArgumentsInStep
  BY InvariantInStep
<1>2. WellFormed => Enough
  BY WellFormedEnough
<1>3. WellFormed /\ [Next]_vars => WellFormed'
  BY WellFormedKept
<1> QED BY <1>1, <1>2, <1>3, Invariance, PTL DEF Spec

(* A number printed, read in its base, is the number given.                *)
THEOREM NumbersRead == ASSUME Widths PROVE Enough /\ Spec => [][ReadsBack]_vars
<1>1. IInv /\ [Next]_vars => ReadsBack
  BY StepRight, StutterRight DEF Right
<1> QED BY <1>1, Invariance, PTL DEF Spec

(* A field is as wide as asked for, or as its argument needs.              *)
THEOREM FieldsAreFilled == ASSUME Widths PROVE Enough /\ Spec => [][Filled]_vars
<1>1. IInv /\ [Next]_vars => Filled
  BY StepRight, StutterRight DEF Right
<1> QED BY <1>1, Invariance, PTL DEF Spec

-----------------------------------------------------------------------------
(* Directives that read an argument each, with a text between any two.     *)
Spaced(directives, text) ==
    /\ directives \in Seq(Directives) /\ text \in Directives
    /\ text.conv = "text" /\ text.width # Star /\ text.precision # Star
    /\ \A k \in 1..Len(directives) : /\ directives[k].conv \in Reading
                                     /\ directives[k].width # Star /\ directives[k].precision # Star
    /\ call.fmt = [i \in 1..((2 * Len(directives)) + 1) |->
                     IF i % 2 = 0 THEN directives[i \div 2] ELSE text]

LEMMA SpacedNames ==
  ASSUME NEW directives, NEW text, Spaced(directives, text)
  PROVE  /\ call.fmt \in Seq(Directives)
         /\ Named(Len(call.fmt) + 1) = Len(directives)
         /\ \A i \in 1..Len(call.fmt) :
              call.fmt[i].conv = "s" => /\ Named(i + 1) \in 1..Len(directives)
                                        /\ directives[Named(i + 1)].conv = "s"
<1>1. /\ directives \in Seq(Directives) /\ text \in Directives
      /\ text.conv = "text" /\ text.width # Star /\ text.precision # Star
      /\ \A k \in 1..Len(directives) : /\ directives[k].conv \in Reading
                                       /\ directives[k].width # Star /\ directives[k].precision # Star
  BY Zenon DEF Spaced
<1>2. PICK n, f : n = Len(directives) /\ f = call.fmt
  OBVIOUS
<1>3. n \in Nat
  BY <1>1, <1>2
<1>4. f = [i \in 1..((2 * n) + 1) |-> IF i % 2 = 0 THEN directives[i \div 2] ELSE text]
  BY <1>2, Zenon DEF Spaced
<1>6. ASSUME NEW i \in 1..((2 * n) + 1)
      PROVE  /\ i % 2 = 0 => f[i] = directives[i \div 2] /\ i \div 2 \in 1..n
             /\ i % 2 # 0 => f[i] = text
             /\ f[i] \in Directives
  <2>1. f[i] = IF i % 2 = 0 THEN directives[i \div 2] ELSE text
    BY <1>4, Zenon
  <2>2. i % 2 = 0 => i \div 2 \in 1..n
    BY <1>3
  <2>3. \A k \in 1..n : directives[k] \in Directives
    BY <1>1, <1>2
  <2> QED BY <1>1, <2>1, <2>2, <2>3, Zenon
<1>7. f \in Seq(Directives) /\ Len(f) = (2 * n) + 1
  <2>1. f \in [1..((2 * n) + 1) -> Directives]
    BY <1>4, <1>6
  <2>2. (2 * n) + 1 \in Nat
    BY <1>3
  <2> QED BY <2>1, <2>2
<1>8. /\ Named(1) = 0
      /\ \A i \in 1..((2 * n) + 1) : Named(i + 1) = Named(i) + NamedBy(f[i])
  <2>1. call.fmt \in Seq(Directives)
    BY <1>2, <1>7, Zenon
  <2> QED BY <1>2, <1>7, <2>1, NamedIs, Zenon
<1>9. ASSUME NEW i \in 1..((2 * n) + 1) PROVE NamedBy(f[i]) = IF i % 2 = 0 THEN 1 ELSE 0
  <2>1. CASE i % 2 = 0
    <3>1. f[i].conv \in Reading /\ f[i].width # Star /\ f[i].precision # Star
      BY <1>1, <1>2, <1>6, <2>1, Zenon
    <3> QED BY <2>1, <3>1 DEF NamedBy
  <2>2. CASE i % 2 # 0
    <3>1. f[i].conv = "text" /\ f[i].width # Star /\ f[i].precision # Star
      BY <1>1, <1>6, <2>2, Zenon
    <3> QED BY <2>2, <3>1 DEF NamedBy, Reading
  <2> QED BY <2>1, <2>2
<1>10. ASSUME NEW i \in 1..((2 * n) + 2) PROVE Named(i) = (i - 1) \div 2
  <2> DEFINE S == {k \in Nat : k <= (2 * n) + 1 => Named(k + 1) = k \div 2}
  <2>1. 0 \in S
    BY <1>8
  <2>2. ASSUME NEW k \in Nat, k \in S PROVE k + 1 \in S
    <3> SUFFICES ASSUME k + 1 <= (2 * n) + 1 PROVE Named((k + 1) + 1) = (k + 1) \div 2
      OBVIOUS
    <3>1. PICK j : j = k + 1
      OBVIOUS
    <3>2. j \in 1..((2 * n) + 1) /\ j \in Nat
      BY <1>3, <3>1
    <3>3. Named(j + 1) = Named(j) + NamedBy(f[j])
      BY <1>8, <3>2
    <3>4. Named(j) = k \div 2
      BY <2>2, <3>1, <3>2, <1>3
    <3>5. NamedBy(f[j]) = IF j % 2 = 0 THEN 1 ELSE 0
      BY <1>9, <3>2
    <3>6. (k + 1) \div 2 = (k \div 2) + IF (k + 1) % 2 = 0 THEN 1 ELSE 0
      OBVIOUS
    <3> QED BY <3>1, <3>3, <3>4, <3>5, <3>6, Zenon
  <2>3. Nat \subseteq S
    <3> HIDE DEF S
    <3> QED BY <2>1, <2>2, Induction, Zenon
  <2>4. PICK k : k = i - 1
    OBVIOUS
  <2>5. k \in Nat /\ k <= (2 * n) + 1 /\ k + 1 = i
    BY <1>3, <2>4
  <2>6. Named(k + 1) = k \div 2
    BY <2>3, <2>5
  <2> QED BY <2>4, <2>5, <2>6, Zenon
<1>11. Named(Len(call.fmt) + 1) = Len(directives)
  <2>1. PICK last : last = Len(f) + 1
    OBVIOUS
  <2>2. last \in 1..((2 * n) + 2) /\ (last - 1) \div 2 = n
    BY <1>3, <1>7, <2>1
  <2>3. Named(last) = n
    BY <1>10, <2>2
  <2> QED BY <1>2, <2>1, <2>3, Zenon
<1>12. ASSUME NEW i \in 1..Len(call.fmt), call.fmt[i].conv = "s"
       PROVE  /\ Named(i + 1) \in 1..Len(directives)
              /\ directives[Named(i + 1)].conv = "s"
  <2>1. i \in 1..((2 * n) + 1) /\ f[i].conv = "s"
    BY <1>2, <1>7, <1>12, Zenon
  <2>2. i % 2 = 0
    <3>1. f[i] # text
      BY <1>1, <2>1
    <3> QED BY <1>6, <2>1, <3>1, Zenon
  <2>3. PICK k, next : k = i \div 2 /\ next = i + 1
    <3>1. \E k : k = i \div 2
      OBVIOUS
    <3> QED BY <3>1
  <2>4. k \in 1..n /\ directives[k].conv = "s"
    BY <1>6, <2>1, <2>2, <2>3, Zenon
  <2>5. next \in 1..((2 * n) + 2) /\ (next - 1) \div 2 = k
    BY <1>3, <2>1, <2>3
  <2>6. Named(next) = k
    BY <1>10, <2>5
  <2> QED BY <1>2, <2>3, <2>4, <2>6, Zenon
<1> QED BY <1>2, <1>7, <1>11, <1>12, Zenon

(* With as many arguments of one slot the call is well formed.             *)
LEMMA SpacedWellFormed ==
  ASSUME NEW directives, NEW text, Spaced(directives, text),
         call.arguments \in Seq([1..1 -> Slots]), Len(call.arguments) = Len(directives),
         \A k \in 1..Len(directives) :
            directives[k].conv = "s" => call.arguments[k][1] \in Strings
  PROVE  WellFormed
  BY SpacedNames, Zenon DEF WellFormed

(* With as many slots, however they are given, it has enough.              *)
LEMMA SpacedEnough ==
  ASSUME NEW directives, NEW text, Spaced(directives, text),
         AllSlots \in Seq(Slots), Len(directives) <= Len(AllSlots),
         \A k \in 1..Len(directives) : directives[k].conv # "s"
  PROVE  Enough
<1>1. /\ call.fmt \in Seq(Directives)
      /\ Named(Len(call.fmt) + 1) = Len(directives)
      /\ \A i \in 1..Len(call.fmt) : call.fmt[i].conv # "s"
  BY SpacedNames, Zenon
<1>2. Named(Len(call.fmt) + 1) <= Len(AllSlots)
  BY <1>1, Zenon
<1> QED BY <1>1, <1>2, Zenon DEF Enough

(* The slots of one argument, and of three.                                *)
LEMMA FlattenedOne == ASSUME NEW a PROVE FlattenSeq(<<a>>) = a
<1>1. PICK seqs : seqs = <<a>>
  OBVIOUS
<1>2. Len(seqs) = 1 /\ seqs[1] = a
  BY <1>1
<1> DEFINE Is(f) == f = [i \in 1..Len(seqs) |-> IF i = 1 THEN seqs[i] ELSE f[i - 1] \o seqs[i]]
<1>3. Is([i \in 1..1 |-> a])
  BY <1>2
<1>4. PICK f : f = CHOOSE h : Is(h)
  OBVIOUS
<1>5. Is(f)
  BY <1>3, <1>4, Zenon
<1>6. f[1] = a
  BY <1>2, <1>5
<1>7. FlattenSeq(seqs) = f[Len(seqs)]
  <2>1. Len(seqs) # 0
    BY <1>2
  <2> QED BY <1>4, <2>1, Zenon DEF FlattenSeq
<1> QED BY <1>1, <1>2, <1>6, <1>7, Zenon

LEMMA FlattenedThree ==
  ASSUME NEW a, NEW b, NEW c, NEW row, row = (a \o b) \o c
  PROVE  FlattenSeq(<<a, b, c>>) = row
<1>1. PICK seqs : seqs = <<a, b, c>>
  OBVIOUS
<1>2. Len(seqs) = 3 /\ seqs[1] = a /\ seqs[2] = b /\ seqs[3] = c
  BY <1>1
<1>3. PICK ab, abc : ab = a \o b /\ abc = ab \o c
  <2>1. \E ab : ab = a \o b
    OBVIOUS
  <2> QED BY <2>1
<1> DEFINE Is(f) == f = [i \in 1..Len(seqs) |-> IF i = 1 THEN seqs[i] ELSE f[i - 1] \o seqs[i]]
<1>4. Is([i \in 1..3 |-> IF i = 1 THEN a ELSE IF i = 2 THEN ab ELSE abc])
  <2>1. PICK g : g = [i \in 1..3 |-> IF i = 1 THEN a ELSE IF i = 2 THEN ab ELSE abc]
    OBVIOUS
  <2>2. g[1] = a /\ g[2] = ab /\ g[3] = abc
    BY <2>1
  <2>3. \A i \in 1..3 : g[i] = IF i = 1 THEN seqs[i] ELSE g[i - 1] \o seqs[i]
    <3>1. g[1] = seqs[1]
      BY <1>2, <2>2
    <3>2. g[2] = g[1] \o seqs[2]
      BY <1>2, <1>3, <2>2, Zenon
    <3>3. g[3] = g[2] \o seqs[3]
      BY <1>2, <1>3, <2>2, Zenon
    <3>4. ASSUME NEW i \in 1..3 PROVE g[i] = IF i = 1 THEN seqs[i] ELSE g[i - 1] \o seqs[i]
      <4>1. CASE i = 1
        BY <3>1, <4>1
      <4>2. CASE i = 2
        <5>1. i - 1 = 1 /\ i # 1
          BY <4>2
        <5> QED BY <3>2, <4>2, <5>1, Zenon
      <4>3. CASE i = 3
        <5>1. i - 1 = 2 /\ i # 1
          BY <4>3
        <5> QED BY <3>3, <4>3, <5>1, Zenon
      <4> QED BY <4>1, <4>2, <4>3
    <3> QED BY <3>4
  <2>4. g = [i \in 1..3 |-> g[i]]
    BY <2>1
  <2>5. g = [i \in 1..Len(seqs) |-> IF i = 1 THEN seqs[i] ELSE g[i - 1] \o seqs[i]]
    BY <1>2, <2>3, <2>4
  <2> QED BY <2>1, <2>5, Zenon
<1>5. PICK f : f = CHOOSE h : Is(h)
  OBVIOUS
<1>6. Is(f)
  BY <1>4, <1>5, Zenon
<1>7. f[3] = abc
  <2>1. \A i \in 1..3 : f[i] = IF i = 1 THEN seqs[i] ELSE f[i - 1] \o seqs[i]
    BY <1>2, <1>6
  <2>2. 3 - 1 = 2 /\ 2 - 1 = 1 /\ 1 \in 1..3 /\ 2 \in 1..3 /\ 3 \in 1..3 /\ 2 # 1 /\ 3 # 1
    OBVIOUS
  <2>3. f[1] = a
    BY <1>2, <2>1, <2>2, Zenon
  <2>4. f[2] = f[1] \o b
    BY <1>2, <2>1, <2>2, Zenon
  <2>5. f[3] = f[2] \o c
    BY <1>2, <2>1, <2>2, Zenon
  <2> QED BY <1>3, <2>3, <2>4, <2>5, Zenon
<1>8. FlattenSeq(seqs) = f[Len(seqs)]
  <2>1. Len(seqs) # 0
    BY <1>2
  <2> QED BY <1>5, <2>1, Zenon DEF FlattenSeq
<1> QED BY <1>1, <1>2, <1>3, <1>7, <1>8, Zenon
=============================================================================
