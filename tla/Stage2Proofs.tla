---------------------------- MODULE Stage2Proofs ----------------------------
(***************************************************************************)
(* What Stage2Tasks says of a20, of cpuid and of the screen, for every     *)
(* machine: whatever the BIOS does, keys are pressed and the processor     *)
(* answers, and however wide the screen is.                                *)
(*                                                                         *)
(* Of the screen: a text does not scroll and never ends, and what matters  *)
(* is that it is drawn after all that is there, which is so by induction   *)
(* over its characters, as long as the row, which is a byte, does not      *)
(* overflow.  That it does not is a matter of counting: each task has a    *)
(* number of rows that its messages may take, at a row for each character, *)
(* and the rows of all of them are fewer than there are.                   *)
(***************************************************************************)
EXTENDS Stage2Tasks, FiniteSetTheorems, SequenceTheorems, WellFoundedInduction, TLAPS

-----------------------------------------------------------------------------
(* The pen, character by character.                                        *)

Positions == [row : 0..255, column : 0..Columns]
Pens == [pos : Positions, color : Display!Colors, cells : SUBSET Int, top : Int, over : SUBSET Int]

(* The cell after one and the first cell of the next row.                  *)
LEMMA Cells == ASSUME NEW pos \in Positions
  PROVE /\ Display!Cell(pos) \in Nat
        /\ Display!Cell([row |-> pos.row + 1, column |-> 0]) = Display!Cell(pos) + Columns - pos.column
        /\ Display!Cell([pos EXCEPT !.column = @ + 1]) = Display!Cell(pos) + 1
<1>1. PICK row, column : row = pos.row /\ column = pos.column
  OBVIOUS
<1>2. row \in Nat /\ column \in Nat /\ Columns \in Nat
  BY <1>1, ScreenAssumption DEF Positions
<1>3. Columns * row \in Nat /\ Columns * (row + 1) = (Columns * row) + Columns
  BY <1>2
<1>4. Display!Cell(pos) = (Columns * row) + column
  BY <1>1, Zenon DEF Display!Cell
<1>5. Display!Cell([row |-> pos.row + 1, column |-> 0]) = (Columns * (row + 1)) + 0
  <2>1. PICK next : next = [row |-> pos.row + 1, column |-> 0]
    OBVIOUS
  <2>2. next.row = row + 1 /\ next.column = 0
    BY <1>1, <2>1
  <2>3. Display!Cell(next) = (Columns * (row + 1)) + 0
    BY <2>2, Zenon DEF Display!Cell
  <2> QED BY <2>1, <2>3, Zenon
<1>6. Display!Cell([pos EXCEPT !.column = @ + 1]) = (Columns * row) + (column + 1)
  <2>1. PICK next : next = [pos EXCEPT !.column = @ + 1]
    OBVIOUS
  <2>2. next.row = row /\ next.column = column + 1
    BY <1>1, <2>1 DEF Positions
  <2>3. Display!Cell(next) = (Columns * row) + (column + 1)
    BY <2>2, Zenon DEF Display!Cell
  <2> QED BY <2>1, <2>3, Zenon
<1>7. PICK base : base = Columns * row
  OBVIOUS
<1> QED BY <1>1, <1>2, <1>3, <1>4, <1>5, <1>6, <1>7

(* Rows are bytes.                                                         *)
LEMMA NextRowIs == ASSUME NEW row \in 0..254 PROVE Display!NextRow(row) = row + 1
BY DEF Display!NextRow

(* The parts of a position.                                                *)
LEMMA PositionTypes == ASSUME NEW pos \in Positions
  PROVE pos.row \in Nat /\ pos.row \in 0..255 /\ pos.column \in 0..Columns
BY DEF Positions

(* And of the pen.                                                         *)
LEMMA PenTypes == ASSUME NEW so \in Pens
  PROVE /\ so.pos \in Positions /\ so.pos.row \in 0..255 /\ so.pos.row \in Nat /\ so.pos.column \in 0..Columns
        /\ so.color \in Display!Colors /\ so.cells \in SUBSET Int /\ so.top \in Int
        /\ so.over \in SUBSET Int
BY DEF Pens, Positions

(* One character more.                                                     *)
Follows(so, c, on) ==
    /\ on \in Pens
    /\ on.pos.row \in {so.pos.row, so.pos.row + 1}
    /\ c \in Display!Colors => on.pos.row = so.pos.row
    /\ Display!Cell(so.pos) <= Display!Cell(on.pos)
    /\ Display!Ahead(on.pos, on.top) /\ so.top <= on.top
    /\ on.over \subseteq so.over \union {0}
    /\ \A cell \in on.cells : cell \in so.cells \/ Display!Cell(so.pos) <= cell

(* A character does that, wherever the pen is but in the last row, if what *)
(* texts have come to is not ahead of it: it stays so.                     *)
LEMMA PutcFollows ==
  ASSUME NEW so \in Pens, Display!Ahead(so.pos, so.top), NEW c, so.pos.row < 255
  PROVE Follows(so, c, Display!Putc(so, c)) 
<1>1. /\ so.pos \in Positions /\ so.color \in Display!Colors /\ so.cells \in SUBSET Int
      /\ so.top \in Int /\ so.over \in SUBSET Int
      /\ so.pos.row \in 0..254 /\ so.pos.column \in 0..Columns
      /\ Columns \in Nat \ {0}
  BY ScreenAssumption DEF Pens, Positions
<1>2. PICK cell : cell = Display!Cell(so.pos)
  OBVIOUS
<1>3. cell \in Nat
  BY <1>1, <1>2, Cells
<1>4. PICK next : next = [row |-> so.pos.row + 1, column |-> 0]
  OBVIOUS
<1>5. next \in Positions /\ Display!Cell(next) = cell + Columns - so.pos.column
  <2>1. next \in Positions
    BY <1>1, <1>4 DEF Positions
  <2> QED BY <1>1, <1>2, <1>4, <2>1, Cells, Zenon
<1>6. next.row = so.pos.row + 1 /\ next.column = 0
  BY <1>4
<1>7. Display!NextRow(so.pos.row) = so.pos.row + 1
  BY <1>1, NextRowIs
<1>8. so.top < cell \/ (so.pos.column = 0 /\ so.top <= cell)
  BY <1>2, Zenon DEF Display!Ahead
<1> DEFINE on == Display!Putc(so, c)
<1>9. CASE c \in Display!Colors
  <2>1. on = [so EXCEPT !.color = c]
    <3>1. c # "newline"
      BY <1>9 DEF Display!Colors
    <3> QED BY <1>9, <3>1 DEF Display!Putc
  <2>2. on \in Pens /\ on.pos = so.pos /\ on.cells = so.cells /\ on.top = so.top /\ on.over = so.over
    BY <1>1, <1>9, <2>1 DEF Pens
  <2>3. Display!Cell(on.pos) = cell /\ Display!Ahead(on.pos, on.top)
    BY <1>2, <2>2, Zenon
  <2> QED BY <1>1, <1>2, <1>3, <2>2, <2>3 DEF Follows
<1>10. CASE c = "newline"
  <2>1. on = [so EXCEPT !.pos = next]
    <3>1. c \notin Display!Colors
      BY <1>10 DEF Display!Colors
    <3> QED BY <1>4, <1>7, <1>10, <3>1 DEF Display!Putc
  <2>2. on \in Pens /\ on.pos = next /\ on.cells = so.cells /\ on.top = so.top /\ on.over = so.over
    BY <1>1, <1>5, <2>1 DEF Pens
  <2>3. Display!Cell(on.pos) = cell + Columns - so.pos.column
    BY <1>5, <2>2, Zenon
  <2>4. so.top <= cell + Columns - so.pos.column
    BY <1>1, <1>3, <1>8
  <2>5. Display!Ahead(on.pos, on.top)
    BY <1>6, <2>2, <2>3, <2>4, Zenon DEF Display!Ahead
  <2>6. cell <= cell + Columns - so.pos.column
    BY <1>1, <1>3
  <2>7. on.pos.row = so.pos.row + 1
    BY <1>6, <2>2
  <2>8. c \notin Display!Colors
    BY <1>10 DEF Display!Colors
  <2> QED BY <1>1, <1>2, <2>2, <2>3, <2>5, <2>6, <2>7, <2>8 DEF Follows
<1>11. CASE c \notin Display!Colors /\ c # "newline"
  <2>1. PICK ahead : ahead = Display!Advanced(so.pos)
    OBVIOUS
  <2>2. on = [so EXCEPT !.pos = ahead, !.cells = so.cells \union {cell},
                        !.over = IF cell <= so.top THEN so.over \union {so.pos.column} ELSE so.over,
                        !.top = IF cell <= so.top THEN so.top ELSE cell]
    BY <1>2, <1>11, <2>1 DEF Display!Putc
  <2>3. /\ ahead \in Positions /\ cell <= Display!Cell(ahead)
        /\ ahead.row \in {so.pos.row, so.pos.row + 1}
        /\ cell < Display!Cell(ahead) \/ (ahead.column = 0 /\ cell <= Display!Cell(ahead))
    <3>1. CASE so.pos.column >= Columns
      <4>1. ahead = next
        BY <1>4, <1>7, <2>1, <3>1, Zenon DEF Display!Advanced
      <4>2. so.pos.column = Columns
        BY <1>1, <3>1
      <4> QED BY <1>1, <1>3, <1>5, <1>6, <4>1, <4>2
    <3>2. CASE ~(so.pos.column >= Columns)
      <4>1. ahead = [so.pos EXCEPT !.column = @ + 1]
        BY <2>1, <3>2, Zenon DEF Display!Advanced
      <4>2. Display!Cell(ahead) = cell + 1
        BY <1>1, <1>2, <4>1, Cells, Zenon
      <4>3. ahead \in Positions /\ ahead.row = so.pos.row
        BY <1>1, <3>2, <4>1 DEF Positions
      <4> QED BY <1>1, <1>3, <4>2, <4>3
    <3> QED BY <3>1, <3>2
  <2>4. /\ on.pos = ahead /\ on.color = so.color /\ on.cells = so.cells \union {cell}
        /\ on.top = (IF cell <= so.top THEN so.top ELSE cell)
        /\ on.over = (IF cell <= so.top THEN so.over \union {so.pos.column} ELSE so.over)
    BY <2>2 DEF Pens
  <2>5. on.top = cell
    BY <1>1, <1>3, <1>8, <2>4
  <2>6. cell <= so.top => so.pos.column = 0
    BY <1>1, <1>3, <1>8
  <2>7. on \in Pens
    <3>1. cell \in Int /\ so.pos.column \in Int
      BY <1>1, <1>3
    <3>2. PICK cells, top, over : 
            /\ cells = so.cells \union {cell}
            /\ top = (IF cell <= so.top THEN so.top ELSE cell)
            /\ over = (IF cell <= so.top THEN so.over \union {so.pos.column} ELSE so.over)
      OBVIOUS
    <3>3. on = [so EXCEPT !.pos = ahead, !.cells = cells, !.over = over, !.top = top]
      BY <2>2, <3>2, Zenon
    <3>4. cells \in SUBSET Int /\ top \in Int /\ over \in SUBSET Int
      BY <1>1, <3>1, <3>2
    <3> QED BY <2>3, <3>3, <3>4 DEF Pens
  <2>8. Display!Ahead(on.pos, on.top)
    BY <2>3, <2>4, <2>5, Zenon DEF Display!Ahead
  <2>9. on.over \subseteq so.over \union {0}
    BY <2>4, <2>6
  <2>10. so.top <= cell
    BY <1>1, <1>3, <1>8
  <2>11. \A x \in on.cells : x \in so.cells \/ Display!Cell(so.pos) <= x
    BY <1>2, <1>3, <2>4
  <2> HIDE DEF on
  <2>12. Follows(so, c, on)
    <3>1. on.pos.row \in {so.pos.row, so.pos.row + 1} /\ Display!Cell(so.pos) <= Display!Cell(on.pos)
      BY <1>2, <2>3, <2>4
    <3>2. so.top <= on.top
      BY <2>5, <2>10
    <3> QED BY <1>11, <2>7, <2>8, <2>9, <2>11, <3>1, <3>2, Zenon DEF Follows
  <2> QED BY <2>12 DEF on
<1> QED BY <1>9, <1>10, <1>11

-----------------------------------------------------------------------------
(* Texts of any length, by induction over the naturals.                    *)
LEMMA Induction == ASSUME NEW S, 0 \in S, \A n \in Nat : n \in S => n + 1 \in S
  PROVE Nat \subseteq S
<1>1. PICK R : R = OpToRel(<, Nat)
  OBVIOUS
<1>2. \A x, y \in Nat : <<x, y>> \in R <=> x < y
  <2>1. OpToRel(<, Nat) = {ss \in Nat \X Nat : ss[1] < ss[2]}
    BY Zenon DEF OpToRel
  <2> QED BY <1>1, <2>1
<1> SUFFICES ASSUME Nat \ S # {} PROVE FALSE
  OBVIOUS
<1>3. PICK n \in Nat \ S : \A k \in Nat \ S : ~(<<k, n>> \in R)
  <2>1. Nat \ S \subseteq Nat
    OBVIOUS
  <2> QED BY <1>1, <2>1, NatLessThanWellFounded, WFMin, Zenon
<1>4. n # 0 /\ n - 1 \in Nat /\ n - 1 < n /\ (n - 1) + 1 = n
  BY <1>3
<1>5. n - 1 \in S
  BY <1>2, <1>3, <1>4, Zenon
<1>6. n \in S
  BY <1>4, <1>5, Zenon
<1> QED BY <1>3, <1>6

(* The first n characters of a text, one after another.                    *)
Types(t, start, text, n) ==
    t = [i \in 0..n |-> IF i = 0 THEN start ELSE Display!Putc(t[i - 1], text[i])]

(* One more, when there is such a function for a number of them.           *)
LEMMA TypesOneMore ==
  ASSUME NEW start, NEW text, NEW n \in Nat, NEW t, Types(t, start, text, n)
  PROVE \E u : Types(u, start, text, n + 1)
<1> DEFINE u == [i \in 0..(n + 1) |-> IF i = n + 1 THEN Display!Putc(t[n], text[n + 1]) ELSE t[i]]
<1>1. \A i \in 0..n : t[i] = IF i = 0 THEN start ELSE Display!Putc(t[i - 1], text[i])
  BY DEF Types
<1>2. \A i \in 0..n : u[i] = t[i]
  OBVIOUS
<1>3. ASSUME NEW i \in 0..(n + 1)
      PROVE u[i] = IF i = 0 THEN start ELSE Display!Putc(u[i - 1], text[i])
  <2>1. CASE i = 0
    BY <1>1, <1>2, <2>1
  <2>2. CASE i \in 1..n
    <3>1. u[i] = t[i] /\ u[i - 1] = t[i - 1] /\ i # 0 /\ i \in 0..n
      BY <1>2, <2>2
    <3> QED BY <1>1, <3>1, Zenon
  <2>3. CASE i = n + 1
    <3>1. u[i] = Display!Putc(t[n], text[n + 1]) /\ i - 1 = n /\ i # 0
      BY <2>3
    <3>2. u[i - 1] = t[n]
      BY <1>2, <3>1
    <3> QED BY <2>3, <3>1, <3>2, Zenon
  <2> QED BY <2>1, <2>2, <2>3
<1>4. u = [i \in 0..(n + 1) |-> u[i]]
  OBVIOUS
<1> HIDE DEF u
<1>5. Types(u, start, text, n + 1)
  BY <1>3, <1>4 DEF Types
<1> QED BY <1>5

(* So there is one for every length.                                       *)
LEMMA TypesExists == ASSUME NEW start, NEW text, NEW n \in Nat
  PROVE \E t : Types(t, start, text, n)
<1> DEFINE S == {k \in Nat : \E t : Types(t, start, text, k)}
<1>1. 0 \in S
  <2>1. Types([i \in 0..0 |-> start], start, text, 0)
    BY DEF Types
  <2> QED BY <2>1
<1>2. ASSUME NEW k \in Nat, k \in S PROVE k + 1 \in S
  <2>1. PICK t : Types(t, start, text, k)
    BY <1>2
  <2>2. \E u : Types(u, start, text, k + 1)
    BY <2>1, TypesOneMore, Zenon
  <2> QED BY <2>2
<1>3. Nat \subseteq S
  <2> HIDE DEF S
  <2> QED BY <1>1, <1>2, Induction, Zenon
<1> QED BY <1>3

(* And Typed is such a function at its last index.                         *)
LEMMA TypedIs == ASSUME NEW pos, NEW color, NEW text, NEW past, Len(text) \in Nat, past = reach
  PROVE \E t, start : 
          /\ start = [pos |-> pos, color |-> color, cells |-> {}, top |-> past, over |-> {}]
          /\ Types(t, start, text, Len(text))
          /\ Display!Typed(pos, color, text) = t[Len(text)]
<1>1. PICK start : start = [pos |-> pos, color |-> color, cells |-> {}, top |-> past, over |-> {}]
  OBVIOUS
<1>2. PICK t : t = CHOOSE u : Types(u, start, text, Len(text))
  OBVIOUS
<1>3. Types(t, start, text, Len(text))
  BY <1>2, TypesExists, Zenon
<1>4. Display!Typed(pos, color, text) = t[Len(text)]
  BY <1>1, <1>2, Zenon DEF Display!Typed, Types
<1> QED BY <1>1, <1>3, <1>4

(* Rows that a text may move the cursor down: w counts them from its start *)
(* to each character, none for a colour.                                   *)
Rows(text, w) ==
    /\ w[0] = 0
    /\ \A i \in 1..Len(text) : w[i - 1] + (IF text[i] \in Display!Colors THEN 0 ELSE 1) <= w[i]
    /\ \A i \in 0..Len(text) : w[i] \in 0..w[Len(text)]

(* What a text does, from where it starts.                                 *)
Since(start, on) ==
    /\ on \in Pens
    /\ start.pos.row <= on.pos.row
    /\ Display!Cell(start.pos) <= Display!Cell(on.pos)
    /\ Display!Ahead(on.pos, on.top) /\ start.top <= on.top
    /\ on.over \subseteq start.over \union {0}
    /\ \A cell \in on.cells : cell \in start.cells \/ Display!Cell(start.pos) <= cell

(* One character more.                                                     *)
LEMMA SinceFollows ==
  ASSUME NEW start \in Pens, NEW so, NEW on, NEW c, Since(start, so), Follows(so, c, on)
  PROVE Since(start, on)
<1>1. /\ so \in Pens /\ on \in Pens
      /\ on.pos.row \in {so.pos.row, so.pos.row + 1} /\ start.pos.row <= so.pos.row
      /\ Display!Cell(start.pos) <= Display!Cell(so.pos)
      /\ Display!Cell(so.pos) <= Display!Cell(on.pos)
      /\ start.top <= so.top /\ so.top <= on.top
  BY Zenon DEF Since, Follows
<1>2. /\ Display!Ahead(on.pos, on.top)
      /\ on.over \subseteq so.over \union {0} /\ so.over \subseteq start.over \union {0}
  BY Zenon DEF Since, Follows
<1>3. /\ start.pos \in Positions /\ so.pos \in Positions /\ on.pos \in Positions
      /\ start.top \in Int /\ so.top \in Int /\ on.top \in Int
      /\ on.cells \subseteq Int
  BY <1>1 DEF Pens
<1>4. start.pos.row \in Nat /\ so.pos.row \in Nat
  BY <1>3 DEF Positions
<1>5. /\ Display!Cell(start.pos) \in Nat /\ Display!Cell(so.pos) \in Nat
      /\ Display!Cell(on.pos) \in Nat
  BY <1>3, Cells
<1>6. start.pos.row <= on.pos.row
  BY <1>1, <1>4
<1>7. Display!Cell(start.pos) <= Display!Cell(on.pos) /\ start.top <= on.top
  BY <1>1, <1>3, <1>5
<1>8. on.over \subseteq start.over \union {0}
  BY <1>2
<1>9. ASSUME NEW cell \in on.cells PROVE cell \in start.cells \/ Display!Cell(start.pos) <= cell
  <2>1. cell \in so.cells \/ Display!Cell(so.pos) <= cell
    BY Zenon DEF Follows
  <2>2. cell \in so.cells => cell \in start.cells \/ Display!Cell(start.pos) <= cell
    BY Zenon DEF Since
  <2>3. Display!Cell(so.pos) <= cell => Display!Cell(start.pos) <= cell
    BY <1>1, <1>3, <1>5
  <2> QED BY <2>1, <2>2, <2>3
<1> QED BY <1>1, <1>2, <1>6, <1>7, <1>8, <1>9, Zenon DEF Since

(* And all of a text, for as many rows as it may take.                     *)
LEMMA TypesSince ==
  ASSUME NEW start \in Pens, Display!Ahead(start.pos, start.top),
         NEW text, Len(text) \in Nat, NEW t, Types(t, start, text, Len(text)),
         NEW w, Rows(text, w), w[Len(text)] \in Nat, start.pos.row + w[Len(text)] < 255
  PROVE Since(start, t[Len(text)]) /\ t[Len(text)].pos.row <= start.pos.row + w[Len(text)]
<1> DEFINE S == {k \in Nat : k <= Len(text) => Since(start, t[k])
                                            /\ t[k].pos.row <= start.pos.row + w[k]}
<1>0. \A i \in 0..Len(text) : t[i] = IF i = 0 THEN start ELSE Display!Putc(t[i - 1], text[i])
  BY DEF Types
<1>1. /\ start.pos \in Positions /\ start.pos.row \in Nat /\ start.top \in Int /\ start.over \in SUBSET Int
      /\ start.cells \in SUBSET Int
  BY PenTypes, Zenon
<1>2. 0 \in S
  <2>1. t[0] = start
    BY <1>0
  <2>2. start.pos.row <= start.pos.row /\ Display!Cell(start.pos) <= Display!Cell(start.pos)
        /\ start.top <= start.top
    <3>1. Display!Cell(start.pos) \in Nat
      BY <1>1, Cells
    <3> QED BY <1>1, <3>1
  <2>3. Since(start, start)
    <3>1. start.over \subseteq start.over \union {0}
      OBVIOUS
    <3> QED BY <2>2, <3>1, Zenon DEF Since
  <2>4. start.pos.row <= start.pos.row + w[0]
    BY <1>1 DEF Rows
  <2> QED BY <2>1, <2>3, <2>4
<1>3. ASSUME NEW k \in Nat, k \in S PROVE k + 1 \in S
  <2> SUFFICES ASSUME k + 1 <= Len(text)
      PROVE Since(start, t[k + 1]) /\ t[k + 1].pos.row <= start.pos.row + w[k + 1]
    OBVIOUS
  <2>1. Since(start, t[k]) /\ t[k].pos.row <= start.pos.row + w[k]
    BY <1>3
  <2>2. t[k + 1] = Display!Putc(t[k], text[k + 1])
    <3>1. k + 1 \in 0..Len(text) /\ k + 1 # 0 /\ (k + 1) - 1 = k
      OBVIOUS
    <3> QED BY <1>0, <3>1, Zenon
  <2>3. t[k] \in Pens /\ Display!Ahead(t[k].pos, t[k].top) /\ t[k].pos.row \in Nat
    <3>1. t[k] \in Pens /\ Display!Ahead(t[k].pos, t[k].top)
      BY <2>1, Zenon DEF Since
    <3> QED BY <3>1, PenTypes, Zenon
  <2>4. w[k] \in Nat /\ w[k + 1] \in Nat /\ w[k] <= w[Len(text)]
        /\ w[k] + (IF text[k + 1] \in Display!Colors THEN 0 ELSE 1) <= w[k + 1]
    <3>1. k \in 0..Len(text) /\ k + 1 \in 0..Len(text) /\ k + 1 \in 1..Len(text) /\ (k + 1) - 1 = k
      OBVIOUS
    <3>2. w[k] \in 0..w[Len(text)] /\ w[k + 1] \in 0..w[Len(text)]
      BY <3>1, Zenon DEF Rows
    <3>3. w[k] + (IF text[k + 1] \in Display!Colors THEN 0 ELSE 1) <= w[k + 1]
      BY <3>1, Zenon DEF Rows
    <3> QED BY <3>2, <3>3
  <2>5. t[k].pos.row < 255
    BY <1>1, <2>1, <2>3, <2>4
  <2>6. Follows(t[k], text[k + 1], t[k + 1])
    BY <2>2, <2>3, <2>5, PutcFollows, Zenon
  <2>7. Since(start, t[k + 1])
    BY <2>1, <2>6, SinceFollows, Zenon
  <2>8. /\ t[k + 1].pos.row \in {t[k].pos.row, t[k].pos.row + 1}
        /\ text[k + 1] \in Display!Colors => t[k + 1].pos.row = t[k].pos.row
    BY <2>6, Zenon DEF Follows
  <2>9. t[k + 1].pos.row <= start.pos.row + w[k + 1]
    <3>1. PICK c : c = text[k + 1]
      OBVIOUS
    <3>2. PICK u : u = t[k + 1].pos.row
      OBVIOUS
    <3>3. u \in {t[k].pos.row, t[k].pos.row + 1} /\ (c \in Display!Colors => u = t[k].pos.row)
      BY <2>8, <3>1, <3>2, Zenon
    <3>4. w[k] + (IF c \in Display!Colors THEN 0 ELSE 1) <= w[k + 1]
      BY <2>4, <3>1, Zenon
    <3>5. t[k].pos.row + (IF c \in Display!Colors THEN 0 ELSE 1) <= start.pos.row + w[k + 1]
      <4>1. \A p, q, m, n, d \in Nat : p <= q + m /\ m + d <= n => p + d <= q + n
        OBVIOUS
      <4>2. (IF c \in Display!Colors THEN 0 ELSE 1) \in Nat
        OBVIOUS
      <4> QED BY <1>1, <2>1, <2>3, <2>4, <3>4, <4>1, <4>2, Zenon
    <3>6. u <= start.pos.row + w[k + 1]
      <4>1. w[k + 1] \in Nat /\ start.pos.row \in Nat /\ t[k].pos.row \in Nat
        BY <1>1, <2>3, <2>4
      <4> QED BY <3>3, <3>5, <4>1
    <3> QED BY <3>2, <3>6, Zenon
  <2> QED BY <2>7, <2>9
<1>4. Nat \subseteq S
  <2> HIDE DEF S
  <2> QED BY <1>2, <1>3, Induction, Zenon
<1>5. Len(text) \in S
  BY <1>4
<1> QED BY <1>5

(* From the cursor, then, nothing is drawn above it or over what is there  *)
(* but in column 0.                                                        *)
LEMMA Texts ==
  ASSUME NEW pos \in Positions, NEW color \in Display!Colors, NEW text, Len(text) \in Nat,
         NEW past \in Int, past = reach, Display!Ahead(pos, past),
         NEW w, Rows(text, w), w[Len(text)] \in Nat, pos.row + w[Len(text)] < 255
  PROVE \E so \in Pens :
          /\ so = Display!Typed(pos, color, text)
          /\ so.pos.row \in pos.row..(pos.row + w[Len(text)])
          /\ Display!Ahead(so.pos, so.top) /\ past <= so.top /\ so.over \subseteq {0}
          /\ \A cell \in so.cells : Display!Cell(pos) <= cell
<1>1. PICK t, start : 
        /\ start = [pos |-> pos, color |-> color, cells |-> {}, top |-> past, over |-> {}]
        /\ Types(t, start, text, Len(text))
        /\ Display!Typed(pos, color, text) = t[Len(text)]
  BY TypedIs, Zenon
<1>2. start \in Pens /\ start.pos = pos /\ start.top = past /\ start.over = {} /\ start.cells = {}
  BY <1>1 DEF Pens
<1>3. Since(start, t[Len(text)]) /\ t[Len(text)].pos.row <= start.pos.row + w[Len(text)]
  BY <1>1, <1>2, TypesSince, Zenon
<1>4. PICK so : so = t[Len(text)]
  OBVIOUS
<1>5. /\ so \in Pens /\ pos.row <= so.pos.row /\ Display!Ahead(so.pos, so.top) /\ past <= so.top
      /\ so.over \subseteq {} \union {0}
      /\ \A cell \in so.cells : cell \in {} \/ Display!Cell(pos) <= cell
      /\ so.pos.row <= pos.row + w[Len(text)]
  BY <1>2, <1>3, <1>4, Zenon DEF Since
<1>6. so.pos.row \in Nat /\ pos.row \in Nat
  BY <1>5, PenTypes, PositionTypes, Zenon
<1>7. so.pos.row \in pos.row..(pos.row + w[Len(text)])
  BY <1>5, <1>6
<1>8. so.over \subseteq {0} /\ \A cell \in so.cells : Display!Cell(pos) <= cell
  BY <1>5
<1> QED BY <1>1, <1>4, <1>5, <1>7, <1>8, Zenon

-----------------------------------------------------------------------------
(* Messages.                                                               *)

(* A text takes a row for each of its characters at most.                  *)
LEMMA AnyRows == ASSUME NEW text, Len(text) \in Nat
  PROVE \E w : Rows(text, w) /\ w[Len(text)] = Len(text)
<1> DEFINE w == [i \in 0..Len(text) |-> i]
<1>1. Rows(text, w) /\ w[Len(text)] = Len(text)
  BY DEF Rows
<1> QED BY <1>1

(* What the loop's messages do not disturb.                                *)
Writable ==
    /\ cursor_pos \in Positions /\ cur_color \in Display!Colors
    /\ reach \in Int /\ reach >= -1 /\ clobbered \subseteq {0}
    /\ Display!Ahead(cursor_pos, reach)

(* A message, from the row it starts in; nothing of it above that.         *)
TextBelow == drawn'.by = "text" /\ \A cell \in drawn'.cells : Display!Cell(cursor_pos) <= cell

Wrote(rows) ==
    /\ Writable'
    /\ cursor_pos'.row \in cursor_pos.row..(cursor_pos.row + rows)
    /\ TextBelow

(* Puts does this for a text that ends above the last row.                 *)
LEMMA PutsRows ==
  ASSUME Writable, NEW text, Len(text) \in Nat, Display!Puts(text),
         NEW w, Rows(text, w), w[Len(text)] \in Nat, cursor_pos.row + w[Len(text)] < 255
  PROVE Wrote(w[Len(text)])
<1>1. PICK pos, color, past : pos = cursor_pos /\ color = cur_color /\ past = reach
  OBVIOUS
<1>2. /\ pos \in Positions /\ color \in Display!Colors /\ past \in Int /\ past >= -1
      /\ Display!Ahead(pos, past)
  BY <1>1, Zenon DEF Writable
<1>3. PICK so \in Pens :
        /\ so = Display!Typed(pos, color, text)
        /\ so.pos.row \in pos.row..(pos.row + w[Len(text)])
        /\ Display!Ahead(so.pos, so.top) /\ past <= so.top /\ so.over \subseteq {0}
        /\ \A cell \in so.cells : Display!Cell(pos) <= cell
  BY <1>1, <1>2, Texts, Zenon
<1>4. /\ cursor_pos' = so.pos /\ cur_color' = so.color
      /\ drawn' = [by |-> "text", cells |-> so.cells]
      /\ reach' = so.top /\ clobbered' = clobbered \union so.over
  BY <1>1, <1>3, Zenon DEF Display!Puts
<1>5. so.pos \in Positions /\ so.color \in Display!Colors /\ so.top \in Int
  BY <1>3, PenTypes, Zenon
<1>6. so.top >= -1
  BY <1>2, <1>3, <1>5
<1>7. clobbered' \subseteq {0}
  BY <1>3, <1>4 DEF Writable
<1>8. drawn'.by = "text" /\ drawn'.cells = so.cells
  BY <1>4
<1>9. Display!Ahead(cursor_pos', reach')
  BY <1>3, <1>4, Zenon
<1>10. Writable'
  BY <1>4, <1>5, <1>6, <1>7, <1>9, Zenon DEF Writable
<1> QED BY <1>1, <1>3, <1>4, <1>8, <1>10, Zenon DEF Wrote, TextBelow

(* Any text, by its length.                                                *)
LEMMA PutsAny ==
  ASSUME Writable, NEW text, Display!Puts(text), NEW rows \in Nat, Len(text) \in 0..rows,
         cursor_pos.row + rows < 255
  PROVE Wrote(rows)
<1>1. PICK n : n = Len(text)
  OBVIOUS
<1>2. n \in Nat /\ n <= rows /\ Len(text) \in Nat
  BY <1>1
<1>3. PICK w : Rows(text, w) /\ w[Len(text)] = Len(text)
  BY <1>2, AnyRows, Zenon
<1>4. cursor_pos.row \in Nat
  BY PositionTypes, Zenon DEF Writable
<1>5. cursor_pos.row + n < 255
  BY <1>2, <1>4
<1>6. Wrote(w[Len(text)])
  BY <1>1, <1>2, <1>3, <1>5, PutsRows, Zenon
<1>7. Wrote(n)
  BY <1>1, <1>3, <1>6, Zenon
<1>8. cursor_pos'.row \in cursor_pos.row..(cursor_pos.row + n)
  BY <1>7, Zenon DEF Wrote
<1>9. cursor_pos'.row \in cursor_pos.row..(cursor_pos.row + rows)
  BY <1>2, <1>4, <1>8
<1> QED BY <1>7, <1>9, Zenon DEF Wrote

-----------------------------------------------------------------------------
(* The messages.                                                           *)
LEMMA ExecutingRows == \E w : Rows(Executing, w) /\ w[Len(Executing)] = 10 /\ Len(Executing) = 18
<1> DEFINE text == Executing
           w == [i \in 0..18 |-> IF i = 18 THEN 10 ELSE (i + 1) \div 2]
<1>1. Len(text) = 18
  BY DEF Executing
<1>2. \A i \in 1..18 : text[i] \in Display!Colors <=> i \in {2, 4, 6, 8, 10, 12, 14, 16}
  <2>1. /\ \A i \in {2, 4, 6, 8, 10, 12, 14, 16} : text[i] \in {"blue", "light_gray"}
        /\ \A i \in {1, 3, 5, 7, 9, 11, 13, 15, 17, 18} :
              text[i] \in {"e", "t", "i", "f", "(", "n", "o", "c", ")", "newline"}
    BY DEF Executing
  <2>2. 1..18 = {2, 4, 6, 8, 10, 12, 14, 16} \union {1, 3, 5, 7, 9, 11, 13, 15, 17, 18}
    OBVIOUS
  <2>3. {1, 3, 5, 7, 9, 11, 13, 15, 17, 18} \intersect {2, 4, 6, 8, 10, 12, 14, 16} = {}
    OBVIOUS
  <2>4. \A c \in {"e", "t", "i", "f", "(", "n", "o", "c", ")", "newline"} : c \notin Display!Colors
    BY DEF Display!Colors
  <2>5. {"blue", "light_gray"} \subseteq Display!Colors
    BY DEF Display!Colors
  <2> HIDE DEF text
  <2> QED BY <2>1, <2>2, <2>3, <2>4, <2>5
<1> HIDE DEF text
<1>3. ASSUME NEW i \in 1..18
      PROVE w[i - 1] + (IF text[i] \in Display!Colors THEN 0 ELSE 1) <= w[i]
  <2>1. i \in {1, 2, 3, 4, 5, 6, 7, 8, 9, 10, 11, 12, 13, 14, 15, 16, 17, 18}
    OBVIOUS
  <2>2. CASE i \in {2, 4, 6, 8, 10, 12, 14, 16}
    <3>1. w[i - 1] <= w[i] /\ w[i - 1] \in Nat
      BY <2>2
    <3> HIDE DEF w
    <3> QED BY <1>2, <2>2, <3>1
  <2>3. CASE i \notin {2, 4, 6, 8, 10, 12, 14, 16}
    <3>1. w[i - 1] + 1 <= w[i]
      BY <2>1, <2>3
    <3> HIDE DEF w
    <3> QED BY <1>2, <2>3, <3>1
  <2> QED BY <2>2, <2>3
<1>4. w[0] = 0 /\ w[18] = 10 /\ \A i \in 0..18 : w[i] \in 0..10
  OBVIOUS
<1> HIDE DEF w
<1>5. Rows(text, w)
  BY <1>1, <1>3, <1>4 DEF Rows
<1> QED BY <1>1, <1>4, <1>5 DEF text

Letters == {"|", "m", "newline", "blank", "f", "green", "Y", "light_gray", "red", "cannot_read"}

(* How long the messages are.                                              *)
LEMMA MessageLengths ==
  /\ Message \in Seq(Letters) /\ Len(Message) = 3
  /\ StateText \in Seq(Letters) /\ Len(StateText) = 5
  /\ <<"newline">> \in Seq(Letters) /\ Len(<<"newline">>) = 1
  /\ Len(DoneText) = 3
  /\ Len(<<"stage_2_finished", "newline", "newline", "blank">>) = 4
  /\ Len(<<"[", "b", "l", "t", "newline", "red", "TODO", "dark_gray", "newline">>) = 9
<1>1. Len(Message) = 3 /\ \A i \in 1..3 : Message[i] \in Letters
  BY DEF Message, Letters
<1>2. Len(StateText) = 5 /\ \A i \in 1..5 : StateText[i] \in Letters
  <2>1. Len(StateText) = 5
    BY DEF StateText
  <2>2. \A i \in {1, 2, 3, 4, 5} : StateText[i] \in Letters
    BY DEF StateText, Letters
  <2> QED BY <2>1, <2>2
<1>3. Message \in Seq(Letters)
  BY <1>1 DEF Message
<1>4. StateText \in Seq(Letters)
  BY <1>2 DEF StateText
<1>5. <<"newline">> \in Seq(Letters) /\ Len(<<"newline">>) = 1
  BY DEF Letters
<1>6. Len(DoneText) = 3
  BY DEF DoneText
<1>7. /\ Len(<<"stage_2_finished", "newline", "newline", "blank">>) = 4
      /\ Len(<<"[", "b", "l", "t", "newline", "red", "TODO", "dark_gray", "newline">>) = 9
  OBVIOUS
<1> QED BY <1>1, <1>2, <1>3, <1>4, <1>5, <1>6, <1>7

(* A message after another.                                                *)
LEMMA OneMore == ASSUME NEW s \in Seq(Letters)
  PROVE s \o Message \in Seq(Letters) /\ Len(s \o Message) = Len(s) + 3
<1>1. PICK m : m = Message
  OBVIOUS
<1>2. m \in Seq(Letters) /\ Len(m) = 3
  BY <1>1, MessageLengths, Zenon
<1>3. s \o m \in Seq(Letters) /\ Len(s \o m) = Len(s) + Len(m)
  BY <1>2, ConcatProperties, Zenon
<1> QED BY <1>1, <1>2, <1>3, Zenon

(* Messages one after another.                                             *)
LEMMA Lengths ==
  /\ Len(Message \o Message) = 6
  /\ Len(Message \o Message \o Message) = 9
  /\ Len(Message \o Message \o Message \o Message \o Message \o Message) = 18
<1>1. PICK m : m = Message
  OBVIOUS
<1>2. \A s \in Seq(Letters) : s \o m \in Seq(Letters) /\ Len(s \o m) = Len(s) + 3
  BY <1>1, OneMore, Zenon
<1>3. m \in Seq(Letters) /\ Len(m) = 3
  BY <1>1, MessageLengths, Zenon
<1>4. 3 + 3 = 6 /\ 6 + 3 = 9 /\ 9 + 3 = 12 /\ 12 + 3 = 15 /\ 15 + 3 = 18
  OBVIOUS
<1>5. m \o m \in Seq(Letters) /\ Len(m \o m) = 6
  BY <1>2, <1>3, <1>4, Zenon
<1>6. m \o m \o m \in Seq(Letters) /\ Len(m \o m \o m) = 9
  BY <1>2, <1>4, <1>5, Zenon
<1>7. m \o m \o m \o m \in Seq(Letters) /\ Len(m \o m \o m \o m) = 12
  BY <1>2, <1>4, <1>6, Zenon
<1>8. m \o m \o m \o m \o m \in Seq(Letters) /\ Len(m \o m \o m \o m \o m) = 15
  BY <1>2, <1>4, <1>7, Zenon
<1>9. Len(m \o m \o m \o m \o m \o m) = 18
  BY <1>2, <1>4, <1>8, Zenon
<1> QED BY <1>1, <1>5, <1>6, <1>9, Zenon

(* A list of features is as long as the features are many.                 *)
LEMMA FeaturesLength == ASSUME NEW states, NEW n \in Nat, Cardinality(states) \in 0..n
  PROVE /\ Len(FeaturesText(states)) \in 0..(4 + (5 * (n \div 4)))
        /\ FeaturesText(states) \in Seq(Letters)
<1>1. PICK k : k = Cardinality(states) \div 4
  OBVIOUS
<1>2. k \in Nat /\ k <= n \div 4
  BY <1>1
<1>3. PICK middle : middle = [i \in 1..(Len(StateText) * k) |-> StateText[1 + ((i - 1) % Len(StateText))]]
  OBVIOUS
<1>4. Len(StateText) = 5 /\ \A i \in 1..5 : StateText[i] \in Letters
  <2>1. PICK s : s = StateText
    OBVIOUS
  <2>2. s \in Seq(Letters)
    BY <2>1, MessageLengths, Zenon
  <2>3. \A i \in 1..Len(s) : s[i] \in Letters
    BY <2>2
  <2>4. Len(s) = 5
    BY <2>1, MessageLengths, Zenon
  <2> QED BY <2>1, <2>3, <2>4, Zenon
<1>5. \A i \in 1..(5 * k) : 1 + ((i - 1) % 5) \in 1..5
  BY <1>2
<1>6. middle = [i \in 1..(5 * k) |-> StateText[1 + ((i - 1) % 5)]]
  BY <1>3, <1>4, Zenon
<1>7. \A i \in 1..(5 * k) : StateText[1 + ((i - 1) % 5)] \in Letters
  BY <1>4, <1>5, Zenon
<1>8. middle \in Seq(Letters) /\ Len(middle) = 5 * k
  <2>1. middle \in [1..(5 * k) -> Letters]
    BY <1>6, <1>7
  <2> QED BY <1>2, <2>1
<1>9. FeaturesText(states) = Message \o middle \o <<"newline">>
  BY <1>1, <1>3, Zenon DEF FeaturesText
<1>10. PICK end : end = <<"newline">>
  OBVIOUS
<1>11. end \in Seq(Letters) /\ Len(end) = 1
  BY <1>10, MessageLengths, Zenon
<1>12. Message \o middle \in Seq(Letters) /\ Len(Message \o middle) = 3 + (5 * k)
  <2>1. PICK m : m = Message
    OBVIOUS
  <2>2. m \in Seq(Letters) /\ Len(m) = 3
    BY <2>1, MessageLengths, Zenon
  <2>3. m \o middle \in Seq(Letters) /\ Len(m \o middle) = Len(m) + Len(middle)
    BY <1>8, <2>2, ConcatProperties, Zenon
  <2> QED BY <1>8, <2>1, <2>2, <2>3, Zenon
<1>13. Len((Message \o middle) \o end) = (3 + (5 * k)) + 1
  <2>1. Len((Message \o middle) \o end) = Len(Message \o middle) + Len(end)
    BY <1>11, <1>12, ConcatProperties, Zenon
  <2> QED BY <1>11, <1>12, <2>1, Zenon
<1>14. Len(FeaturesText(states)) = 4 + (5 * k)
  BY <1>2, <1>9, <1>10, <1>13
<1>15. (Message \o middle) \o end \in Seq(Letters)
  BY <1>11, <1>12, ConcatProperties, Zenon
<1>16. FeaturesText(states) \in Seq(Letters)
  BY <1>9, <1>10, <1>15, Zenon
<1>17. Len(FeaturesText(states)) \in 0..(4 + (5 * (n \div 4)))
  BY <1>2, <1>14
<1> QED BY <1>16, <1>17, Zenon

(* As many features at most as there are fields.                           *)
LEMMA StatesBound ==
  ASSUME NEW struct, NEW n \in Nat, DOMAIN struct = 1..n, NEW reg
  PROVE /\ IsFiniteSet(Identify!States(struct, reg))
        /\ Cardinality(Identify!States(struct, reg)) \in 0..n
<1>1. PICK used, states : used = Identify!Used(struct) /\ states = Identify!States(struct, reg)
  OBVIOUS
<1>2. used \subseteq 1..n
  BY <1>1 DEF Identify!Used
<1>3. states = {<<struct[k][1], Identify!Offset(struct)[k] \in reg>> : k \in used}
  BY <1>1, Zenon DEF Identify!States
<1>4. IsFiniteSet(1..n) /\ Cardinality(1..n) = n
  <2>1. IsFiniteSet(1..n) /\ Cardinality(1..n) = IF 1 > n THEN 0 ELSE n - 1 + 1
    BY FS_Interval
  <2> QED BY <2>1
<1>5. IsFiniteSet(used) /\ Cardinality(used) <= n
  <2>1. used \in SUBSET (1..n)
    BY <1>2
  <2>2. IsFiniteSet(used) /\ Cardinality(used) <= Cardinality(1..n)
    BY <1>4, <2>1, FS_Subset, Zenon
  <2> QED BY <1>4, <2>2, Zenon
<1> DEFINE f == [k \in used |-> <<struct[k][1], Identify!Offset(struct)[k] \in reg>>]
<1>6. f \in Surjection(used, states)
  BY <1>3 DEF Surjection
<1>7. IsFiniteSet(states) /\ Cardinality(states) <= Cardinality(used)
  BY <1>5, <1>6, FS_Surjection, Zenon
<1>8. Cardinality(states) \in Nat /\ Cardinality(used) \in Nat
  BY <1>5, <1>7, FS_CardinalityType, Zenon
<1>9. Cardinality(states) \in 0..n
  BY <1>5, <1>7, <1>8
<1> QED BY <1>1, <1>7, <1>9, Zenon

(* So many that are new, at most.                                          *)
LEMMA Subtracted == ASSUME NEW S, NEW T, NEW n \in Nat, IsFiniteSet(S), Cardinality(S) \in 0..n
  PROVE Cardinality(S \ T) \in 0..n
<1>1. PICK U : U = S \ T
  OBVIOUS
<1>2. U \in SUBSET S
  BY <1>1
<1>3. IsFiniteSet(U) /\ Cardinality(U) <= Cardinality(S)
  BY <1>2, FS_Subset, Zenon
<1>4. Cardinality(U) \in Nat
  BY <1>3, FS_CardinalityType, Zenon
<1>5. Cardinality(U) \in 0..n
  BY <1>3, <1>4
<1> QED BY <1>1, <1>5, Zenon

(* The features of the extended leaf.                                      *)
LEMMA ExtraBound == ASSUME NEW c, NEW d, NEW before
  PROVE Cardinality((Identify!States(Identify!ExtraC, c) \union Identify!States(Identify!ExtraD, d)) \ before)
          \in 0..16
<1>1. PICK S, T : S = Identify!States(Identify!ExtraC, c) /\ T = Identify!States(Identify!ExtraD, d)
  OBVIOUS
<1>2. IsFiniteSet(S) /\ Cardinality(S) \in 0..6
  <2>1. DOMAIN Identify!ExtraC = 1..6
    BY DEF Identify!ExtraC
  <2> QED BY <1>1, <2>1, StatesBound
<1>3. IsFiniteSet(T) /\ Cardinality(T) \in 0..10
  <2>1. DOMAIN Identify!ExtraD = 1..10
    BY DEF Identify!ExtraD
  <2> QED BY <1>1, <2>1, StatesBound
<1>4. IsFiniteSet(S \union T)
      /\ Cardinality(S \union T) = Cardinality(S) + Cardinality(T) - Cardinality(S \intersect T)
  BY <1>2, <1>3, FS_Union, Zenon
<1>5. Cardinality(S \intersect T) \in Nat
  <2>1. S \intersect T \in SUBSET S
    OBVIOUS
  <2>2. IsFiniteSet(S \intersect T)
    BY <1>2, <2>1, FS_Subset, Zenon
  <2> QED BY <2>2, FS_CardinalityType, Zenon
<1>6. Cardinality(S \union T) \in Nat
  BY <1>4, FS_CardinalityType, Zenon
<1>7. Cardinality(S \union T) \in 0..16
  BY <1>2, <1>3, <1>4, <1>5, <1>6
<1>8. 16 \in Nat
  OBVIOUS
<1>9. Cardinality((S \union T) \ before) \in 0..16
  BY <1>4, <1>7, <1>8, Subtracted, Zenon
<1> QED BY <1>1, <1>9, Zenon

(* Those of leaf 1.                                                        *)
LEMMA FeaturesBound == ASSUME NEW reg, NEW before
  PROVE Cardinality(Identify!States(Identify!Pfeatures, reg) \ before) \in 0..64
<1>1. DOMAIN Identify!Pfeatures = 1..64
  BY SMTT(60) DEF Identify!Pfeatures, Identify!One
<1>2. 64 \in Nat
  OBVIOUS
<1>3. IsFiniteSet(Identify!States(Identify!Pfeatures, reg))
      /\ Cardinality(Identify!States(Identify!Pfeatures, reg)) \in 0..64
  BY <1>1, <1>2, StatesBound, Zenon
<1> QED BY <1>2, <1>3, Subtracted, Zenon

-----------------------------------------------------------------------------
(* The rows of the tasks.                                                  *)

(* They add up.                                                            *)
LEMMA Tables ==
  /\ \A k \in 1..8 : Before[k] \in 2..250
  /\ \A k \in 1..7 : RowsOf[k] \in 3..88 /\ Before[k + 1] = Before[k] + RowsOf[k] + 13
  /\ Before[1] = 2 /\ Before[8] = 250
  /\ RowsOf[1] = 9 /\ RowsOf[2] = 3 /\ RowsOf[3] = 24 /\ RowsOf[4] = 88 /\ RowsOf[5] = 12
  /\ RowsOf[6] = 3 /\ RowsOf[7] = 18
<1>1. /\ Before[1] = 2 /\ Before[2] = 24 /\ Before[3] = 40 /\ Before[4] = 77 /\ Before[5] = 178
      /\ Before[6] = 203 /\ Before[7] = 219 /\ Before[8] = 250
  BY DEF Before
<1>2. /\ RowsOf[1] = 9 /\ RowsOf[2] = 3 /\ RowsOf[3] = 24 /\ RowsOf[4] = 88 /\ RowsOf[5] = 12
      /\ RowsOf[6] = 3 /\ RowsOf[7] = 18
  BY DEF RowsOf
<1>3. \A k \in {1, 2, 3, 4, 5, 6, 7, 8} : Before[k] \in 2..250
  BY <1>1
<1>4. \A k \in {1, 2, 3, 4, 5, 6, 7} : RowsOf[k] \in 3..88 /\ Before[k + 1] = Before[k] + RowsOf[k] + 13
  BY <1>1, <1>2
<1>5. 1..8 = {1, 2, 3, 4, 5, 6, 7, 8} /\ 1..7 = {1, 2, 3, 4, 5, 6, 7}
  OBVIOUS
<1> QED BY <1>1, <1>2, <1>3, <1>4, <1>5, Zenon

(* The tasks in their order.                                               *)
LEMMA TaskNames ==
  /\ Count = 7
  /\ Tasks[1] = "set_memory_size" /\ Tasks[2] = "cpuid_0x80000000" /\ Tasks[3] = "cpuid_0x80000001"
  /\ Tasks[4] = "cpuid_1" /\ Tasks[5] = "a20" /\ Tasks[6] = "gdt_setup" /\ Tasks[7] = "disk_props"
BY DEF Count, Tasks

(* The screen is ready for a text.                                         *)
LEMMA CanWrite == ASSUME Display!TypeOK, ScreenOK PROVE Writable
<1>1. /\ cursor_pos \in Positions /\ cur_color \in Display!Colors
      /\ reach \in Int /\ reach >= -1
  BY Zenon DEF Display!TypeOK, Positions
<1>2. clobbered \subseteq {0} /\ Display!Ahead(cursor_pos, reach)
  BY Zenon DEF ScreenOK, OnlyWrapsClobber, Display!OnlyWrapsClobber
<1> QED BY <1>1, <1>2, Zenon DEF Writable

(* What a text leaves of the invariant.                                    *)
LEMMA WroteTyped == ASSUME Display!TypeOK, NEW rows, Wrote(rows), UNCHANGED progress_cursor
  PROVE Display!TypeOK'
<1>1. /\ cursor_pos' \in Positions /\ cur_color' \in Display!Colors
      /\ reach' \in Int /\ reach' >= -1 /\ clobbered' \subseteq {0} /\ drawn'.by = "text"
  BY Zenon DEF Wrote, Writable, TextBelow
<1>2. progress_cursor' \in Positions
  BY Zenon DEF Display!TypeOK, Positions
<1>3. clobbered' \subseteq 0..(Columns - 1)
  BY <1>1, ScreenAssumption
<1>4. drawn'.by \in {"text", "bar"}
  BY <1>1
<1> QED BY <1>1, <1>2, <1>3, <1>4, Zenon DEF Display!TypeOK, Positions

(* And of the rows that the task may take.                                 *)
LEMMA WroteKeeps ==
  ASSUME ScreenOK, at # "begin", at' # "begin", UNCHANGED progress_cursor,
         NEW rows \in Nat, Wrote(rows), NEW last \in Nat, LastRow <= last,
         LastRow \in Nat, LastRow' \in Nat, last + rows <= LastRow'
  PROVE ScreenOK'
<1>1. /\ clobbered' \subseteq {0} /\ Display!Ahead(cursor_pos', reach')
      /\ cursor_pos'.row \in cursor_pos.row..(cursor_pos.row + rows)
  BY Zenon DEF Wrote, Writable
<1>2. progress_cursor = [row |-> 1, column |-> 1] /\ cursor_pos.row \in 2..LastRow
  BY Zenon DEF ScreenOK
<1>3. PICK limit, limit1, row, row1 :
        /\ limit = LastRow /\ limit1 = LastRow'
        /\ row = cursor_pos.row /\ row1 = cursor_pos'.row
  OBVIOUS
<1>4. /\ row \in 2..limit /\ row1 \in row..(row + rows) /\ limit \in Nat /\ limit1 \in Nat
      /\ limit <= last /\ last + rows <= limit1
  BY <1>1, <1>2, <1>3, Zenon
<1>5. row1 \in 2..limit1
  BY <1>4
<1>6. cursor_pos'.row \in 2..LastRow'
  BY <1>3, <1>5, Zenon
<1>7. Display!Ahead(cursor_pos, reach)' /\ OnlyWrapsClobber'
  BY <1>1, Zenon DEF Display!Ahead, Display!Cell, OnlyWrapsClobber, Display!OnlyWrapsClobber
<1> QED BY <1>2, <1>6, <1>7, Zenon DEF ScreenOK

(* A message of the loop or of a task, which leaves the rows it may need.  *)
LEMMA MessageKeeps ==
  ASSUME Display!TypeOK, ScreenOK, at # "begin", at' # "begin", UNCHANGED progress_cursor,
         NEW text, Display!Puts(text), NEW rows \in Nat, Len(text) \in 0..rows,
         LastRow \in Nat, LastRow' \in Nat, LastRow + rows <= LastRow', LastRow + rows < 255
  PROVE Display!TypeOK' /\ ScreenOK' /\ TextBelow
<1>1. Writable
  BY CanWrite, Zenon
<1>2. cursor_pos.row \in 2..LastRow
  BY Zenon DEF ScreenOK
<1>3. PICK limit, row : limit = LastRow /\ row = cursor_pos.row
  OBVIOUS
<1>4. row \in 2..limit /\ limit \in Nat /\ limit + rows < 255
  BY <1>2, <1>3, Zenon
<1>5. row + rows < 255
  BY <1>4
<1>6. Wrote(rows)
  BY <1>1, <1>3, <1>5, PutsAny, Zenon
<1>7. limit <= limit
  BY <1>4
<1>8. ScreenOK'
  BY <1>3, <1>4, <1>6, <1>7, WroteKeeps, Zenon
<1>9. TextBelow
  BY <1>6, Zenon DEF Wrote
<1> QED BY <1>6, <1>8, <1>9, WroteTyped, Zenon

-----------------------------------------------------------------------------
(* The loop.                                                               *)

(* Where the loop is, and what it has on the screen.                       *)
LoopTyped == /\ current_task \in 0..(Count + 1)
             /\ at \in {"begin", "bar", "executing", "task", "done", "finished", "end"}
Shown == Display!TypeOK /\ LoopTyped /\ LoopOK /\ ScreenOK

(* One of its entries.                                                     *)
LEMMA TableAt == ASSUME NEW k \in 1..7
  PROVE /\ Before[k] \in 2..250 /\ RowsOf[k] \in 3..88
        /\ Before[k + 1] = Before[k] + RowsOf[k] + 13 /\ Before[k + 1] \in 2..250
<1>1. k \in 1..8 /\ k + 1 \in 1..8
  OBVIOUS
<1>2. Before[k] \in 2..250 /\ Before[k + 1] \in 2..250
  <2>1. \A j \in 1..8 : Before[j] \in 2..250
    BY Tables, Zenon
  <2> QED BY <1>1, <2>1, Zenon
<1>3. RowsOf[k] \in 3..88 /\ Before[k + 1] = Before[k] + RowsOf[k] + 13
  BY Tables, Zenon
<1> QED BY <1>2, <1>3, Zenon

(* The task the loop is at.                                                *)
LEMMA LoopPlace == ASSUME LoopTyped, LoopOK, at # "begin"
  PROVE /\ current_task \in 1..8
        /\ at \in {"executing", "task", "done"} => current_task \in 1..7
        /\ at \in {"finished", "end"} => current_task = 8
BY TaskNames DEF LoopTyped, LoopOK

(* A task's message, and where the loop goes then.                         *)
LEMMA TaskMessage ==
  ASSUME Shown, at = "task", at' = "done", UNCHANGED <<current_task, progress_cursor>>,
         current_task # 5,
         NEW text, Display!Puts(text), Len(text) \in 0..RowsOf[current_task]
  PROVE Shown' /\ TextBelow
<1>1. current_task \in 1..7 /\ at # "begin" /\ at' # "begin" /\ Count = 7
  <2>1. at # "begin" /\ at' # "begin"
    OBVIOUS
  <2> QED BY <2>1, LoopPlace, TaskNames DEF Shown
<1>2. PICK rows, base : rows = RowsOf[current_task] /\ base = Before[current_task]
  OBVIOUS
<1>3. rows \in 3..88 /\ base \in 2..250 /\ base + rows + 13 \in 2..250
  <2>0. /\ Before[current_task] \in 2..250 /\ RowsOf[current_task] \in 3..88
        /\ Before[current_task + 1] = Before[current_task] + RowsOf[current_task] + 13
        /\ Before[current_task + 1] \in 2..250
    BY <1>1, TableAt, Zenon
  <2>1. base \in 2..250 /\ rows \in 3..88
        /\ Before[current_task + 1] = base + rows + 13 /\ Before[current_task + 1] \in 2..250
    BY <1>2, <2>0, Zenon
  <2> QED BY <2>1
<1>4. LastRow = base + 10
  <2>1. LastRow = Before[current_task] + 10
    BY <1>1 DEF LastRow
  <2> QED BY <1>2, <2>1, Zenon
<1>5. LastRow' = base + 10 + rows
  <2>1. LastRow' = Before[current_task] + 10 + RowsOf[current_task]
    BY <1>1 DEF LastRow
  <2> QED BY <1>2, <2>1, Zenon
<1>6. /\ LastRow \in Nat /\ LastRow' \in Nat /\ rows \in Nat
      /\ LastRow + rows <= LastRow' /\ LastRow + rows < 255
  BY <1>3, <1>4, <1>5
<1>7. Len(text) \in 0..rows
  BY <1>2, Zenon
<1>8. Display!TypeOK' /\ ScreenOK' /\ TextBelow
  BY <1>1, <1>6, <1>7, MessageKeeps, Zenon DEF Shown
<1>9. LoopTyped' /\ LoopOK'
  BY <1>1 DEF LoopTyped, LoopOK
<1> QED BY <1>8, <1>9, Zenon DEF Shown

(* Before a task.                                                          *)
LEMMA ExecutingKeeps == ASSUME Shown, PrintExecuting PROVE Shown' /\ TextBelow
<1>1. /\ at = "executing" /\ at' = "task" /\ UNCHANGED <<current_task, progress_cursor>>
      /\ Display!Puts(Executing) /\ at # "begin" /\ at' # "begin"
  BY DEF PrintExecuting, Go
<1>2. current_task \in 1..7 /\ Count = 7
  BY <1>1, LoopPlace, TaskNames DEF Shown
<1>3. PICK base, last, last1 : base = Before[current_task] /\ last = LastRow /\ last1 = LastRow'
  OBVIOUS
<1>4. base \in 2..250 /\ base + 13 < 255
  <2>0. /\ Before[current_task] \in 2..250 /\ RowsOf[current_task] \in 3..88
        /\ Before[current_task + 1] = Before[current_task] + RowsOf[current_task] + 13
        /\ Before[current_task + 1] \in 2..250
    BY <1>2, TableAt, Zenon
  <2>1. PICK rows : rows = RowsOf[current_task]
    OBVIOUS
  <2>2. base \in 2..250 /\ rows \in 3..88
        /\ Before[current_task + 1] = base + rows + 13 /\ Before[current_task + 1] \in 2..250
    BY <1>3, <2>0, <2>1, Zenon
  <2> QED BY <2>2
<1>5. last = base
  <2>1. LastRow = Before[current_task]
    BY <1>1 DEF LastRow
  <2> QED BY <1>3, <2>1, Zenon
<1>6. last1 = base + 10 \/ last1 = base + 19
  <2>1. LastRow' = Before[current_task] + 10 \/ LastRow' = Before[current_task] + 19
    BY <1>1 DEF LastRow
  <2> QED BY <1>3, <2>1, Zenon
<1>7. Writable /\ cursor_pos.row \in 2..LastRow
  BY <1>1, CanWrite, Zenon DEF Shown, ScreenOK
<1>8. PICK w : Rows(Executing, w) /\ w[Len(Executing)] = 10 /\ Len(Executing) = 18
  BY ExecutingRows, Zenon
<1>9. cursor_pos.row + 10 < 255
  <2>1. PICK row : row = cursor_pos.row
    OBVIOUS
  <2>2. row \in 2..last
    BY <1>3, <1>7, <2>1, Zenon
  <2>3. row + 10 < 255
    BY <1>4, <1>5, <2>2
  <2> QED BY <2>1, <2>3, Zenon
<1>10. Wrote(10)
  <2>1. 10 \in Nat /\ 18 \in Nat
    OBVIOUS
  <2> QED BY <1>1, <1>7, <1>8, <1>9, <2>1, PutsRows, Zenon
<1>11. 10 \in Nat /\ last \in Nat /\ last1 \in Nat /\ last <= last /\ last + 10 <= last1
  BY <1>4, <1>5, <1>6
<1>12. ScreenOK'
  BY <1>1, <1>3, <1>10, <1>11, WroteKeeps, Zenon DEF Shown
<1>13. Display!TypeOK'
  BY <1>1, <1>10, WroteTyped, Zenon DEF Shown
<1>14. LoopTyped' /\ LoopOK'
  BY <1>1, <1>2 DEF LoopTyped, LoopOK
<1>15. TextBelow
  BY <1>10, Zenon DEF Wrote
<1> QED BY <1>12, <1>13, <1>14, <1>15, Zenon DEF Shown

(* After a task.                                                           *)
LEMMA DoneKeeps == ASSUME Shown, PrintDone PROVE Shown' /\ TextBelow
<1>1. /\ at = "done" /\ at' = "bar" /\ current_task' = current_task + 1 /\ UNCHANGED progress_cursor
      /\ Display!Puts(DoneText) /\ at # "begin" /\ at' # "begin"
  BY DEF PrintDone
<1>2. current_task \in 1..7 /\ Count = 7
  BY <1>1, LoopPlace, TaskNames DEF Shown
<1>3. PICK base, next, rows : base = Before[current_task] /\ next = Before[current_task + 1]
                              /\ rows = RowsOf[current_task]
  OBVIOUS
<1>4. base \in 2..250 /\ next \in 2..250 /\ rows \in 3..88 /\ next = base + rows + 13
  <2>0. /\ Before[current_task] \in 2..250 /\ RowsOf[current_task] \in 3..88
        /\ Before[current_task + 1] = Before[current_task] + RowsOf[current_task] + 13
        /\ Before[current_task + 1] \in 2..250
    BY <1>2, TableAt, Zenon
  <2> QED BY <1>3, <2>0, Zenon
<1>5. LastRow = base + 10 + rows
  <2>1. LastRow = Before[current_task] + 10 + RowsOf[current_task]
    BY <1>1 DEF LastRow
  <2> QED BY <1>3, <2>1, Zenon
<1>6. LastRow' = next
  <2>1. LastRow' = Before[current_task + 1]
    BY <1>1 DEF LastRow
  <2> QED BY <1>3, <2>1, Zenon
<1>7. /\ LastRow \in Nat /\ LastRow' \in Nat /\ 3 \in Nat
      /\ LastRow + 3 <= LastRow' /\ LastRow + 3 < 255
  BY <1>4, <1>5, <1>6
<1>8. Len(DoneText) \in 0..3
  <2>1. 3 \in 0..3
    OBVIOUS
  <2> QED BY <2>1, MessageLengths, Zenon
<1>9. Display!TypeOK' /\ ScreenOK' /\ TextBelow
  BY <1>1, <1>7, <1>8, MessageKeeps, Zenon DEF Shown
<1>10. LoopTyped' /\ LoopOK'
  BY <1>1, <1>2 DEF LoopTyped, LoopOK
<1> QED BY <1>9, <1>10, Zenon DEF Shown

(* After all of them.                                                      *)
LEMMA FinishKeeps == ASSUME Shown, Finish PROVE Shown' /\ TextBelow
<1> DEFINE text == <<"stage_2_finished", "newline", "newline", "blank">>
<1>1. /\ at = "finished" /\ at' = "end" /\ UNCHANGED <<current_task, progress_cursor>>
      /\ Display!Puts(text) /\ at # "begin" /\ at' # "begin"
  BY DEF Finish, Go
<1>2. current_task = 8 /\ Count = 7
  BY <1>1, LoopPlace, TaskNames DEF Shown
<1>3. LastRow = 250 /\ LastRow' = 254
  BY <1>1, <1>2, Tables DEF LastRow
<1>4. /\ LastRow \in Nat /\ LastRow' \in Nat /\ 4 \in Nat
      /\ LastRow + 4 <= LastRow' /\ LastRow + 4 < 255
  BY <1>3
<1>5. Len(text) \in 0..4
  BY MessageLengths
<1> HIDE DEF text
<1>6. Display!TypeOK' /\ ScreenOK' /\ TextBelow
  BY <1>1, <1>4, <1>5, MessageKeeps, Zenon DEF Shown
<1>7. LoopTyped' /\ LoopOK'
  BY <1>1, <1>2 DEF LoopTyped, LoopOK
<1> QED BY <1>6, <1>7, Zenon DEF Shown

(* The bar moves nothing.                                                  *)
LEMMA BarKeeps == ASSUME Shown, ProgressBar PROVE Shown'
<1>1. /\ at = "bar" /\ at' = (IF current_task > Count THEN "finished" ELSE "executing")
      /\ UNCHANGED current_task /\ at # "begin" /\ at' # "begin"
      /\ cur_color' = cur_color /\ UNCHANGED <<cursor_pos, progress_cursor, reach, clobbered>>
      /\ drawn'.by = "bar"
  BY DEF ProgressBar, Go, Display!UpdateProgressBar, Display!ColorRestored
<1>2. current_task \in 1..8 /\ Count = 7
  BY <1>1, LoopPlace, TaskNames DEF Shown
<1>3. LastRow = Before[current_task] /\ LastRow' = Before[current_task]
  BY <1>1 DEF LastRow
<1>4. LastRow' = LastRow
  BY <1>3, Zenon
<1>5. Display!TypeOK'
  <2>1. drawn'.by \in {"text", "bar"}
    BY <1>1
  <2> QED BY <1>1, <2>1, Zenon DEF Shown, Display!TypeOK
<1>6. ScreenOK'
  <2>1. Display!Ahead(cursor_pos, reach)' /\ OnlyWrapsClobber'
    BY <1>1, Zenon DEF Shown, ScreenOK, Display!Ahead, Display!Cell, OnlyWrapsClobber, Display!OnlyWrapsClobber
  <2> QED BY <1>1, <1>4, <2>1, Zenon DEF Shown, ScreenOK
<1>7. LoopTyped' /\ LoopOK'
  BY <1>1, <1>2 DEF LoopTyped, LoopOK
<1> QED BY <1>5, <1>6, <1>7, Zenon DEF Shown

-----------------------------------------------------------------------------
(* The tasks.                                                              *)
LEMMA SimpleTasksKeep == ASSUME Shown, SetMemorySize \/ GdtSetup \/ DiskProps PROVE Shown' /\ TextBelow
<1>1. CASE SetMemorySize
  <2>1. /\ at = "task" /\ at' = "done" /\ UNCHANGED <<current_task, progress_cursor>>
        /\ Tasks[current_task] = "set_memory_size"
    BY <1>1 DEF SetMemorySize, Running, Go
  <2>2. PICK text : Display!Puts(text) /\ Len(text) \in 0..9
    <3>1. Len(Message \o Message) \in 0..9
          /\ Len(<<"[", "b", "l", "t", "newline", "red", "TODO", "dark_gray", "newline">>) \in 0..9
      <4>1. 6 \in 0..9 /\ 9 \in 0..9
        OBVIOUS
      <4> QED BY <4>1, Lengths, MessageLengths, Zenon
    <3> QED BY <1>1, <3>1, Zenon DEF SetMemorySize
  <2>3. current_task = 1
    BY <2>1, LoopPlace, TaskNames DEF Shown
  <2>4. RowsOf[current_task] = 9 /\ current_task # 5
    BY <2>3, Tables
  <2> QED BY <2>1, <2>2, <2>4, TaskMessage, Zenon
<1>2. CASE GdtSetup
  <2>1. /\ at = "task" /\ at' = "done" /\ UNCHANGED <<current_task, progress_cursor>>
        /\ Tasks[current_task] = "gdt_setup" /\ Display!Puts(Message)
    BY <1>2 DEF GdtSetup, Running, Go
  <2>2. Len(Message) \in 0..3
    <3>1. 3 \in 0..3
      OBVIOUS
    <3> QED BY <3>1, MessageLengths, Zenon
  <2>3. current_task = 6
    BY <2>1, LoopPlace, TaskNames DEF Shown
  <2>4. RowsOf[current_task] = 3 /\ current_task # 5
    BY <2>3, Tables
  <2> QED BY <2>1, <2>2, <2>4, TaskMessage, Zenon
<1>3. CASE DiskProps
  <2>1. /\ at = "task" /\ at' = "done" /\ UNCHANGED <<current_task, progress_cursor>>
        /\ Tasks[current_task] = "disk_props"
    BY <1>3 DEF DiskProps, Running, Go
  <2>2. PICK text : Display!Puts(text) /\ Len(text) \in 0..18
    <3>1. Len(Message \o Message \o Message \o Message \o Message \o Message) \in 0..18
      <4>1. 18 \in 0..18
        OBVIOUS
      <4> QED BY <4>1, Lengths, Zenon
    <3>2. Len(Message \o <<"red", "cannot_read", "light_gray", "newline">>) \in 0..18
      <4>1. PICK error : error = <<"red", "cannot_read", "light_gray", "newline">>
        OBVIOUS
      <4>2. error \in Seq(Letters)
        BY <4>1 DEF Letters
      <4>3. Len(error) = 4
        BY <4>1
      <4>4. Len(Message \o error) = Len(Message) + Len(error)
        BY <4>2, MessageLengths, ConcatProperties, Zenon
      <4>5. 3 + 4 \in 0..18
        OBVIOUS
      <4> QED BY <4>1, <4>3, <4>4, <4>5, MessageLengths, Zenon
    <3> QED BY <1>3, <3>1, <3>2, Zenon DEF DiskProps
  <2>3. current_task = 7
    BY <2>1, LoopPlace, TaskNames DEF Shown
  <2>4. RowsOf[current_task] = 18 /\ current_task # 5
    BY <2>3, Tables
  <2> QED BY <2>1, <2>2, <2>4, TaskMessage, Zenon
<1> QED BY <1>1, <1>2, <1>3

(* The lists of features, of 8, 8 and 64 fields.                           *)
LEMMA CpuidTaskKeeps == ASSUME Shown, CpuidTask PROVE Shown' /\ TextBelow
<1> DEFINE text == CpuidText
<1>1. /\ at = "task" /\ at' = "done" /\ UNCHANGED <<current_task, progress_cursor>>
      /\ Tasks[current_task] = task /\ Identify!Next /\ Display!Puts(text)
  BY DEF CpuidTask, Running
<1>2. /\ printed' = printed => Len(text) \in 0..3
      /\ printed' # printed /\ task = "cpuid_1" => text = TwoLines \o FeaturesText(printed' \ printed)
      /\ printed' # printed /\ task # "cpuid_1" => text = FeaturesText(printed' \ printed)
  <2>1. 3 \in 0..3
    OBVIOUS
  <2>2. printed' = printed => text = Message
    BY DEF CpuidText
  <2>3. Len(Message) \in 0..3
    BY <2>1, MessageLengths, Zenon
  <2>4. /\ printed' # printed /\ task = "cpuid_1" => text = TwoLines \o FeaturesText(printed' \ printed)
        /\ printed' # printed /\ task # "cpuid_1" => text = FeaturesText(printed' \ printed)
    BY DEF CpuidText
  <2> HIDE DEF text
  <2>5. printed' = printed => Len(text) \in 0..3
    BY <2>2, <2>3
  <2> QED BY <2>4, <2>5, Zenon
<1>3. current_task \in 1..7
  BY <1>1, LoopPlace DEF Shown
<1>4. CASE Identify!Cpuid0x80000000
  <2>1. printed' = printed /\ task = "cpuid_0x80000000"
    BY <1>4 DEF Identify!Cpuid0x80000000
  <2>2. current_task = 2
    BY <1>1, <1>3, <2>1, TaskNames
  <2>3. RowsOf[current_task] = 3 /\ current_task # 5
    BY <2>2, Tables
  <2>4. Len(text) \in 0..3
    BY <1>2, <2>1, Zenon
  <2> HIDE DEF text
  <2> QED BY <1>1, <2>3, <2>4, TaskMessage, Zenon
<1>5. CASE Identify!Cpuid0x80000001
  <2>1. /\ task = "cpuid_0x80000001"
        /\ \/ printed' = printed
           \/ printed' = Identify!States(Identify!ExtraC, cpu.cx) \union Identify!States(Identify!ExtraD, cpu.dx)
    BY <1>5, Zenon DEF Identify!Cpuid0x80000001
  <2>2. current_task = 3
    BY <1>1, <1>3, <2>1, TaskNames
  <2>3. RowsOf[current_task] = 24 /\ current_task # 5
    BY <2>2, Tables
  <2>4. Len(text) \in 0..24
    <3>1. CASE printed' = printed
      <4>1. Len(text) \in 0..3
        BY <1>2, <3>1, Zenon
      <4> HIDE DEF text
      <4> QED BY <4>1
    <3>2. CASE printed' # printed
      <4>1. PICK c, d : c = cpu.cx /\ d = cpu.dx
        OBVIOUS
      <4>2. Cardinality((Identify!States(Identify!ExtraC, c) \union Identify!States(Identify!ExtraD, d)) \ printed)
              \in 0..16
        BY ExtraBound, Zenon
      <4>3. Cardinality(printed' \ printed) \in 0..16 /\ 16 \in Nat
        <5>1. printed' = Identify!States(Identify!ExtraC, c) \union Identify!States(Identify!ExtraD, d)
          BY <2>1, <3>2, <4>1, Zenon
        <5>2. 16 \in Nat
          OBVIOUS
        <5> QED BY <4>2, <5>1, <5>2, Zenon
      <4>4. Len(FeaturesText(printed' \ printed)) \in 0..(4 + (5 * (16 \div 4)))
        BY <4>3, FeaturesLength, Zenon
      <4>5. 4 + (5 * (16 \div 4)) = 24
        OBVIOUS
      <4>6. task # "cpuid_1"
        BY <2>1
      <4> QED BY <1>2, <3>2, <4>4, <4>5, <4>6, Zenon
    <3> QED BY <3>1, <3>2
  <2> HIDE DEF text
  <2> QED BY <1>1, <2>3, <2>4, TaskMessage, Zenon
<1>6. CASE Identify!Cpuid1
  <2>1. PICK reg : task = "cpuid_1" /\ printed' = printed \union Identify!States(Identify!Pfeatures, reg)
    BY <1>6, Zenon DEF Identify!Cpuid1
  <2>2. current_task = 4
    BY <1>1, <1>3, <2>1, TaskNames
  <2>3. RowsOf[current_task] = 88 /\ current_task # 5
    BY <2>2, Tables
  <2>4. Len(text) \in 0..88
    <3>1. CASE printed' = printed
      <4>1. Len(text) \in 0..3
        BY <1>2, <3>1, Zenon
      <4> HIDE DEF text
      <4> QED BY <4>1
    <3>2. CASE printed' # printed
      <4>1. Cardinality(Identify!States(Identify!Pfeatures, reg) \ printed) \in 0..64
        BY FeaturesBound, Zenon
      <4>2. printed' \ printed = Identify!States(Identify!Pfeatures, reg) \ printed
        BY <2>1
      <4>3. Cardinality(printed' \ printed) \in 0..64 /\ 64 \in Nat
        <5>1. 64 \in Nat
          OBVIOUS
        <5> QED BY <4>1, <4>2, <5>1, Zenon
      <4>4. Len(FeaturesText(printed' \ printed)) \in 0..(4 + (5 * (64 \div 4)))
        BY <4>3, FeaturesLength, Zenon
      <4>5. 4 + (5 * (64 \div 4)) = 84
        OBVIOUS
      <4>6. text = TwoLines \o FeaturesText(printed' \ printed)
        BY <1>2, <2>1, <3>2, Zenon
      <4>7. Len(FeaturesText(printed' \ printed)) \in 0..84
        BY <4>4, <4>5, Zenon
      <4>8. PICK list : list = FeaturesText(printed' \ printed)
        OBVIOUS
      <4>9. list \in Seq(Letters)
        BY <4>8, <4>3, FeaturesLength, Zenon
      <4>10. TwoLines \in Seq(Letters) /\ Len(TwoLines) = 4
        BY DEF TwoLines, Letters
      <4>11. Len(text) = 4 + Len(list)
        <5>1. Len(TwoLines \o list) = Len(TwoLines) + Len(list)
          BY <4>9, <4>10, ConcatProperties, Zenon
        <5> HIDE DEF text
        <5> QED BY <4>6, <4>8, <4>10, <5>1, Zenon
      <4>12. Len(list) \in 0..84
        BY <4>7, <4>8, Zenon
      <4>13. PICK k : k = Len(list)
        OBVIOUS
      <4>14. k \in 0..84 /\ Len(text) = 4 + k
        <5> HIDE DEF text
        <5> QED BY <4>11, <4>12, <4>13, Zenon
      <4>15. 4 + k \in 0..88
        BY <4>14
      <4> HIDE DEF text
      <4> QED BY <4>14, <4>15, Zenon
    <3> QED BY <3>1, <3>2
  <2> HIDE DEF text
  <2> QED BY <1>1, <2>3, <2>4, TaskMessage, Zenon
<1> QED BY <1>1, <1>4, <1>5, <1>6 DEF Identify!Next

(* The texts of a20, before each way and after it.                         *)
LEMMA A20TaskKeeps == ASSUME Shown, A20Task PROVE Shown' /\ TextBelow
<1>1. /\ at = "task" /\ at' = (IF pc' = 15 THEN "done" ELSE "task")
      /\ UNCHANGED <<current_task, progress_cursor>> /\ Tasks[current_task] = "a20"
      /\ Display!Puts(A20Text) /\ Line!Task
  <2>1. Line!Done = 15
    BY DEF Line!Done, Line!Script
  <2> QED BY <2>1 DEF A20Task, Running
<1>2. current_task = 5 /\ Count = 7 /\ at # "begin" /\ at' # "begin"
  BY <1>1, LoopPlace, TaskNames DEF Shown
<1>3. Before[current_task] = 178 /\ RowsOf[current_task] = 12
  BY <1>2 DEF Before, RowsOf
<1>4. PICK rows \in {0, 3, 9} :
        /\ Len(A20Text) \in 0..rows
        /\ LastRow \in Nat /\ LastRow' \in Nat /\ LastRow + rows <= LastRow' /\ LastRow + rows < 255
  <2>1. CASE Line!A20Int15
    <3>1. /\ pc = 0 /\ \/ said' = "success" /\ pc' = 15
                       \/ said' = "failed" /\ pc' = 1
      BY <2>1 DEF Line!A20Int15, Line!Done, Line!Script
    <3>2. A20Text \in {Message \o Message, Message \o Message \o Message}
      BY <3>1 DEF A20Text
    <3>3. Len(A20Text) \in 0..9
      <4>1. 6 \in 0..9 /\ 9 \in 0..9
        OBVIOUS
      <4> QED BY <3>2, <4>1, Lengths
    <3>4. LastRow = 188
      BY <1>1, <1>2, <1>3, <3>1 DEF LastRow
    <3>5. LastRow' \in {197, 200}
      BY <1>1, <1>2, <1>3, <3>1 DEF LastRow
    <3>6. LastRow \in Nat /\ LastRow' \in Nat /\ LastRow + 9 <= LastRow' /\ LastRow + 9 < 255
      BY <3>4, <3>5
    <3> QED BY <3>3, <3>6
  <2>2. CASE Line!A20KeyboardWait \/ Line!A20KeyboardAccess
    <3>1. pc \in 1..14 /\ pc' \in {pc + 1, 15}
      <4>1. Len(Line!Script) = 14 /\ Line!Done = 15
        BY DEF Line!Done, Line!Script
      <4> QED BY <2>2, <4>1 DEF Line!A20KeyboardWait, Line!A20KeyboardAccess
    <3>2. LastRow = 197
      BY <1>1, <1>2, <1>3, <3>1 DEF LastRow
    <3>3. CASE pc' = 15
      <4>1. A20Text = Message
        BY <3>1, <3>3 DEF A20Text, Line!Done, Line!Script
      <4>2. Len(A20Text) \in 0..3
        <5>1. 3 \in 0..3
          OBVIOUS
        <5> QED BY <4>1, <5>1, MessageLengths, Zenon
      <4>3. LastRow' = 200
        BY <1>1, <1>2, <1>3, <3>3 DEF LastRow
      <4>4. LastRow \in Nat /\ LastRow' \in Nat /\ LastRow + 3 <= LastRow' /\ LastRow + 3 < 255
        BY <3>2, <4>3
      <4> QED BY <4>2, <4>4
    <3>4. CASE pc' # 15
      <4>1. A20Text = <<>>
        BY <3>1, <3>4 DEF A20Text, Line!Done, Line!Script
      <4>2. Len(A20Text) \in 0..0
        BY <4>1
      <4>3. LastRow' = 197
        BY <1>1, <1>2, <1>3, <3>1, <3>4 DEF LastRow
      <4>4. LastRow \in Nat /\ LastRow' \in Nat /\ LastRow + 0 <= LastRow' /\ LastRow + 0 < 255
        BY <3>2, <4>3
      <4> QED BY <4>2, <4>4
    <3> QED BY <3>3, <3>4
  <2> QED BY <1>1, <2>1, <2>2 DEF Line!Task
<1>5. rows \in Nat
  OBVIOUS
<1>6. Display!TypeOK' /\ ScreenOK' /\ TextBelow
  BY <1>1, <1>2, <1>4, <1>5, MessageKeeps, Zenon DEF Shown
<1>7. LoopTyped' /\ LoopOK'
  BY <1>1, <1>2 DEF LoopTyped, LoopOK
<1> QED BY <1>6, <1>7, Zenon DEF Shown

-----------------------------------------------------------------------------
(* The first lines.                                                        *)
Four(start, text, end) ==
    \E a1, a2, a3 : /\ a1 = Display!Putc(start, text[1]) /\ a2 = Display!Putc(a1, text[2])
                    /\ a3 = Display!Putc(a2, text[3]) /\ end = Display!Putc(a3, text[4])

(* The pen after the first characters of a text, by each of them.          *)
LEMMA FourCharacters ==
  ASSUME NEW start, NEW text, NEW t, Types(t, start, text, 4) PROVE Four(start, text, t[4])
<1>1. \A i \in 0..4 : t[i] = IF i = 0 THEN start ELSE Display!Putc(t[i - 1], text[i])
  BY DEF Types
<1>2. t[0] = start
  BY <1>1
<1>3. ASSUME NEW i \in 1..4 PROVE t[i] = Display!Putc(t[i - 1], text[i])
  <2>1. i \in 0..4 /\ i # 0
    OBVIOUS
  <2> QED BY <1>1, <2>1, Zenon
<1>4. /\ 1 \in 1..4 /\ 2 \in 1..4 /\ 3 \in 1..4 /\ 4 \in 1..4
      /\ 1 - 1 = 0 /\ 2 - 1 = 1 /\ 3 - 1 = 2 /\ 4 - 1 = 3
  OBVIOUS
<1>5. t[1] = Display!Putc(t[0], text[1]) /\ t[2] = Display!Putc(t[1], text[2])
  BY <1>3, <1>4, Zenon
<1>6. t[3] = Display!Putc(t[2], text[3]) /\ t[4] = Display!Putc(t[3], text[4])
  BY <1>3, <1>4, Zenon
<1> QED BY <1>2, <1>5, <1>6, Zenon DEF Four

(* Of one character.                                                       *)
LEMMA OneCharacter ==
  ASSUME NEW start, NEW text, NEW t, Types(t, start, text, 1)
  PROVE t[1] = Display!Putc(start, text[1])
<1>1. \A i \in 0..1 : t[i] = IF i = 0 THEN start ELSE Display!Putc(t[i - 1], text[i])
  BY DEF Types
<1>2. t[0] = start
  BY <1>1
<1>3. 1 \in 0..1 /\ 1 # 0 /\ 1 - 1 = 0
  OBVIOUS
<1>4. t[1] = Display!Putc(t[0], text[1])
  BY <1>1, <1>3, Zenon
<1> QED BY <1>2, <1>4, Zenon

(* A character that is drawn.                                              *)
Drawn(so, on) ==
    on = [so EXCEPT !.pos = Display!Advanced(so.pos), !.cells = so.cells \union {Display!Cell(so.pos)},
                    !.over = IF Display!Cell(so.pos) <= so.top THEN so.over \union {so.pos.column} ELSE so.over,
                    !.top = IF Display!Cell(so.pos) <= so.top THEN so.top ELSE Display!Cell(so.pos)]

(* The three kinds of characters.                                          *)
LEMMA PutcKinds == ASSUME NEW so, NEW c
  PROVE /\ c \in Display!Colors => Display!Putc(so, c) = [so EXCEPT !.color = c]
        /\ c = "newline" => Display!Putc(so, c)
                              = [so EXCEPT !.pos = [row |-> Display!NextRow(so.pos.row), column |-> 0]]
        /\ c \notin Display!Colors /\ c # "newline" => Drawn(so, Display!Putc(so, c))
<1>1. "newline" \notin Display!Colors
  BY DEF Display!Colors
<1> QED BY <1>1 DEF Display!Putc, Drawn

IsPen(so, row, column, color, cells, top, over) ==
    so = [pos |-> [row |-> row, column |-> column], color |-> color, cells |-> cells,
          top |-> top, over |-> over]

(* The pen after a character that is drawn, in a row that has place.       *)
DrawsTo(on, row, column, color, cells, top) ==
    \E top1, over1 :
       /\ IsPen(on, row, column + 1, color, cells \union {(Columns * row) + column}, top1, over1)
       /\ top1 \in Int /\ (top <= (Columns * row) + column => top1 = (Columns * row) + column)

(* A character that is drawn in a row that has place.                      *)
LEMMA Draws ==
  ASSUME NEW so, NEW row \in Nat, NEW column \in Nat, NEW color, NEW cells, NEW top \in Int, NEW over,
         IsPen(so, row, column, color, cells, top, over), column < Columns,
         NEW c, c \notin Display!Colors, c # "newline"
  PROVE DrawsTo(Display!Putc(so, c), row, column, color, cells, top)
<1>1. PICK pos, next : pos = [row |-> row, column |-> column] /\ next = [row |-> row, column |-> column + 1]
  OBVIOUS
<1>2. PICK base : base = Columns * row
  OBVIOUS
<1>3. base \in Nat /\ Columns \in Nat
  BY <1>2, ScreenAssumption
<1>4. PICK cell : cell = base + column
  OBVIOUS
<1>5. Display!Cell(pos) = cell
  BY <1>1, <1>2, <1>4 DEF Display!Cell
<1>6. Display!Advanced(pos) = next
  <2>1. pos.column = column /\ ~(column >= Columns)
    BY <1>1, <1>3
  <2>2. Display!Advanced(pos) = [pos EXCEPT !.column = @ + 1]
    BY <2>1, Zenon DEF Display!Advanced
  <2> QED BY <1>1, <2>2
<1>7. /\ so = [pos |-> pos, color |-> color, cells |-> cells, top |-> top, over |-> over]
      /\ so.pos = pos /\ so.cells = cells /\ so.top = top
  BY <1>1 DEF IsPen
<1>8. Drawn(so, Display!Putc(so, c))
  BY PutcKinds, Zenon
<1>9. PICK top1, over1, cells1 :
        /\ top1 = (IF cell <= top THEN top ELSE cell)
        /\ over1 = (IF cell <= top THEN so.over \union {so.pos.column} ELSE so.over)
        /\ cells1 = cells \union {cell}
  OBVIOUS
<1>10. Display!Putc(so, c) = [so EXCEPT !.pos = next, !.cells = cells1, !.over = over1, !.top = top1]
  BY <1>5, <1>6, <1>7, <1>8, <1>9, Zenon DEF Drawn
<1>11. Display!Putc(so, c) = [pos |-> next, color |-> color, cells |-> cells1, top |-> top1, over |-> over1]
  BY <1>7, <1>10
<1>12. top1 \in Int /\ (top <= cell => top1 = cell)
  BY <1>3, <1>4, <1>9
<1>13. IsPen(Display!Putc(so, c), row, column + 1, color, cells \union {cell}, top1, over1)
  BY <1>1, <1>9, <1>11, Zenon DEF IsPen
<1> QED BY <1>2, <1>4, <1>12, <1>13, Zenon DEF DrawsTo

(* Where the first lines leave the cursor, and that of the bar.            *)
LEMMA BeginShows ==
  ASSUME Shown, Begin
  PROVE /\ cursor_pos = [row |-> 0, column |-> 0] /\ progress_cursor = cursor_pos
        /\ progress_cursor' = [row |-> 1, column |-> 1]
        /\ cursor_pos' = [row |-> 2, column |-> 0] /\ cur_color' = "light_gray"
        /\ reach' = Columns /\ UNCHANGED clobbered /\ drawn'.by = "text"
<1>1. /\ at = "begin" /\ cursor_pos = [row |-> 0, column |-> 0] /\ progress_cursor = cursor_pos
      /\ Display!Ahead(cursor_pos, reach)
  BY Zenon DEF Begin, Shown, ScreenOK
<1>2. Columns \in Nat /\ Columns > 0 /\ reach \in Int
  BY ScreenAssumption DEF Shown, Display!TypeOK
<1>3. reach <= 0
  <2>1. Display!Cell(cursor_pos) = 0
    BY <1>1, <1>2 DEF Display!Cell
  <2> QED BY <1>2, <1>1, <2>1 DEF Display!Ahead
<1>4. /\ "stage_2_loaded" \notin Display!Colors /\ "executing" \notin Display!Colors
      /\ "light_gray" \in Display!Colors /\ "newline" # "executing" /\ "newline" # "stage_2_loaded"
  BY DEF Display!Colors
<1>5. PICK pos, color, past : pos = cursor_pos /\ color = cur_color /\ past = reach
  OBVIOUS
<1>6. /\ Len(Display!FirstLines) = 4
      /\ Display!FirstLines[1] = "stage_2_loaded" /\ Display!FirstLines[2] = "newline"
      /\ Display!FirstLines[3] = "light_gray" /\ Display!FirstLines[4] = "executing"
  BY DEF Display!FirstLines
<1>7. PICK t, start :
        /\ start = [pos |-> pos, color |-> color, cells |-> {}, top |-> past, over |-> {}]
        /\ Types(t, start, Display!FirstLines, 4)
        /\ Display!Typed(pos, color, Display!FirstLines) = t[4]
  <2>1. Len(Display!FirstLines) \in Nat
    BY <1>6
  <2>2. PICK t, start :
          /\ start = [pos |-> pos, color |-> color, cells |-> {}, top |-> past, over |-> {}]
          /\ Types(t, start, Display!FirstLines, Len(Display!FirstLines))
          /\ Display!Typed(pos, color, Display!FirstLines) = t[Len(Display!FirstLines)]
    BY <1>5, <2>1, TypedIs, Zenon
  <2>3. Types(t, start, Display!FirstLines, 4) /\ Display!Typed(pos, color, Display!FirstLines) = t[4]
    BY <1>6, <2>2, Zenon
  <2> QED BY <2>2, <2>3
<1>8. PICK a1, a2, a3 :
        /\ a1 = Display!Putc(start, "stage_2_loaded") /\ a2 = Display!Putc(a1, "newline")
        /\ a3 = Display!Putc(a2, "light_gray") /\ t[4] = Display!Putc(a3, "executing")
  <2>1. PICK text : text = Display!FirstLines
    OBVIOUS
  <2>2. Types(t, start, text, 4)
    BY <1>7, <2>1, Zenon
  <2>3. Four(start, text, t[4])
    BY <2>2, FourCharacters, Zenon
  <2>4. PICK a1, a2, a3 :
          /\ a1 = Display!Putc(start, text[1]) /\ a2 = Display!Putc(a1, text[2])
          /\ a3 = Display!Putc(a2, text[3]) /\ t[4] = Display!Putc(a3, text[4])
    BY <2>3, Zenon DEF Four
  <2> QED BY <1>6, <2>1, <2>4, Zenon
<1>9. IsPen(start, 0, 0, color, {}, past, {})
  <2>1. pos = [row |-> 0, column |-> 0]
    BY <1>1, <1>5, Zenon
  <2> QED BY <1>7, <2>1, Zenon DEF IsPen
<1>10. PICK cells, over :
         a1 = [pos |-> [row |-> 0, column |-> 1], color |-> color, cells |-> cells, top |-> 0, over |-> over]
  <2>1. 0 \in Nat /\ 0 < Columns /\ past \in Int /\ (Columns * 0) + 0 = 0 /\ 0 + 1 = 1 /\ past <= 0
    BY <1>2, <1>3, <1>5
  <2>2. DrawsTo(Display!Putc(start, "stage_2_loaded"), 0, 0, color, {}, past)
    BY <1>4, <1>9, <2>1, Draws, Zenon
  <2>3. PICK top1, over1 :
          /\ IsPen(a1, 0, 0 + 1, color, {} \union {(Columns * 0) + 0}, top1, over1)
          /\ past <= (Columns * 0) + 0 => top1 = (Columns * 0) + 0
    BY <1>8, <2>2, Zenon DEF DrawsTo
  <2>4. top1 = 0
    BY <2>1, <2>3, Zenon
  <2> QED BY <2>1, <2>3, <2>4, Zenon DEF IsPen
<1>11. Display!NextRow(0) = 1 /\ Display!NextRow(1) = 2
  BY DEF Display!NextRow
<1>12. a2 = [pos |-> [row |-> 1, column |-> 0], color |-> color, cells |-> cells, top |-> 0, over |-> over]
  <2>1. a2 = [a1 EXCEPT !.pos = [row |-> Display!NextRow(a1.pos.row), column |-> 0]]
    BY <1>8, PutcKinds, Zenon
  <2>2. a1.pos.row = 0
    BY <1>10
  <2>3. a2 = [a1 EXCEPT !.pos = [row |-> 1, column |-> 0]]
    BY <1>11, <2>1, <2>2, Zenon
  <2> QED BY <1>10, <2>3
<1>13. a3 = [pos |-> [row |-> 1, column |-> 0], color |-> "light_gray",
            cells |-> cells, top |-> 0, over |-> over]
  <2>1. a3 = [a2 EXCEPT !.color = "light_gray"]
    BY <1>4, <1>8, PutcKinds, Zenon
  <2> QED BY <1>12, <2>1
<1>14. t[4].pos = [row |-> 1, column |-> 1] /\ t[4].color = "light_gray" /\ t[4].top = Columns
  <2>1. 1 \in Nat /\ 0 \in Nat /\ 0 \in Int /\ 0 < Columns /\ 0 <= (Columns * 1) + 0
        /\ (Columns * 1) + 0 = Columns /\ 0 + 1 = 1
    BY <1>2
  <2>2. IsPen(a3, 1, 0, "light_gray", cells, 0, over)
    BY <1>13, Zenon DEF IsPen
  <2>3. DrawsTo(Display!Putc(a3, "executing"), 1, 0, "light_gray", cells, 0)
    BY <1>4, <2>1, <2>2, Draws, Zenon
  <2>4. PICK top1, over1, cells1 :
          /\ t[4] = [pos |-> [row |-> 1, column |-> 1], color |-> "light_gray",
                     cells |-> cells1, top |-> top1, over |-> over1]
          /\ top1 = Columns
    BY <1>8, <2>1, <2>3, Zenon DEF IsPen, DrawsTo
  <2> QED BY <2>4
<1>15. PICK so : so = Display!Typed(cursor_pos, cur_color, Display!FirstLines)
  OBVIOUS
<1>16. so.pos = [row |-> 1, column |-> 1] /\ so.color = "light_gray" /\ so.top = Columns
  BY <1>5, <1>7, <1>14, <1>15, Zenon
<1>17. PICK end : end = Display!Typed(so.pos, so.color, <<"newline">>)
  OBVIOUS
<1>18. end.pos = [row |-> 2, column |-> 0] /\ end.color = "light_gray"
  <2>1. PICK text : text = <<"newline">>
    OBVIOUS
  <2>2. Len(text) = 1 /\ text[1] = "newline" /\ 1 \in Nat
    BY <2>1
  <2>3. PICK p, col : p = so.pos /\ col = so.color
    OBVIOUS
  <2>4. PICK u, first :
          /\ first = [pos |-> p, color |-> col, cells |-> {}, top |-> past, over |-> {}]
          /\ Types(u, first, text, 1)
          /\ Display!Typed(p, col, text) = u[1]
    <3>1. Len(text) \in Nat
      BY <2>2
    <3>2. PICK u, first :
            /\ first = [pos |-> p, color |-> col, cells |-> {}, top |-> past, over |-> {}]
            /\ Types(u, first, text, Len(text))
            /\ Display!Typed(p, col, text) = u[Len(text)]
      BY <1>5, <3>1, TypedIs, Zenon
    <3>3. Types(u, first, text, 1) /\ Display!Typed(p, col, text) = u[1]
      BY <2>2, <3>2, Zenon
    <3> QED BY <3>2, <3>3
  <2>5. u[1] = Display!Putc(first, "newline")
    BY <2>2, <2>4, OneCharacter, Zenon
  <2>6. u[1] = [first EXCEPT !.pos = [row |-> Display!NextRow(first.pos.row), column |-> 0]]
    BY <2>5, PutcKinds, Zenon
  <2>7. first.pos.row = 1 /\ first.color = "light_gray"
    BY <1>16, <2>3, <2>4
  <2>8. u[1] = [first EXCEPT !.pos = [row |-> 2, column |-> 0]]
    BY <1>11, <2>6, <2>7, Zenon
  <2>9. u[1].pos = [row |-> 2, column |-> 0] /\ u[1].color = "light_gray"
    BY <2>4, <2>7, <2>8
  <2> QED BY <1>17, <2>1, <2>3, <2>4, <2>9, Zenon
<1>19. /\ progress_cursor' = so.pos /\ cursor_pos' = end.pos /\ cur_color' = end.color
       /\ drawn' = [by |-> "text", cells |-> so.cells] /\ reach' = so.top /\ UNCHANGED clobbered
  BY <1>15, <1>17, Zenon DEF Begin, Display!Begin
<1>20. drawn'.by = "text"
  BY <1>19
<1> QED BY <1>1, <1>16, <1>18, <1>19, <1>20, Zenon

(* So the invariant holds from there on.                                   *)
LEMMA BeginKeeps == ASSUME Shown, Begin PROVE Shown'
<1>1. /\ progress_cursor' = [row |-> 1, column |-> 1]
      /\ cursor_pos' = [row |-> 2, column |-> 0] /\ cur_color' = "light_gray"
      /\ reach' = Columns /\ UNCHANGED clobbered /\ drawn'.by = "text"
  BY BeginShows, Zenon
<1>2. at' = "bar" /\ current_task' = 1 /\ Count = 7
  BY TaskNames DEF Begin
<1>3. Columns \in Nat /\ Columns > 0
  BY ScreenAssumption
<1>4. LastRow' = 2
  BY <1>2, Tables DEF LastRow
<1>5. Display!Ahead(cursor_pos, reach)'
  <2>1. PICK pos : pos = [row |-> 2, column |-> 0]
    OBVIOUS
  <2>2. Display!Cell(pos) = (Columns * 2) + 0
    BY <2>1 DEF Display!Cell
  <2>3. Columns < Display!Cell(pos)
    BY <1>3, <2>2
  <2>4. cursor_pos' = pos /\ reach' = Columns
    BY <1>1, <2>1, Zenon
  <2> QED BY <2>3, <2>4, Zenon DEF Display!Ahead, Display!Cell
<1>6. clobbered \subseteq {0}
  BY Zenon DEF Shown, ScreenOK, OnlyWrapsClobber, Display!OnlyWrapsClobber
<1>7. ScreenOK'
  <2>1. OnlyWrapsClobber'
    BY <1>1, <1>6, Zenon DEF OnlyWrapsClobber, Display!OnlyWrapsClobber
  <2>2. cursor_pos'.row \in 2..LastRow'
    BY <1>1, <1>4
  <2>3. at' # "begin"
    BY <1>2
  <2> QED BY <1>1, <1>5, <2>1, <2>2, <2>3, Zenon DEF ScreenOK
<1>8. Display!TypeOK'
  <2>1. clobbered' \subseteq 0..(Columns - 1)
    BY <1>1, <1>3, <1>6
  <2>2. /\ cursor_pos' \in [row : 0..255, column : 0..Columns]
        /\ progress_cursor' \in [row : 0..255, column : 0..Columns]
    BY <1>1, <1>3
  <2>3. cur_color' \in Display!Colors /\ drawn'.by \in {"text", "bar"}
    BY <1>1 DEF Display!Colors
  <2>4. reach' \in Int /\ reach' >= -1
    BY <1>1, <1>3
  <2> QED BY <2>1, <2>2, <2>3, <2>4, Zenon DEF Display!TypeOK
<1>9. LoopTyped' /\ LoopOK'
  BY <1>2 DEF LoopTyped, LoopOK
<1> QED BY <1>7, <1>8, <1>9, Zenon DEF Shown

-----------------------------------------------------------------------------
(* Every step.                                                             *)

(* The first state.                                                        *)
LEMMA ShownInit == ASSUME Init PROVE Shown
<1>1. /\ cursor_pos = [row |-> 0, column |-> 0] /\ progress_cursor = cursor_pos
      /\ cur_color = "black" /\ drawn = [by |-> "text", cells |-> {}]
      /\ reach = -1 /\ clobbered = {} /\ current_task = 0 /\ at = "begin"
  BY Zenon DEF Init, Display!Init
<1>2. Columns \in Nat
  BY ScreenAssumption
<1>3. Display!TypeOK
  BY <1>1, <1>2 DEF Display!TypeOK, Display!Colors
<1>4. LoopTyped /\ LoopOK
  BY <1>1, TaskNames DEF LoopTyped, LoopOK
<1>5. ScreenOK
  <2>1. Display!Cell(cursor_pos) = 0
    BY <1>1, <1>2 DEF Display!Cell
  <2>2. Display!Ahead(cursor_pos, reach)
    BY <1>1, <2>1 DEF Display!Ahead
  <2> QED BY <1>1, <2>2 DEF ScreenOK, OnlyWrapsClobber, Display!OnlyWrapsClobber
<1> QED BY <1>3, <1>4, <1>5, Zenon DEF Shown

(* Steps that draw nothing.                                                *)
LEMMA ShownApart == ASSUME Shown, UNCHANGED <<screen, loop>>, UNCHANGED pc PROVE Shown'
<1>1. /\ UNCHANGED <<cursor_pos, cur_color, progress_cursor, drawn, reach, clobbered>>
      /\ UNCHANGED <<current_task, at>>
  BY DEF screen, loop
<1>2. Display!TypeOK' /\ LoopTyped' /\ LoopOK'
  BY <1>1, Zenon DEF Shown, Display!TypeOK, LoopTyped, LoopOK, Count, Tasks
<1>3. LastRow' = LastRow
  BY <1>1, Zenon DEF LastRow
<1>4. ScreenOK'
  BY <1>1, <1>3, Zenon DEF Shown, ScreenOK, OnlyWrapsClobber, Display!OnlyWrapsClobber,
                        Display!Ahead, Display!Cell
<1> QED BY <1>2, <1>4, Zenon DEF Shown

(* All of them.                                                            *)
LEMMA ShownByEachStep == ASSUME Shown, [Next]_vars PROVE Shown'
<1>1. CASE Device
  <2>1. UNCHANGED <<screen, loop>> /\ UNCHANGED pc
    BY <1>1 DEF Device, Line!Device, Line!Consume, Line!Key, Line!code
  <2> QED BY <2>1, ShownApart, Zenon
<1>2. CASE UNCHANGED vars
  <2>1. UNCHANGED <<screen, loop>> /\ UNCHANGED pc
    BY <1>2 DEF vars, line
  <2> QED BY <2>1, ShownApart, Zenon
<1> QED BY <1>1, <1>2, BeginKeeps, BarKeeps, ExecutingKeeps, DoneKeeps, FinishKeeps, SimpleTasksKeep,
           CpuidTaskKeeps, A20TaskKeeps, Zenon DEF Next

-----------------------------------------------------------------------------
(* The bar.                                                                *)

BarLetters == {"[", "]", "=", ">", "blank"}

(* The bar for the seven tasks is drawn, to its last character.            *)
LEMMA BarText == ASSUME NEW curr, NEW text, text = Display!Bar(curr, 7)
  PROVE /\ Len(text) = 9
        /\ \A i \in 1..9 : text[i] \notin Display!Colors /\ text[i] # "newline"
<1>1. PICK tasks : tasks = [i \in 1..7 |-> IF i < curr THEN "=" ELSE IF i = curr THEN ">" ELSE "blank"]
  OBVIOUS
<1>2. tasks \in Seq(BarLetters) /\ Len(tasks) = 7
  BY <1>1 DEF BarLetters
<1>3. PICK left, right : left = <<"[">> /\ right = <<"]">>
  OBVIOUS
<1>4. left \in Seq(BarLetters) /\ Len(left) = 1 /\ right \in Seq(BarLetters) /\ Len(right) = 1
  BY <1>3 DEF BarLetters
<1>5. text = (left \o tasks) \o right
  BY <1>1, <1>3, Zenon DEF Display!Bar
<1>6. 1 + 7 = 8 /\ 8 + 1 = 9
  OBVIOUS
<1>7. left \o tasks \in Seq(BarLetters) /\ Len(left \o tasks) = 8
  <2>1. left \o tasks \in Seq(BarLetters) /\ Len(left \o tasks) = Len(left) + Len(tasks)
    BY <1>2, <1>4, ConcatProperties, Zenon
  <2> QED BY <1>2, <1>4, <1>6, <2>1, Zenon
<1>8. text \in Seq(BarLetters) /\ Len(text) = 9
  <2>1. PICK most : most = left \o tasks
    OBVIOUS
  <2>2. most \in Seq(BarLetters) /\ Len(most) = 8
    BY <1>7, <2>1, Zenon
  <2>3. most \o right \in Seq(BarLetters) /\ Len(most \o right) = Len(most) + Len(right)
    BY <1>4, <2>2, ConcatProperties, Zenon
  <2> QED BY <1>4, <1>5, <1>6, <2>1, <2>2, <2>3, Zenon
<1>9. \A i \in 1..9 : text[i] \in BarLetters
  BY <1>8
<1>10. \A c \in BarLetters : c \notin Display!Colors /\ c # "newline"
  BY DEF BarLetters, Display!Colors
<1> QED BY <1>8, <1>9, <1>10, Zenon

(* The pen after k characters of the bar, which starts in column 1 of the  *)
(* second row.                                                             *)
Upto(k) == {x \in Int : \E j \in 1..k : x = Columns + j}
BarAt(pen, k, color) == \E top, over : top \in Int /\ IsPen(pen, 1, 1 + k, color, Upto(k), top, over)

(* The ten columns are the bar's nine and the one before it.               *)
LEMMA BarDraws ==
  ASSUME Columns >= 10, NEW text,
         \A i \in 1..9 : text[i] \notin Display!Colors /\ text[i] # "newline",
         NEW start, NEW past \in Int, NEW color, IsPen(start, 1, 1, color, {}, past, {}),
         NEW t, Types(t, start, text, 9)
  PROVE BarAt(t[9], 9, color)
<1> DEFINE S == {k \in Nat : k <= 9 => BarAt(t[k], k, color)}
<1>0. \A i \in 0..9 : t[i] = IF i = 0 THEN start ELSE Display!Putc(t[i - 1], text[i])
  BY DEF Types
<1>1. 0 \in S
  <2>1. t[0] = start
    BY <1>0
  <2>2. Upto(0) = {} /\ 1 + 0 = 1
    BY DEF Upto
  <2>3. IsPen(t[0], 1, 1 + 0, color, Upto(0), past, {})
    BY <2>1, <2>2, Zenon
  <2>4. BarAt(t[0], 0, color)
    BY <2>3, Zenon DEF BarAt
  <2> QED BY <2>4
<1>2. ASSUME NEW k \in Nat, k \in S PROVE k + 1 \in S
  <2> SUFFICES ASSUME k + 1 <= 9 PROVE BarAt(t[k + 1], k + 1, color)
    OBVIOUS
  <2>1. BarAt(t[k], k, color)
    BY <1>2
  <2>2. PICK top, over : top \in Int /\ IsPen(t[k], 1, 1 + k, color, Upto(k), top, over)
    BY <2>1, Zenon DEF BarAt
  <2>3. /\ k + 1 \in 0..9 /\ k + 1 \in 1..9 /\ k + 1 # 0 /\ (k + 1) - 1 = k
        /\ 1 \in Nat /\ 1 + k \in Nat /\ 1 + k < Columns /\ 1 + (k + 1) = (1 + k) + 1
    BY ScreenAssumption
  <2>4. t[k + 1] = Display!Putc(t[k], text[k + 1])
    BY <1>0, <2>3, Zenon
  <2>5. Upto(k) \union {(Columns * 1) + (1 + k)} = Upto(k + 1)
    BY ScreenAssumption DEF Upto
  <2>6. DrawsTo(t[k + 1], 1, 1 + k, color, Upto(k), top)
    BY <2>2, <2>3, <2>4, Draws, Zenon
  <2>7. PICK top1, over1 :
          /\ IsPen(t[k + 1], 1, (1 + k) + 1, color, Upto(k) \union {(Columns * 1) + (1 + k)}, top1, over1)
          /\ top1 \in Int
    BY <2>6, Zenon DEF DrawsTo
  <2>8. IsPen(t[k + 1], 1, 1 + (k + 1), color, Upto(k + 1), top1, over1)
    BY <2>3, <2>5, <2>7, Zenon
  <2> QED BY <2>7, <2>8, Zenon DEF BarAt
<1>3. Nat \subseteq S
  <2> HIDE DEF S
  <2> QED BY <1>1, <1>2, Induction, Zenon
<1>4. 9 \in S
  BY <1>3
<1>5. 9 <= 9
  OBVIOUS
<1> QED BY <1>4, <1>5, Zenon

BarPlace == {Columns + 1 + k : k \in 0..8}

(* Those are the cells in the second row that are the bar's.               *)
LEMMA BarCellsAre == ASSUME Shown, at # "begin" PROVE Display!BarCells(Count) = BarPlace
<1>1. progress_cursor = [row |-> 1, column |-> 1] /\ Count = 7
  BY TaskNames, Zenon DEF Shown, ScreenOK
<1>2. Display!Cell(progress_cursor) = Columns + 1
  BY <1>1, ScreenAssumption DEF Display!Cell
<1> QED BY <1>1, <1>2 DEF Display!BarCells, BarPlace

(* The texts after it start below.                                         *)
LEMMA TextsApart == ASSUME Columns >= 10, Shown, at # "begin", TextBelow
  PROVE Display!BarAndTextApart(Count)
<1>1. ASSUME NEW x, x \in drawn'.cells, x \in BarPlace PROVE FALSE
  <2>1. PICK k \in 0..8 : x = Columns + 1 + k
    BY <1>1 DEF BarPlace
  <2>2. Display!Cell(cursor_pos) <= x
    BY <1>1, Zenon DEF TextBelow
  <2>3. PICK row, column : row = cursor_pos.row /\ column = cursor_pos.column
    OBVIOUS
  <2>4. row \in 2..LastRow /\ column \in 0..Columns /\ Columns \in Nat /\ row \in 0..255
    BY <2>3, ScreenAssumption, CanWrite, PositionTypes, Zenon DEF Shown, ScreenOK, Writable
  <2>5. (Columns * row) + column <= x
    BY <2>2, <2>3, Zenon DEF Display!Cell
  <2>6. Columns * row >= Columns * 2
    BY <2>4
  <2> QED BY <2>1, <2>4, <2>5, <2>6
<1>2. drawn'.cells \intersect Display!BarCells(Count) = {}
  BY <1>1, BarCellsAre
<1>3. drawn'.by # "bar"
  BY DEF TextBelow
<1> QED BY <1>2, <1>3, Zenon DEF Display!BarAndTextApart

(* The bar is drawn where it is, in each of its states.                    *)
LEMMA BarInPlace == ASSUME Columns >= 10, Shown, ProgressBar PROVE Display!BarAndTextApart(Count)
<1> DEFINE text == Display!Bar(current_task, Count)
<1>1. /\ at = "bar" /\ cur_color' = cur_color /\ UNCHANGED <<cursor_pos, progress_cursor, reach, clobbered>>
      /\ drawn' = [by |-> "bar", cells |-> Display!Typed(progress_cursor, "yellow", text).cells]
  BY DEF ProgressBar, Display!UpdateProgressBar, Display!ColorRestored
<1>2. at # "begin"
  BY <1>1
<1>3. progress_cursor = [row |-> 1, column |-> 1] /\ Count = 7
  BY <1>2, TaskNames, Zenon DEF Shown, ScreenOK
<1>4. Len(text) = 9 /\ \A i \in 1..9 : text[i] \notin Display!Colors /\ text[i] # "newline"
  BY <1>3, BarText, Zenon
<1> HIDE DEF text
<1>5. PICK pos, past : pos = progress_cursor /\ past = reach
  OBVIOUS
<1>6. past \in Int
  BY <1>5, Zenon DEF Shown, Display!TypeOK
<1>7. PICK t, start :
        /\ start = [pos |-> pos, color |-> "yellow", cells |-> {}, top |-> past, over |-> {}]
        /\ Types(t, start, text, 9)
        /\ Display!Typed(pos, "yellow", text) = t[9]
  <2>1. Len(text) \in Nat
    BY <1>4
  <2>2. PICK t, start :
          /\ start = [pos |-> pos, color |-> "yellow", cells |-> {}, top |-> past, over |-> {}]
          /\ Types(t, start, text, Len(text))
          /\ Display!Typed(pos, "yellow", text) = t[Len(text)]
    BY <1>5, <2>1, TypedIs, Zenon
  <2> QED BY <1>4, <2>2, Zenon
<1>8. IsPen(start, 1, 1, "yellow", {}, past, {})
  BY <1>3, <1>5, <1>7, Zenon DEF IsPen
<1>9. BarAt(t[9], 9, "yellow")
  BY <1>4, <1>6, <1>7, <1>8, BarDraws, Zenon
<1>10. t[9].cells = Upto(9)
  BY <1>9 DEF BarAt, IsPen
<1>11. Upto(9) = BarPlace
  <2>1. ASSUME NEW x, x \in Upto(9) PROVE x \in BarPlace
    <3>1. PICK j \in 1..9 : x = Columns + j
      BY <2>1 DEF Upto
    <3>2. j - 1 \in 0..8 /\ x = Columns + 1 + (j - 1)
      BY <3>1, ScreenAssumption
    <3> QED BY <3>2 DEF BarPlace
  <2>2. ASSUME NEW k \in 0..8 PROVE Columns + 1 + k \in Upto(9)
    <3>1. k + 1 \in 1..9 /\ Columns + 1 + k = Columns + (k + 1) /\ Columns + 1 + k \in Int
      BY ScreenAssumption
    <3> QED BY <3>1 DEF Upto
  <2> QED BY <2>1, <2>2 DEF BarPlace
<1>12. drawn'.cells = Display!BarCells(Count)
  <2>1. drawn'.cells = t[9].cells
    BY <1>1, <1>5, <1>7
  <2> QED BY <1>2, <1>10, <1>11, <2>1, BarCellsAre, Zenon
<1> QED BY <1>1, <1>12, Zenon DEF Display!BarAndTextApart

(* No step draws the bar and a text to the same place.                     *)
LEMMA ApartByEachStep == ASSUME Columns >= 10, Shown, [Next]_vars
  PROVE [Display!BarAndTextApart(Count)]_screen
<1>1. CASE Begin
  <2>1. progress_cursor = [row |-> 0, column |-> 0] /\ progress_cursor' = [row |-> 1, column |-> 1]
    BY <1>1, BeginShows, Zenon
  <2>2. progress_cursor' # progress_cursor
    BY <2>1
  <2> QED BY <2>2, Zenon DEF Display!BarAndTextApart
<1>2. CASE Device \/ UNCHANGED vars
  BY <1>2 DEF Device, vars
<1>3. CASE ProgressBar
  BY <1>3, BarInPlace
<1>4. CASE \/ PrintExecuting \/ PrintDone \/ Finish \/ SetMemorySize \/ CpuidTask \/ A20Task
           \/ GdtSetup \/ DiskProps
  <2>1. TextBelow
    BY <1>4, ExecutingKeeps, DoneKeeps, FinishKeeps, SimpleTasksKeep, CpuidTaskKeeps, A20TaskKeeps, Zenon
  <2>2. at # "begin"
    BY <1>4 DEF PrintExecuting, PrintDone, Finish, SetMemorySize, CpuidTask, A20Task, GdtSetup, DiskProps,
                Running
  <2> QED BY <2>1, <2>2, TextsApart
<1> QED BY <1>1, <1>2, <1>3, <1>4 DEF Next

-----------------------------------------------------------------------------
(* The keyboard controller.                                                *)

LEMMA LineDone == Line!Done = 15
BY DEF Line!Done, Line!Script

LEMMA LineInit == ASSUME Init PROVE Line!PortOK
<1>1. /\ port \in {{"run"}, Line!Bits} /\ expecting = FALSE /\ pc = 0
      /\ input \in {<<>>, << <<"command", "AE">> >>, << <<"data", {}>> >>}
      /\ input # <<>> => command = (input[1][1] = "command")
  BY Zenon DEF Init, Line!Init
<1>2. "run" \in port
  BY <1>1 DEF Line!Bits
<1>3. input # <<>> => ~(command /\ input[1][2] = "D1")
  <2>1. CASE input = << <<"data", {}>> >>
    <3>1. input[1][1] # "command"
      BY <2>1
    <3> QED BY <1>1, <3>1, Zenon
  <2>2. CASE input = << <<"command", "AE">> >>
    <3>1. input[1][2] # "D1"
      BY <2>2
    <3> QED BY <3>1, Zenon
  <2> QED BY <1>1, <2>1, <2>2
<1> QED BY <1>1, <1>2, <1>3, LineDone DEF Line!PortOK, Line!KeepsRunning

LEMMA Int15Keeps == ASSUME Line!PortOK, Line!A20Int15 PROVE Line!PortOK'
<1>1. pc = 0 /\ pc' \in {1, 15} /\ port' = Line!Opened /\ UNCHANGED <<input, command, expecting>>
  BY DEF Line!A20Int15, Line!controller, Line!Done, Line!Script
<1>2. Line!Opened \in {Line!Bits, port}
  BY DEF Line!Opened
<1>3. "run" \in port'
  BY <1>1, <1>2, LineDone DEF Line!Bits, Line!PortOK, Line!KeepsRunning
<1> QED BY <1>1, <1>3, LineDone DEF Line!PortOK, Line!KeepsRunning

(* The second wait is never over: the status has a command.                *)
LEMMA KeyboardKeeps ==
  ASSUME Line!PortOK, Line!A20KeyboardWait \/ Line!A20KeyboardAccess
  PROVE  Line!PortOK'
<1>1. /\ Line!Script[1] = "false" /\ Line!Script[2] = "AD" /\ Line!Script[3] = "false"
      /\ Len(Line!Script) = 14
  BY DEF Line!Script
<1>2. pc \in {1, 2, 3}
  BY <1>1, LineDone DEF Line!A20KeyboardWait, Line!A20KeyboardAccess, Line!PortOK, Line!KeepsRunning
<1>3. CASE Line!A20KeyboardWait
  <2>1. /\ pc' = pc + 1 /\ UNCHANGED <<port, input, command, expecting>>
        /\ Line!Script[pc] \in {"false", "true"} /\ ~Line!Waits(Line!Script[pc] = "true")
    BY <1>3 DEF Line!A20KeyboardWait, Line!controller
  <2>2. pc # 2
    BY <1>1, <2>1
  <2>3. pc # 3
    <3>1. ASSUME pc = 3 PROVE FALSE
      <4>1. ~Line!Waits(FALSE)
        <5>1. (Line!Script[pc] = "true") = FALSE
          BY <1>1, <3>1
        <5> QED BY <2>1, <5>1, Zenon
      <4>2. ~command
        BY <4>1, Zenon DEF Line!Waits, Line!StatusIs2
      <4> QED BY <3>1, <4>2, LineDone DEF Line!PortOK, Line!KeepsRunning
    <3> QED BY <3>1
  <2>4. pc' = 2
    BY <1>2, <2>1, <2>2, <2>3
  <2> QED BY <2>1, <2>4, LineDone DEF Line!PortOK, Line!KeepsRunning
<1>4. CASE Line!A20KeyboardAccess
  <2>1. pc = 2
    BY <1>1, <1>2, <1>4 DEF Line!A20KeyboardAccess
  <2>2. /\ input' = << <<"command", "AD">> >> /\ command' = TRUE
        /\ pc' = 3 /\ UNCHANGED <<port, expecting>>
    <3>1. /\ UNCHANGED <<port, expecting>> /\ pc' = pc + 1
          /\ Line!Write("command", "AD")
      BY <1>1, <1>4, <2>1 DEF Line!A20KeyboardAccess
    <3>2. /\ input' = << <<"command", "AD">> >>
          /\ command' = ("command" = "command")
      BY <3>1, Zenon DEF Line!Write
    <3>3. command' = TRUE
      BY <3>2, Zenon
    <3>4. pc' = 3
      BY <2>1, <3>1
    <3> QED BY <3>1, <3>2, <3>3, <3>4, Zenon
  <2>3. input'[1][1] = "command" /\ input'[1][2] # "D1"
    BY <2>2
  <2> QED BY <2>2, <2>3, Zenon DEF Line!PortOK, Line!KeepsRunning
<1> QED BY <1>3, <1>4

LEMMA DeviceKeeps == ASSUME Line!PortOK, Line!Device PROVE Line!PortOK'
<1>1. CASE Line!Consume
  <2>1. /\ input # <<>> /\ input' = <<>> /\ pc' = pc /\ command' = command
        /\ expecting' = (input[1][1] = "command" /\ input[1][2] = "D1")
        /\ port' = IF input[1][1] = "data" /\ expecting THEN input[1][2] ELSE port
    BY <1>1, Zenon DEF Line!Consume, Line!code
  <2>2. port' = port
    BY <2>1, LineDone DEF Line!PortOK, Line!KeepsRunning
  <2>3. ~expecting'
    BY <2>1, LineDone DEF Line!PortOK, Line!KeepsRunning
  <2> QED BY <2>1, <2>2, <2>3, LineDone DEF Line!PortOK, Line!KeepsRunning
<1>2. CASE Line!Key
  <2>1. UNCHANGED <<pc, input, command, expecting, port>>
    BY <1>2 DEF Line!Key, Line!code
  <2> QED BY <2>1, LineDone DEF Line!PortOK, Line!KeepsRunning
<1> QED BY <1>1, <1>2 DEF Line!Device

-----------------------------------------------------------------------------
(* The structures of cpuid.h.                                              *)

(* How the compiler places the fields.                                     *)
Places(struct, place) ==
    place = [k \in 1..Len(struct) |-> IF k = 1 THEN 0 ELSE place[k-1] + struct[k-1][2]]

LEMMA OffsetIs == ASSUME NEW struct, NEW f, Places(struct, f)
  PROVE Places(struct, Identify!Offset(struct))
<1>1. Identify!Offset(struct) = CHOOSE g : Places(struct, g)
  BY DEF Identify!Offset, Places
<1> QED BY <1>1, Zenon

LEMMA OffsetsC == LET place == Identify!Offset(Identify!ExtraC)
                  IN  place[1] = 0 /\ place[3] = 5 /\ place[5] = 8
<1> DEFINE struct == Identify!ExtraC
           f == [k \in 1..6 |-> IF k = 1 THEN 0 ELSE IF k = 2 THEN 1 ELSE IF k = 3 THEN 5
                                ELSE IF k = 4 THEN 6 ELSE IF k = 5 THEN 8 ELSE 9]
<1>1. /\ Len(struct) = 6 /\ struct[1][2] = 1 /\ struct[2][2] = 4 /\ struct[3][2] = 1
      /\ struct[4][2] = 2 /\ struct[5][2] = 1
  BY DEF Identify!ExtraC
<1> HIDE DEF struct
<1>2. Places(struct, f)
  <2>1. ASSUME NEW k \in 1..6 PROVE f[k] = IF k = 1 THEN 0 ELSE f[k-1] + struct[k-1][2]
    <3>1. k \in {1, 2, 3, 4, 5, 6}
      OBVIOUS
    <3> QED BY <1>1, <3>1
  <2> QED BY <1>1, <2>1 DEF Places
<1> HIDE DEF f
<1>3. PICK place : place = Identify!Offset(struct)
  OBVIOUS
<1>4. Places(struct, place)
  BY <1>2, <1>3, OffsetIs, Zenon
<1>5. \A k \in 1..6 : place[k] = IF k = 1 THEN 0 ELSE place[k-1] + struct[k-1][2]
  BY <1>1, <1>4 DEF Places
<1>6. place[1] = 0 /\ place[2] = 1 /\ place[3] = 5 /\ place[4] = 6 /\ place[5] = 8
  <2>1. place[1] = 0
    BY <1>5
  <2>2. place[2] = 1
    BY <1>1, <1>5, <2>1
  <2>3. place[3] = 5
    BY <1>1, <1>5, <2>2
  <2>4. place[4] = 6
    BY <1>1, <1>5, <2>3
  <2>5. place[5] = 8
    BY <1>1, <1>5, <2>4
  <2> QED BY <2>1, <2>2, <2>3, <2>4, <2>5
<1> QED BY <1>3, <1>6, Zenon DEF struct

LEMMA OffsetsD == LET place == Identify!Offset(Identify!ExtraD)
                  IN  place[2] = 11 /\ place[4] = 20 /\ place[6] = 26 /\ place[7] = 27 /\ place[9] = 29
<1> DEFINE struct == Identify!ExtraD
           f == [k \in 1..10 |-> IF k = 1 THEN 0 ELSE IF k = 2 THEN 11 ELSE IF k = 3 THEN 12 ELSE IF k = 4 THEN 20
                                ELSE IF k = 5 THEN 21 ELSE IF k = 6 THEN 26 ELSE IF k = 7 THEN 27
                                ELSE IF k = 8 THEN 28 ELSE IF k = 9 THEN 29 ELSE 30]
<1>1. /\ Len(struct) = 10
      /\ struct[1][2] = 11 /\ struct[2][2] = 1 /\ struct[3][2] = 8 /\ struct[4][2] = 1 /\ struct[5][2] = 5
      /\ struct[6][2] = 1 /\ struct[7][2] = 1 /\ struct[8][2] = 1 /\ struct[9][2] = 1
  BY DEF Identify!ExtraD
<1> HIDE DEF struct
<1>2. Places(struct, f)
  <2>1. ASSUME NEW k \in 1..10 PROVE f[k] = IF k = 1 THEN 0 ELSE f[k-1] + struct[k-1][2]
    <3>1. k \in {1, 2, 3, 4, 5, 6, 7, 8, 9, 10}
      OBVIOUS
    <3> QED BY <1>1, <3>1
  <2> QED BY <1>1, <2>1 DEF Places
<1> HIDE DEF f
<1>3. PICK place : place = Identify!Offset(struct)
  OBVIOUS
<1>4. Places(struct, place)
  BY <1>2, <1>3, OffsetIs, Zenon
<1>5. \A k \in 1..10 : place[k] = IF k = 1 THEN 0 ELSE place[k-1] + struct[k-1][2]
  BY <1>1, <1>4 DEF Places
<1>6. /\ place[1] = 0 /\ place[2] = 11 /\ place[3] = 12 /\ place[4] = 20 /\ place[5] = 21
      /\ place[6] = 26 /\ place[7] = 27 /\ place[8] = 28 /\ place[9] = 29
  <2>1. place[1] = 0
    BY <1>1, <1>5
  <2>2. place[2] = 11
    BY <1>1, <1>5, <2>1
  <2>3. place[3] = 12
    BY <1>1, <1>5, <2>2
  <2>4. place[4] = 20
    BY <1>1, <1>5, <2>3
  <2>5. place[5] = 21
    BY <1>1, <1>5, <2>4
  <2>6. place[6] = 26
    BY <1>1, <1>5, <2>5
  <2>7. place[7] = 27
    BY <1>1, <1>5, <2>6
  <2>8. place[8] = 28
    BY <1>1, <1>5, <2>7
  <2>9. place[9] = 29
    BY <1>1, <1>5, <2>8
  <2> QED BY <2>1, <2>2, <2>3, <2>4, <2>5, <2>6, <2>7, <2>8, <2>9
<1> QED BY <1>3, <1>6, Zenon DEF struct

(* Which features the extended leaf's structures name, and where.          *)
LEMMA UsedC == LET struct == Identify!ExtraC
  IN  /\ Identify!Used(struct) = {1, 3, 5}
      /\ struct[1][1] = "lahf_sahf_available" /\ struct[3][1] = "lzcnt"
      /\ struct[5][1] = "prefetchw"
<1> DEFINE struct == Identify!ExtraC
<1>1. /\ DOMAIN struct = {1, 2, 3, 4, 5, 6}
      /\ struct[1][1] = "lahf_sahf_available" /\ struct[2][1] = "_unused1"
      /\ struct[3][1] = "lzcnt" /\ struct[4][1] = "_unused2"
      /\ struct[5][1] = "prefetchw" /\ struct[6][1] = "_unused3"
  BY DEF Identify!ExtraC
<1> HIDE DEF struct
<1>2. Identify!Used(struct) = {1, 3, 5}
  BY <1>1 DEF Identify!Used
<1> QED BY <1>1, <1>2, Zenon DEF struct

LEMMA UsedD == LET struct == Identify!ExtraD
  IN  /\ Identify!Used(struct) = {2, 4, 6, 7, 9}
      /\ struct[2][1] = "syscall_sysret_64" /\ struct[4][1] = "exec_disable_bit"
      /\ struct[6][1] = "has_1Gbit_pages" /\ struct[7][1] = "rtdscp_ia32_tsc_aux"
      /\ struct[9][1] = "arch64_available"
<1> DEFINE struct == Identify!ExtraD
<1>1. /\ DOMAIN struct = {1, 2, 3, 4, 5, 6, 7, 8, 9, 10}
      /\ struct[1][1] = "_unused1" /\ struct[2][1] = "syscall_sysret_64"
      /\ struct[3][1] = "_unused2" /\ struct[4][1] = "exec_disable_bit"
      /\ struct[5][1] = "_unused3" /\ struct[6][1] = "has_1Gbit_pages"
      /\ struct[7][1] = "rtdscp_ia32_tsc_aux" /\ struct[8][1] = "_unused4"
      /\ struct[9][1] = "arch64_available" /\ struct[10][1] = "_unused5"
  BY DEF Identify!ExtraD
<1> HIDE DEF struct
<1>2. Identify!Used(struct) = {2, 4, 6, 7, 9}
  BY <1>1 DEF Identify!Used
<1> QED BY <1>1, <1>2, Zenon DEF struct

LEMMA StatesC == ASSUME NEW reg, NEW name, NEW y
  PROVE <<name, y>> \in Identify!States(Identify!ExtraC, reg) <=>
          \/ name = "lahf_sahf_available" /\ y = (0 \in reg)
          \/ name = "lzcnt" /\ y = (5 \in reg)
          \/ name = "prefetchw" /\ y = (8 \in reg)
<1>1. PICK struct, place : struct = Identify!ExtraC /\ place = Identify!Offset(struct)
  OBVIOUS
<1>2. /\ Identify!Used(struct) = {1, 3, 5}
      /\ struct[1][1] = "lahf_sahf_available" /\ struct[3][1] = "lzcnt"
      /\ struct[5][1] = "prefetchw"
      /\ place[1] = 0 /\ place[3] = 5 /\ place[5] = 8
  BY <1>1, UsedC, OffsetsC, Zenon
<1>3. <<name, y>> \in Identify!States(struct, reg) <=>
          \E k \in Identify!Used(struct) : name = struct[k][1] /\ y = (Identify!Offset(struct)[k] \in reg)
  BY DEF Identify!States
<1> QED BY <1>1, <1>2, <1>3, Zenon

LEMMA StatesD == ASSUME NEW reg, NEW name, NEW y
  PROVE <<name, y>> \in Identify!States(Identify!ExtraD, reg) <=>
          \/ name = "syscall_sysret_64" /\ y = (11 \in reg)
          \/ name = "exec_disable_bit" /\ y = (20 \in reg)
          \/ name = "has_1Gbit_pages" /\ y = (26 \in reg)
          \/ name = "rtdscp_ia32_tsc_aux" /\ y = (27 \in reg)
          \/ name = "arch64_available" /\ y = (29 \in reg)
<1>1. PICK struct, place : struct = Identify!ExtraD /\ place = Identify!Offset(struct)
  OBVIOUS
<1>2. /\ Identify!Used(struct) = {2, 4, 6, 7, 9}
      /\ struct[2][1] = "syscall_sysret_64" /\ struct[4][1] = "exec_disable_bit"
      /\ struct[6][1] = "has_1Gbit_pages" /\ struct[7][1] = "rtdscp_ia32_tsc_aux"
      /\ struct[9][1] = "arch64_available"
      /\ place[2] = 11 /\ place[4] = 20 /\ place[6] = 26 /\ place[7] = 27 /\ place[9] = 29
  BY <1>1, UsedD, OffsetsD, Zenon
<1>3. <<name, y>> \in Identify!States(struct, reg) <=>
          \E k \in Identify!Used(struct) : name = struct[k][1] /\ y = (Identify!Offset(struct)[k] \in reg)
  BY DEF Identify!States
<1>4. ASSUME NEW k \in {2, 4, 6, 7, 9}, name = struct[k][1], y = (Identify!Offset(struct)[k] \in reg)
      PROVE \/ name = "syscall_sysret_64" /\ y = (11 \in reg)
            \/ name = "exec_disable_bit" /\ y = (20 \in reg)
            \/ name = "has_1Gbit_pages" /\ y = (26 \in reg)
            \/ name = "rtdscp_ia32_tsc_aux" /\ y = (27 \in reg)
            \/ name = "arch64_available" /\ y = (29 \in reg)
  BY <1>1, <1>2, <1>4, Zenon
<1>5. /\ 2 \in {2, 4, 6, 7, 9} /\ 4 \in {2, 4, 6, 7, 9} /\ 6 \in {2, 4, 6, 7, 9}
      /\ 7 \in {2, 4, 6, 7, 9} /\ 9 \in {2, 4, 6, 7, 9}
  OBVIOUS
<1>6. \A k \in {2, 4, 6, 7, 9} : name = struct[k][1] /\ y = (place[k] \in reg) =>
         <<name, y>> \in Identify!States(struct, reg)
  BY <1>1, <1>2, <1>3, Zenon
<1>7. /\ name = "syscall_sysret_64" /\ y = (11 \in reg) => <<name, y>> \in Identify!States(struct, reg)
      /\ name = "exec_disable_bit" /\ y = (20 \in reg) => <<name, y>> \in Identify!States(struct, reg)
      /\ name = "has_1Gbit_pages" /\ y = (26 \in reg) => <<name, y>> \in Identify!States(struct, reg)
      /\ name = "rtdscp_ia32_tsc_aux" /\ y = (27 \in reg) => <<name, y>> \in Identify!States(struct, reg)
      /\ name = "arch64_available" /\ y = (29 \in reg) => <<name, y>> \in Identify!States(struct, reg)
  BY <1>2, <1>5, <1>6, Zenon
<1> QED BY <1>1, <1>2, <1>3, <1>4, <1>7, Zenon

(* None of the features of leaf 1 has the name of one of these.            *)
ExtraNames == {"lahf_sahf_available", "lzcnt", "prefetchw", "syscall_sysret_64",
               "exec_disable_bit", "has_1Gbit_pages", "rtdscp_ia32_tsc_aux", "arch64_available"}

LEMMA OtherNames == ASSUME NEW reg, NEW name \in ExtraNames, NEW y
  PROVE <<name, y>> \notin Identify!States(Identify!Pfeatures, reg)
<1>1. \A k \in DOMAIN Identify!Pfeatures : Identify!Pfeatures[k][1] \notin ExtraNames
  BY SMTT(100) DEF Identify!Pfeatures, Identify!One, ExtraNames
<1> QED BY <1>1 DEF Identify!States, Identify!Used

-----------------------------------------------------------------------------
(* The tasks of cpuid.c.                                                   *)

LEMMA ManualIs ==
  /\ DOMAIN Identify!ManualExtra = ExtraNames
  /\ Identify!ManualExtra["lahf_sahf_available"] = <<"cx", 0>>
  /\ Identify!ManualExtra["lzcnt"] = <<"cx", 5>>
  /\ Identify!ManualExtra["prefetchw"] = <<"cx", 8>>
  /\ Identify!ManualExtra["syscall_sysret_64"] = <<"dx", 11>>
  /\ Identify!ManualExtra["exec_disable_bit"] = <<"dx", 20>>
  /\ Identify!ManualExtra["has_1Gbit_pages"] = <<"dx", 26>>
  /\ Identify!ManualExtra["rtdscp_ia32_tsc_aux"] = <<"dx", 27>>
  /\ Identify!ManualExtra["arch64_available"] = <<"dx", 29>>
BY DEF Identify!ManualExtra, ExtraNames

(* The features as the two structures' fields give them.                   *)
AsManual(name, y, c, d) ==
    <<name, y>> \in Identify!States(Identify!ExtraC, c) \union Identify!States(Identify!ExtraD, d)
      <=> y = (Identify!ManualExtra[name][2] \in
                 IF Identify!ManualExtra[name][1] = "cx" THEN c ELSE d)

LEMMA ExtraStates == ASSUME NEW c, NEW d, NEW name \in ExtraNames, NEW y
  PROVE AsManual(name, y, c, d)
<1>1. <<name, y>> \in Identify!States(Identify!ExtraC, c) <=>
          \/ name = "lahf_sahf_available" /\ y = (0 \in c)
          \/ name = "lzcnt" /\ y = (5 \in c)
          \/ name = "prefetchw" /\ y = (8 \in c)
  BY StatesC, Zenon
<1>2. <<name, y>> \in Identify!States(Identify!ExtraD, d) <=>
          \/ name = "syscall_sysret_64" /\ y = (11 \in d)
          \/ name = "exec_disable_bit" /\ y = (20 \in d)
          \/ name = "has_1Gbit_pages" /\ y = (26 \in d)
          \/ name = "rtdscp_ia32_tsc_aux" /\ y = (27 \in d)
          \/ name = "arch64_available" /\ y = (29 \in d)
  BY StatesD, Zenon
<1>3. CASE name = "lahf_sahf_available"
  <2>1. Identify!ManualExtra[name][1] = "cx" /\ Identify!ManualExtra[name][2] = 0
    BY <1>3, ManualIs
  <2> QED BY <1>1, <1>2, <1>3, <2>1 DEF AsManual
<1>4. CASE name = "lzcnt"
  <2>1. Identify!ManualExtra[name][1] = "cx" /\ Identify!ManualExtra[name][2] = 5
    BY <1>4, ManualIs
  <2> QED BY <1>1, <1>2, <1>4, <2>1 DEF AsManual
<1>5. CASE name = "prefetchw"
  <2>1. Identify!ManualExtra[name][1] = "cx" /\ Identify!ManualExtra[name][2] = 8
    BY <1>5, ManualIs
  <2> QED BY <1>1, <1>2, <1>5, <2>1 DEF AsManual
<1>6. CASE name = "syscall_sysret_64"
  <2>1. Identify!ManualExtra[name][1] = "dx" /\ Identify!ManualExtra[name][2] = 11
    BY <1>6, ManualIs
  <2> QED BY <1>1, <1>2, <1>6, <2>1 DEF AsManual
<1>7. CASE name = "exec_disable_bit"
  <2>1. Identify!ManualExtra[name][1] = "dx" /\ Identify!ManualExtra[name][2] = 20
    BY <1>7, ManualIs
  <2> QED BY <1>1, <1>2, <1>7, <2>1 DEF AsManual
<1>8. CASE name = "has_1Gbit_pages"
  <2>1. Identify!ManualExtra[name][1] = "dx" /\ Identify!ManualExtra[name][2] = 26
    BY <1>8, ManualIs
  <2> QED BY <1>1, <1>2, <1>8, <2>1 DEF AsManual
<1>9. CASE name = "rtdscp_ia32_tsc_aux"
  <2>1. Identify!ManualExtra[name][1] = "dx" /\ Identify!ManualExtra[name][2] = 27
    BY <1>9, ManualIs
  <2> QED BY <1>1, <1>2, <1>9, <2>1 DEF AsManual
<1>10. CASE name = "arch64_available"
  <2>1. Identify!ManualExtra[name][1] = "dx" /\ Identify!ManualExtra[name][2] = 29
    BY <1>10, ManualIs
  <2> QED BY <1>1, <1>2, <1>10, <2>1 DEF AsManual
<1> QED BY <1>3, <1>4, <1>5, <1>6, <1>7, <1>8, <1>9, <1>10 DEF ExtraNames

LEMMA CpuidInit == ASSUME Init PROVE Identify!Reported
<1>1. task = "cpuid_0x80000000" /\ printed = {}
  BY DEF Init, Identify!Init
<1> QED BY <1>1 DEF Identify!Reported, Identify!ExtendedReported

LEMMA CpuidKeeps == ASSUME Identify!Reported, Identify!Next PROVE Identify!Reported'
<1>1. CASE Identify!Cpuid0x80000000
  <2>1. /\ task = "cpuid_0x80000000" /\ task' = "cpuid_0x80000001" /\ max_cpuid' = cpu.extended
        /\ UNCHANGED <<cpu, printed>>
    BY <1>1, Zenon DEF Identify!Cpuid0x80000000
  <2>2. printed' = {}
    BY <2>1, Zenon DEF Identify!Reported
  <2>3. task' \notin {"cpuid_1", "done"}
    BY <2>1
  <2> QED BY <2>1, <2>2, <2>3, Zenon DEF Identify!Reported, Identify!ExtendedReported
<1>2. CASE Identify!Cpuid0x80000001
  <2>1. /\ task = "cpuid_0x80000001" /\ task' = "cpuid_1" /\ cpu' = cpu
        /\ max_cpuid => printed' = Identify!States(Identify!ExtraC, cpu.cx)
                                   \union Identify!States(Identify!ExtraD, cpu.dx)
        /\ ~max_cpuid => printed' = printed
    BY <1>2 DEF Identify!Cpuid0x80000001
  <2>2. printed = {} /\ max_cpuid = cpu.extended
    BY <2>1, Zenon DEF Identify!Reported
  <2>3. ASSUME NEW name \in DOMAIN Identify!ManualExtra, NEW y \in BOOLEAN
        PROVE <<name, y>> \in printed' <=>
                /\ cpu.extended
                /\ y = (Identify!ManualExtra[name][2] \in cpu[Identify!ManualExtra[name][1]])
    <3>1. CASE max_cpuid
      <4>1. name \in ExtraNames
        BY <2>3, ManualIs, Zenon
      <4>2. <<name, y>> \in printed' <=>
              y = (Identify!ManualExtra[name][2] \in
                     IF Identify!ManualExtra[name][1] = "cx" THEN cpu.cx ELSE cpu.dx)
        <5>1. PICK c, d : c = cpu.cx /\ d = cpu.dx
          OBVIOUS
        <5>2. printed' = Identify!States(Identify!ExtraC, c)
                           \union Identify!States(Identify!ExtraD, d)
          BY <2>1, <3>1, <5>1, Zenon
        <5>3. AsManual(name, y, c, d)
          BY <4>1, ExtraStates, Zenon
        <5> QED BY <5>1, <5>2, <5>3, Zenon DEF AsManual
      <4>3. Identify!ManualExtra[name][1] \in {"cx", "dx"}
        BY <4>1, ManualIs DEF ExtraNames
      <4>4. cpu.cx = cpu["cx"] /\ cpu.dx = cpu["dx"]
        OBVIOUS
      <4>5. (IF Identify!ManualExtra[name][1] = "cx" THEN cpu.cx ELSE cpu.dx)
              = cpu[Identify!ManualExtra[name][1]]
        BY <4>3, <4>4
      <4>6. cpu.extended
        BY <2>2, <3>1, Zenon
      <4> QED BY <4>2, <4>5, <4>6, Zenon
    <3>2. CASE ~max_cpuid
      <4>1. ~cpu.extended
        BY <2>2, <3>2, Zenon
      <4> QED BY <2>1, <2>2, <3>2, <4>1, Zenon
    <3> QED BY <3>1, <3>2
  <2>4. Identify!ExtendedReported'
    BY <2>1, <2>3, Zenon DEF Identify!ExtendedReported
  <2>5. task' \notin {"cpuid_0x80000000", "cpuid_0x80000001"}
    BY <2>1
  <2> QED BY <2>4, <2>5, Zenon DEF Identify!Reported
<1>3. CASE Identify!Cpuid1
  <2>1. /\ task = "cpuid_1" /\ task' = "done" /\ cpu' = cpu
        /\ printed' = printed \union Identify!States(Identify!Pfeatures, proc_features')
    BY <1>3 DEF Identify!Cpuid1
  <2>2. \A name \in ExtraNames : \A y : <<name, y>> \in printed' <=> <<name, y>> \in printed
    BY <2>1, OtherNames
  <2>3. task \in {"cpuid_1", "done"} /\ task' \notin {"cpuid_0x80000000", "cpuid_0x80000001"}
    BY <2>1
  <2>4. Identify!ExtendedReported /\ DOMAIN Identify!ManualExtra = ExtraNames
    BY ManualIs, Zenon DEF Identify!Reported
  <2>5. Identify!ExtendedReported'
    BY <2>1, <2>2, <2>3, <2>4, Zenon DEF Identify!ExtendedReported
  <2> QED BY <2>1, <2>3, <2>5 DEF Identify!Reported
<1> QED BY <1>1, <1>2, <1>3 DEF Identify!Next

-----------------------------------------------------------------------------
(* The loop.                                                               *)

LEMMA LineApart == ASSUME Line!PortOK, UNCHANGED line PROVE Line!PortOK'
<1>1. UNCHANGED <<port, expecting, command, pc, input>>
  BY DEF line
<1> QED BY <1>1, LineDone DEF Line!PortOK, Line!KeepsRunning

LEMMA IdentityApart == ASSUME Identify!Reported, UNCHANGED identity PROVE Identify!Reported'
<1>1. UNCHANGED <<task, max_cpuid, cpu, printed>>
  BY DEF identity
<1> QED BY <1>1, Zenon DEF Identify!Reported, Identify!ExtendedReported

LEMMA OtherSteps == ASSUME Kept, UNCHANGED <<identity, line>> PROVE Kept'
BY LineApart, IdentityApart DEF Kept

LEMMA KeptByEachStep == ASSUME Kept, [Next]_vars PROVE Kept'
<1>1. CASE Begin
  BY <1>1, OtherSteps DEF Begin
<1>2. CASE ProgressBar
  BY <1>2, OtherSteps DEF ProgressBar, Go
<1>3. CASE PrintExecuting
  BY <1>3, OtherSteps DEF PrintExecuting, Go
<1>4. CASE PrintDone
  BY <1>4, OtherSteps DEF PrintDone
<1>5. CASE Finish
  BY <1>5, OtherSteps DEF Finish, Go
<1>6. CASE SetMemorySize
  BY <1>6, OtherSteps DEF SetMemorySize, Go
<1>7. CASE CpuidTask
  <2>1. Identify!Next /\ UNCHANGED line
    BY <1>7 DEF CpuidTask
  <2> QED BY <2>1, CpuidKeeps, LineApart DEF Kept
<1>8. CASE A20Task
  <2>1. /\ Line!A20Int15 \/ Line!A20KeyboardWait \/ Line!A20KeyboardAccess
        /\ UNCHANGED identity
    BY <1>8 DEF A20Task, Line!Task
  <2> QED BY <2>1, Int15Keeps, KeyboardKeeps, IdentityApart DEF Kept
<1>9. CASE GdtSetup
  BY <1>9, OtherSteps DEF GdtSetup, Go
<1>10. CASE DiskProps
  BY <1>10, OtherSteps DEF DiskProps, Go
<1>11. CASE Device
  <2>1. Line!Device /\ UNCHANGED identity
    BY <1>11 DEF Device
  <2> QED BY <2>1, DeviceKeeps, IdentityApart DEF Kept
<1>12. CASE UNCHANGED vars
  BY <1>12, OtherSteps DEF vars
<1> QED BY <1>1, <1>2, <1>3, <1>4, <1>5, <1>6, <1>7, <1>8, <1>9, <1>10, <1>11, <1>12 DEF Next

-----------------------------------------------------------------------------
(* The types.                                                              *)

(* Every step is one of cpuid.c's, or leaves what is its; and so of a20.   *)
LEMMA EachPart == ASSUME [Next]_vars PROVE [Identify!Next]_identity /\ [Line!Next]_line
<1>1. CASE CpuidTask
  BY <1>1 DEF CpuidTask
<1>2. CASE A20Task
  BY <1>2 DEF A20Task, Line!Next
<1>3. CASE Device
  BY <1>3 DEF Device, Line!Next
<1>4. CASE \/ Begin \/ ProgressBar \/ PrintExecuting \/ PrintDone \/ Finish
           \/ SetMemorySize \/ GdtSetup \/ DiskProps \/ UNCHANGED vars
  <2>1. UNCHANGED identity /\ UNCHANGED line
    BY <1>4 DEF Begin, ProgressBar, PrintExecuting, PrintDone, Finish, SetMemorySize, GdtSetup, DiskProps,
                vars, Go
  <2> QED BY <2>1
<1> QED BY <1>1, <1>2, <1>3, <1>4 DEF Next

LEMMA IdentityTyped == ASSUME Identify!TypeOK, [Identify!Next]_identity PROVE Identify!TypeOK'
<1>1. /\ cpu.c1 \subseteq 0..31 /\ cpu.d1 \subseteq 0..31 /\ cpu.cx \subseteq 0..31
      /\ cpu.dx \subseteq 0..31 /\ cpu.extended \in BOOLEAN /\ cpu.id \in 0..255
  <2>1. cpu \in [c1 : SUBSET Leaf1C, d1 : SUBSET Leaf1D, cx : SUBSET LeafX1C, dx : SUBSET LeafX1D,
                 extended : BOOLEAN, id : ApicIds]
    BY Zenon DEF Identify!TypeOK
  <2>2. /\ cpu.c1 \subseteq Leaf1C /\ cpu.d1 \subseteq Leaf1D /\ cpu.cx \subseteq LeafX1C
        /\ cpu.dx \subseteq LeafX1D /\ cpu.extended \in BOOLEAN /\ cpu.id \in ApicIds
    BY <2>1
  <2>3. Leaf1C \union Leaf1D \union LeafX1C \union LeafX1D \subseteq 0..31 /\ ApicIds \subseteq 0..255
    BY CpuidAssumption, Zenon
  <2>4. /\ Leaf1C \subseteq 0..31 /\ Leaf1D \subseteq 0..31 /\ LeafX1C \subseteq 0..31
        /\ LeafX1D \subseteq 0..31
    BY <2>3
  <2>5. cpu.c1 \subseteq 0..31 /\ cpu.d1 \subseteq 0..31
    BY <2>2, <2>4
  <2>6. cpu.cx \subseteq 0..31 /\ cpu.dx \subseteq 0..31
    BY <2>2, <2>4
  <2>7. cpu.extended \in BOOLEAN /\ cpu.id \in 0..255
    BY <2>2, <2>3
  <2> QED BY <2>5, <2>6, <2>7, Zenon
<1>2. CASE Identify!Cpuid0x80000000
  BY <1>1, <1>2 DEF Identify!Cpuid0x80000000, Identify!TypeOK
<1>3. CASE Identify!Cpuid0x80000001
  <2>1. cpuid_infos_extra_1c' \subseteq 0..31 /\ cpuid_infos_extra_1d' \subseteq 0..31
    <3>1. \/ cpuid_infos_extra_1c' = cpu.cx /\ cpuid_infos_extra_1d' = cpu.dx
          \/ UNCHANGED <<cpuid_infos_extra_1c, cpuid_infos_extra_1d>>
      BY <1>3, Zenon DEF Identify!Cpuid0x80000001
    <3> QED BY <1>1, <3>1, Zenon DEF Identify!TypeOK
  <2>2. task' = "cpuid_1" /\ UNCHANGED <<cpu, max_cpuid, loc_apic_id, proc_features>>
    BY <1>3, Zenon DEF Identify!Cpuid0x80000001
  <2> QED BY <2>1, <2>2, Zenon DEF Identify!TypeOK
<1>4. CASE Identify!Cpuid1
  <2>1. loc_apic_id' \in 0..15
    BY <1>1, <1>4 DEF Identify!Cpuid1, Identify!ApicId
  <2>2. proc_features' \subseteq 0..63
    <3>1. PICK c, d : c = cpu.c1 /\ d = cpu.d1
      OBVIOUS
    <3>2. c \union {32 + b : b \in d} \subseteq 0..63
      BY <1>1, <3>1
    <3> QED BY <1>4, <3>1, <3>2, Zenon DEF Identify!Cpuid1
  <2>3. task' = "done" /\ UNCHANGED <<cpu, max_cpuid, cpuid_infos_extra_1c, cpuid_infos_extra_1d>>
    BY <1>4, Zenon DEF Identify!Cpuid1
  <2> QED BY <2>1, <2>2, <2>3, Zenon DEF Identify!TypeOK
<1>5. CASE UNCHANGED identity
  BY <1>5, Zenon DEF identity, Identify!TypeOK
<1> QED BY <1>2, <1>3, <1>4, <1>5 DEF Identify!Next

LEMMA LineTyped == ASSUME Line!TypeOK, Line!PortOK, [Line!Next]_line PROVE Line!TypeOK'
<1>1. Line!Done = 15 /\ Len(Line!Script) = 14
  BY DEF Line!Done, Line!Script
<1>2. CASE Line!A20Int15
  BY <1>1, <1>2 DEF Line!A20Int15, Line!Opened, Line!TypeOK, Line!Byte, Line!Bits, Line!controller
<1>3. CASE Line!A20KeyboardAccess
  <2>1. UNCHANGED <<bios, others, expecting, keyboard, port>>
    BY <1>3 DEF Line!A20KeyboardAccess
  <2>2. pc' \in 0..Line!Done
    BY <1>1, <1>3 DEF Line!A20KeyboardAccess
  <2>3. a' \in Line!Byte
    BY <1>3 DEF Line!A20KeyboardAccess, Line!TypeOK
  <2>4. said' \in {"nothing", "failed", "success"}
    BY <1>3 DEF Line!A20KeyboardAccess, Line!TypeOK
  <2>5. Len(output') <= 1 /\ (output' # <<>> => output'[1] \in Line!Byte)
    <3>1. output' = output \/ output' = <<>>
      BY <1>3, Zenon DEF Line!A20KeyboardAccess
    <3>2. Len(<<>>) <= 1
      OBVIOUS
    <3> QED BY <3>1, <3>2, Zenon DEF Line!TypeOK
  <2>6. Len(input') <= 1
    <3>1. \/ input' = input
          \/ \E item : input' = <<item>>
      BY <1>3, Zenon DEF Line!A20KeyboardAccess, Line!Write
    <3>2. ASSUME NEW item PROVE Len(<<item>>) <= 1
      OBVIOUS
    <3> QED BY <3>1, <3>2, Zenon DEF Line!TypeOK
  <2>7. command' \in BOOLEAN
    <3>1. \/ command' = command
          \/ \E kind : command' = (kind = "command")
      BY <1>3, Zenon DEF Line!A20KeyboardAccess, Line!Write
    <3> QED BY <3>1 DEF Line!TypeOK
  <2> QED BY <2>1, <2>2, <2>3, <2>4, <2>5, <2>6, <2>7, Zenon DEF Line!TypeOK
<1>6. CASE Line!A20KeyboardWait
  <2>1. UNCHANGED <<bios, others, a, said, input, output, command, expecting, keyboard, port>>
    BY <1>6 DEF Line!A20KeyboardWait, Line!controller
  <2>2. pc' \in 0..Line!Done
    BY <1>1, <1>6 DEF Line!A20KeyboardWait
  <2> QED BY <2>1, <2>2, Zenon DEF Line!TypeOK
<1>4. CASE Line!Device
  <2>1. UNCHANGED <<bios, others, pc, a, said, command>>
    BY <1>4 DEF Line!Device, Line!Consume, Line!Key, Line!code
  <2>2. CASE Line!Key
    <3>1. UNCHANGED <<input, expecting, keyboard, port>>
      BY <2>2, Zenon DEF Line!Key
    <3>2. PICK byte \in Line!Byte : output' = <<byte>>
      BY <2>2, Zenon DEF Line!Key
    <3>3. Len(output') <= 1 /\ output'[1] \in Line!Byte
      BY <3>2
    <3> QED BY <2>1, <3>1, <3>3, Zenon DEF Line!TypeOK
  <2>3. CASE Line!Consume
    <3>1. input # <<>> /\ input' = <<>>
      BY <2>3, Zenon DEF Line!Consume
    <3>2. port' = port
      <4>1. ~expecting
        BY <3>1, Zenon DEF Line!PortOK
      <4> QED BY <2>3, <4>1, Zenon DEF Line!Consume
    <3>3. port \in Line!Byte
      BY Zenon DEF Line!TypeOK
    <3>4. output' = output \/ output' = <<port>>
      BY <2>3, Zenon DEF Line!Consume
    <3>5. Len(output') <= 1 /\ (output' # <<>> => output'[1] \in Line!Byte)
      <4>1. ASSUME NEW byte \in Line!Byte, output' = <<byte>>
            PROVE Len(output') <= 1 /\ output'[1] \in Line!Byte
        BY <4>1
      <4> QED BY <3>3, <3>4, <4>1, Zenon DEF Line!TypeOK
    <3>6. expecting' \in BOOLEAN /\ keyboard' \in BOOLEAN
      <4>1. /\ expecting' = (input[1][1] = "command" /\ input[1][2] = "D1")
            /\ \/ keyboard' = (input[1][2] = "AE")
               \/ keyboard' = keyboard
        BY <2>3, Zenon DEF Line!Consume
      <4> QED BY <4>1 DEF Line!TypeOK
    <3>7. Len(input') <= 1
      BY <3>1
    <3> QED BY <2>1, <3>2, <3>5, <3>6, <3>7, Zenon DEF Line!TypeOK
  <2> QED BY <1>4, <2>2, <2>3, Zenon DEF Line!Device
<1>5. CASE UNCHANGED line
  BY <1>5, Zenon DEF line, Line!TypeOK
<1> QED BY <1>2, <1>3, <1>4, <1>5, <1>6 DEF Line!Next, Line!Task

LEMMA TypedInit == ASSUME Init PROVE Identify!TypeOK /\ Line!TypeOK
<1>1. Identify!TypeOK
  <2>1. cpu \in [c1 : SUBSET Leaf1C, d1 : SUBSET Leaf1D, cx : SUBSET LeafX1C, dx : SUBSET LeafX1D,
                 extended : BOOLEAN, id : ApicIds]
    BY DEF Init, Identify!Init
  <2>2. /\ task = "cpuid_0x80000000" /\ max_cpuid = FALSE /\ loc_apic_id = 0
        /\ proc_features = {} /\ cpuid_infos_extra_1c = {} /\ cpuid_infos_extra_1d = {}
    BY Zenon DEF Init, Identify!Init
  <2>3. 0 \in 0..15
    OBVIOUS
  <2>4. loc_apic_id \in 0..15 /\ max_cpuid \in BOOLEAN
    BY <2>2, <2>3, Zenon
  <2> QED BY <2>1, <2>2, <2>4, Zenon DEF Identify!TypeOK
<1>2. Line!TypeOK
  <2>1. /\ bios \in Bioses /\ others \in OtherBits
        /\ pc = 0 /\ a = {} /\ said = "nothing"
        /\ input \in {<<>>, << <<"command", "AE">> >>, << <<"data", {}>> >>} /\ output = <<>>
        /\ command \in IF input = <<>> THEN BOOLEAN ELSE {input[1][1] = "command"}
        /\ expecting = FALSE /\ keyboard = TRUE
        /\ port \in {{"run"}, Line!Bits}
    BY Zenon DEF Init, Line!Init
  <2>2. Len(input) <= 1 /\ Len(output) <= 1
    BY <2>1
  <2>5. command \in BOOLEAN
    <3>1. (input[1][1] = "command") \in BOOLEAN
      OBVIOUS
    <3>2. input # <<>> => command = (input[1][1] = "command")
      BY <2>1, Zenon
    <3>3. input = <<>> => command \in BOOLEAN
      BY <2>1, Zenon
    <3> QED BY <3>1, <3>2, <3>3, Zenon
  <2>3. pc \in 0..Line!Done
    BY <2>1 DEF Line!Done, Line!Script
  <2>4. a \in Line!Byte /\ port \in Line!Byte
    BY <2>1 DEF Line!Byte, Line!Bits
  <2> QED BY <2>1, <2>2, <2>3, <2>4, <2>5, Zenon DEF Line!TypeOK
<1> QED BY <1>1, <1>2

Parts == Identify!TypeOK /\ Line!TypeOK /\ Kept /\ Shown

LEMMA PartsOfIInv == IInv <=> Parts
BY Zenon DEF IInv, TypeOK, Parts, Shown, LoopTyped

-----------------------------------------------------------------------------
(* For every processor, every machine and every width of the screen: the   *)
(* loop of stage 2, a20, the tasks of cpuid.c and what they all print keep *)
(* the invariant.                                                          *)
THEOREM Invariance == Spec => []IInv
<1>1. Init => Parts
  BY TypedInit, ShownInit, LineInit, CpuidInit DEF Kept, Parts
<1>2. Parts /\ [Next]_vars => Parts'
  BY EachPart, IdentityTyped, LineTyped, KeptByEachStep, ShownByEachStep, Zenon DEF Kept, Parts
<1> QED BY <1>1, <1>2, PartsOfIInv, PTL DEF Spec

(* Whatever the BIOS answers and whatever keys are pressed, before a20 and *)
(* in it, no byte that lacks the bit of the processor's reset line is put  *)
(* on the output port of the keyboard controller.                          *)
THEOREM KeepsItRunning == Spec => []KeepsRunning
<1>1. IInv => KeepsRunning
  BY Zenon DEF IInv, Kept, Line!PortOK, KeepsRunning
<1> QED BY <1>1, Invariance, PTL

(* What stage 2 prints of each feature of the extended leaf is what the    *)
(* processor answers, through the widths of the structures of cpuid.h, for *)
(* every processor; and it prints none of them if there is no such leaf.   *)
THEOREM ExtendedAsReported == Spec => []ExtendedReported
<1>1. IInv => ExtendedReported
  BY Zenon DEF IInv, Kept, Identify!Reported, ExtendedReported
<1> QED BY <1>1, Invariance, PTL

(* Of all that is printed, no character is drawn over but the one in the   *)
(* first column by which a full row runs into the next, whatever the width *)
(* of the screen: nowhere does the row overflow to the top of the screen.  *)
THEOREM OnlyWraps == Spec => []OnlyWrapsClobber
<1>1. IInv => OnlyWrapsClobber
  BY Zenon DEF IInv, ScreenOK
<1> QED BY <1>1, Invariance, PTL

(* If the bar has place in its row, as it has in 80 columns, then drawing  *)
(* it leaves the cursor and the colour of the text where they were, fills  *)
(* the nine cells of the bar and nothing else, and no message after it is  *)
(* drawn to any of them.                                                   *)
THEOREM BarApart == ASSUME Columns >= 10 PROVE Spec => BarAndTextApart
<1>1. IInv /\ [Next]_vars => [Display!BarAndTextApart(Count)]_screen
  BY PartsOfIInv, ApartByEachStep, Zenon DEF Parts
<1> QED BY <1>1, Invariance, PTL DEF Spec, BarAndTextApart

=============================================================================
