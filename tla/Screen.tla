------------------------------- MODULE Screen -------------------------------
(***************************************************************************)
(* The screen of stage 2: print.c, which keeps a cursor and a colour of    *)
(* its own and has the BIOS draw one character at a time, and the progress *)
(* bar of load.c, which moves both away and back.  Nothing scrolls.        *)
(*                                                                         *)
(* A text is a sequence of characters, "newline" and colours.  Of what is  *)
(* on the screen the model keeps where the last text or bar was drawn, how *)
(* far texts have come, and in which columns one was drawn over another.   *)
(***************************************************************************)
EXTENDS Integers, SequencesExt

CONSTANT Columns        \* 80 on the screen

VARIABLES cursor_pos, cur_color, progress_cursor,
          drawn,        \* [by, cells] of the last text or bar
          reach,        \* the last cell a text has come to
          clobbered     \* columns in which a text was drawn over

screen == <<cursor_pos, cur_color, progress_cursor, drawn, reach, clobbered>>

Colors == {"black", "blue", "green", "red", "light_gray", "dark_gray", "yellow"}

Init ==
    /\ cursor_pos = [row |-> 0, column |-> 0] /\ progress_cursor = cursor_pos
    /\ cur_color = "black"
    /\ drawn = [by |-> "text", cells |-> {}] /\ reach = -1 /\ clobbered = {}

-----------------------------------------------------------------------------
(* int 0x10 counts cells row by row: the column after the last one is the  *)
(* first of the next row.                                                  *)
Cell(pos) == (Columns * pos.row) + pos.column

NextRow(row) == (row + 1) % 256

AdvancedInRow(pos) == [pos EXCEPT !.column = IF @ >= Columns THEN 0 ELSE @ + 1]
Advanced(pos) == IF pos.column >= Columns
                   THEN [row |-> NextRow(pos.row), column |-> 0]
                   ELSE [pos EXCEPT !.column = @ + 1]

(* One character more: the cursor and colour after it, the cells drawn to, *)
(* the last that text has come to, and columns where it was there before.  *)
Putc(so, c) ==
    CASE c \in Colors  -> [so EXCEPT !.color = c]
      [] c = "newline" -> [so EXCEPT !.pos = [row |-> NextRow(@.row), column |-> 0]]
      [] OTHER ->
           LET cell == Cell(so.pos)
           IN  [so EXCEPT !.pos = Advanced(@), !.cells = @ \union {cell},
                          !.over = IF cell <= so.top THEN @ \union {so.pos.column} ELSE @,
                          !.top = IF cell <= @ THEN @ ELSE cell]

Typed(pos, color, text) ==
    LET typed[i \in 0..Len(text)] ==
            IF i = 0 THEN [pos |-> pos, color |-> color, cells |-> {}, top |-> reach, over |-> {}]
            ELSE Putc(typed[i - 1], text[i])
    IN  typed[Len(text)]

Puts(text) ==
    LET so == Typed(cursor_pos, cur_color, text)
    IN  /\ cursor_pos' = so.pos /\ cur_color' = so.color
        /\ drawn' = [by |-> "text", cells |-> so.cells]
        /\ reach' = so.top /\ clobbered' = clobbered \union so.over

-----------------------------------------------------------------------------
(* load.c: one character for each task, between brackets.                  *)

Bar(curr, count) ==
    <<"[">> \o [i \in 1..count |-> IF i < curr THEN "=" ELSE IF i = curr THEN ">" ELSE "blank"]
    \o <<"]">>

ColorLeft(base) == "yellow"
ColorRestored(base) == base

UpdateProgressBar(curr, count) ==
    LET so == Typed(progress_cursor, "yellow", Bar(curr, count))
    IN  /\ drawn' = [by |-> "bar", cells |-> so.cells]
        /\ cur_color' = ColorRestored(cur_color)
        /\ UNCHANGED <<cursor_pos, progress_cursor, reach, clobbered>>

(* The first lines; the rest of the second one is the bar's.               *)
FirstLines == <<"stage_2_loaded", "newline", "light_gray", "executing">>

Begin ==
    LET so  == Typed(cursor_pos, cur_color, FirstLines)
        end == Typed(so.pos, so.color, <<"newline">>)
    IN  /\ progress_cursor' = so.pos
        /\ cursor_pos' = end.pos /\ cur_color' = end.color
        /\ drawn' = [by |-> "text", cells |-> so.cells] /\ reach' = so.top
        /\ UNCHANGED clobbered

-----------------------------------------------------------------------------
(* Every variable keeps its type.                                          *)
TypeOK ==
    /\ cursor_pos \in [row : 0..255, column : 0..Columns]
    /\ progress_cursor \in [row : 0..255, column : 0..Columns]
    /\ cur_color \in Colors /\ drawn.by \in {"text", "bar"}
    /\ reach \in Int /\ reach >= -1 /\ clobbered \subseteq 0..(Columns - 1)

(* The cells of a bar for n tasks.                                         *)
BarCells(n) == {Cell(progress_cursor) + k : k \in 0..(n + 1)}

(* Drawing the bar leaves everything but the bar as it was, and the texts  *)
(* after it leave the bar: colour and cursor are those of the text, and no *)
(* cell is both's.                                                         *)
BarAndTextApart(n) ==
    progress_cursor' = progress_cursor /\ drawn' # drawn =>
         IF drawn'.by = "bar"
           THEN /\ drawn'.cells = BarCells(n)
                /\ cursor_pos' = cursor_pos /\ cur_color' = cur_color
           ELSE drawn'.cells \intersect BarCells(n) = {}

(* A character of a text is drawn over only in column 0, by the one after  *)
(* the one that did not fit its row.                                       *)
OnlyWrapsClobber == clobbered \subseteq {0}

(* What it needs: texts have not come past the cursor, but for a character *)
(* that did not fit the row before.                                        *)
Ahead(pos, top) == top < Cell(pos) \/ (pos.column = 0 /\ top <= Cell(pos))
=============================================================================
