-------------------------------- MODULE Screen --------------------------------
(***************************************************************************)
(* The text screen of sys/kprintf.c.  A state of it is a record:           *)
(*   cells     the video memory, maxheight + 1 rows (attributes left out)  *)
(*   row, col  the cell temp2 points to                                    *)
(*   toLeft    the column the driver believes the cursor to be in          *)
(*   numLines  the row the driver believes it to be in                     *)
(***************************************************************************)
EXTENDS Integers

CONSTANTS
  maxwidth,      \* 80 columns; the code also writes 79
  maxheight,     \* 24, for 25 rows; the code also writes 22
  Glyphs         \* the characters that are shown

NL  == "newline"
NUL == "nul"
CR  == "return"

(* What the constants have to satisfy; a module that uses them assumes it. *)
ScreenConstants ==
  /\ maxwidth \in Nat /\ maxwidth >= 2
  /\ maxheight \in Nat /\ maxheight >= 2
  /\ Glyphs \cap {NL, CR} = {}

Rows     == 0 .. maxheight
Columns  == 0 .. maxwidth - 1
Space    == "space"
Blank(c) == [j \in Columns |-> c]
Bottom   == maxheight - 1      \* the row that numLines stops at

clearScreen ==
  [cells |-> [i \in Rows |-> Blank(Space)],
   row |-> 0, col |-> 0, toLeft |-> 0, numLines |-> 0]

(* rollUP() has a temp2 of its own: it does not move the cursor.  The last *)
(* row keeps its text, the copy of it in the row above is wiped.           *)
rollUP(cells) == [i \in Rows |-> IF i < Bottom THEN cells[i + 1]
                                 ELSE IF i = Bottom THEN Blank(NUL)
                                 ELSE cells[i]]

(* Seeded fault: nothing scrolls, lines go on below the screen. *)
NewLineUnscrolled(s) ==
  [s EXCEPT !.row = s.numLines + 1, !.col = 0, !.toLeft = 0, !.numLines = @ + 1]

NewLine(s) ==
  [s EXCEPT !.row = s.numLines + 1,
            !.col = 0,
            !.toLeft = 0,
            !.cells = IF s.numLines = Bottom THEN rollUP(@) ELSE @,
            !.numLines = IF @ = Bottom THEN @ ELSE @ + 1]

(* temp2 += 2 and temp2 -= 2 *)
Forward(s) == IF s.col = maxwidth - 1 THEN [s EXCEPT !.row = @ + 1, !.col = 0]
                                      ELSE [s EXCEPT !.col = @ + 1]
Back(s)    == IF s.col = 0 THEN [s EXCEPT !.row = @ - 1, !.col = maxwidth - 1]
                           ELSE [s EXCEPT !.col = @ - 1]

Store(s, ch) == [s EXCEPT !.cells[s.row][s.col] = ch]

(* Seeded fault: the test for the right margin comes one column late. *)
CountLate(s) ==
  IF s.toLeft = maxwidth THEN
    IF s.numLines = Bottom
    THEN [s EXCEPT !.cells = rollUP(@), !.row = maxheight - 2, !.col = 0, !.toLeft = 0]
    ELSE [s EXCEPT !.numLines = @ + 1, !.toLeft = 0]
  ELSE [s EXCEPT !.toLeft = @ + 1]

(* The end of writeToSbush(): one column on.  At the right margin of the   *)
(* last row the screen scrolls and the cursor goes two rows up from it.    *)
CountColumn(s) ==
  IF s.toLeft = maxwidth - 1 THEN
    IF s.numLines = Bottom
    THEN [s EXCEPT !.cells = rollUP(@), !.row = maxheight - 2, !.col = 0, !.toLeft = 0]
    ELSE [s EXCEPT !.numLines = @ + 1, !.toLeft = 0]
  ELSE [s EXCEPT !.toLeft = @ + 1]

(* A carriage return goes to the first column but is counted as a column,  *)
(* so that toLeft runs ahead of the cursor.  No program here prints it.    *)
Return(s) == CountColumn([s EXCEPT !.row = s.numLines, !.col = 0, !.toLeft = 0])

writeToSbush(s, ch) == CASE ch = NL -> NewLine(s)
                         [] ch = CR -> Return(s)
                         [] OTHER   -> CountColumn(Forward(Store(s, ch)))

StepBack(s) == Back([s EXCEPT !.toLeft = @ - 1])

(* Seeded fault: the cursor steps back over the beginning of the row.      *)
BackspaceAnywhere(s) ==
  IF s.row = 0 /\ s.col = 0 THEN s
  ELSE StepBack(writeToSbush(StepBack(s), Space))

(* Seeded fault: the cursor stays behind the space that wipes out. *)
BackspaceOnce(s) ==
  IF s.toLeft = 0 THEN s ELSE writeToSbush(StepBack(s), Space)

backspace(s) ==
  IF s.toLeft = 0 THEN s
  ELSE StepBack(writeToSbush(StepBack(s), Space))

-----------------------------------------------------------------------------
(* What keeps the cursor in video memory: the driver knows its column, and *)
(* its row as well until numLines has reached Bottom; from then on the     *)
(* cursor is in one of the three last rows.                                *)
CursorKnown(s) ==
  /\ s.toLeft = s.col
  /\ s.numLines < Bottom => s.row = s.numLines
  /\ s.numLines = Bottom => s.row \in maxheight - 2 .. maxheight

Screens == [cells : [Rows -> [Columns -> Glyphs \cup {Space, NUL}]],
            row : Rows, col : Columns, toLeft : Columns, numLines : 0 .. Bottom]
=============================================================================
