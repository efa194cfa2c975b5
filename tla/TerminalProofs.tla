----------------------------- MODULE TerminalProofs -----------------------------
(***************************************************************************)
(* Proofs about module Terminal, for every size of the screen and of the   *)
(* line buffer and for everything programs may print: the cursor never     *)
(* leaves video memory, the driver never loses its column, and editing a   *)
(* line never reaches into the rows above it.                              *)
(***************************************************************************)
EXTENDS Terminal, KeyboardProofs

Glyphs == Chars \cup (Printed \ {NL})

(* What a cell may show. *)
Shown == Glyphs \cup {"space", "nul"}

(* The driver's view of a screen is right. *)
Fits(s) == s \in Scr!Screens /\ Scr!CursorKnown(s)

(* The screen has two columns and three rows at least, and no program      *)
(* prints a carriage return.                                               *)
LEMMA ScreenSize ==
  /\ maxwidth \in Nat /\ maxwidth >= 2
  /\ maxheight \in Nat /\ maxheight >= 2
  /\ "newline" \notin Glyphs /\ "return" \notin Glyphs
BY TerminalAssumption DEF Scr!ScreenConstants, Scr!NL, Scr!CR, Glyphs, NL

(* The parts of a screen.                                                  *)
LEMMA ScreenParts ==
  /\ Scr!Rows = 0 .. maxheight /\ Scr!Columns = 0 .. maxwidth - 1
  /\ Scr!Bottom = maxheight - 1
  /\ Scr!Screens = [cells : [0 .. maxheight -> [0 .. maxwidth - 1 -> Shown]],
                    row : 0 .. maxheight, col : 0 .. maxwidth - 1,
                    toLeft : 0 .. maxwidth - 1, numLines : 0 .. maxheight - 1]
BY DEF Scr!Rows, Scr!Columns, Scr!Bottom, Scr!Screens, Scr!Space, Scr!NUL, Shown, Glyphs

Cells == [0 .. maxheight -> [0 .. maxwidth - 1 -> Shown]]

(* Scrolling keeps the cells cells.                                        *)
LEMMA RollUp ==
  ASSUME NEW cells \in Cells
  PROVE  /\ Scr!rollUP(cells) \in Cells
         /\ \A r \in 0 .. maxheight - 2 : Scr!rollUP(cells)[r] = cells[r + 1]
<1>1. maxheight \in Nat /\ maxwidth \in Nat
  BY ScreenSize
<1>2. Scr!rollUP(cells) = [i \in 0 .. maxheight |->
          IF i < maxheight - 1 THEN cells[i + 1]
          ELSE IF i = maxheight - 1 THEN [j \in 0 .. maxwidth - 1 |-> "nul"] ELSE cells[i]]
  BY DEF Scr!rollUP, Scr!Rows, Scr!Bottom, Scr!Blank, Scr!Columns, Scr!NUL
<1>3. [j \in 0 .. maxwidth - 1 |-> "nul"] \in [0 .. maxwidth - 1 -> Shown]
  BY DEF Shown
<1>4. \A i \in 0 .. maxheight : i < maxheight - 1 => i + 1 \in 0 .. maxheight
  BY <1>1
<1> DEFINE Line == [0 .. maxwidth - 1 -> Shown]
<1>5. cells \in [0 .. maxheight -> Line]
  BY DEF Cells
<1> HIDE DEF Line
<1>6. Scr!rollUP(cells) \in [0 .. maxheight -> Line]
  BY <1>1, <1>2, <1>3, <1>4, <1>5 DEF Line
<1>7. \A r \in 0 .. maxheight - 2 : Scr!rollUP(cells)[r] = cells[r + 1]
  BY <1>1, <1>2
<1> QED  BY <1>6, <1>7 DEF Cells, Line

(* A new line.                                                             *)
LEMMA NewLineFits ==
  ASSUME NEW s, Fits(s)
  PROVE  /\ Fits(Scr!NewLine(s))
         /\ Scr!NewLine(s).cells = IF s.numLines = maxheight - 1 THEN Scr!rollUP(s.cells)
                                                                  ELSE s.cells
<1>1. /\ s \in [cells : Cells, row : 0 .. maxheight, col : 0 .. maxwidth - 1,
                toLeft : 0 .. maxwidth - 1, numLines : 0 .. maxheight - 1]
      /\ maxwidth \in Nat /\ maxwidth >= 2 /\ maxheight \in Nat /\ maxheight >= 2
  BY ScreenParts, ScreenSize DEF Fits, Cells
<1> DEFINE n == Scr!NewLine(s)
<1> DEFINE cells == IF s.numLines = maxheight - 1 THEN Scr!rollUP(s.cells) ELSE s.cells
<1> DEFINE lines == IF s.numLines = maxheight - 1 THEN s.numLines ELSE s.numLines + 1
<1>2. n = [s EXCEPT !.row = s.numLines + 1, !.col = 0, !.toLeft = 0,
                    !.cells = cells, !.numLines = lines]
  BY DEF Scr!NewLine, Scr!Bottom
<1>3. cells \in Cells /\ lines \in 0 .. maxheight - 1 /\ s.numLines + 1 \in 0 .. maxheight
      /\ 0 \in 0 .. maxwidth - 1
  BY <1>1, RollUp
<1> HIDE DEF Cells, cells, lines, n
<1>4. n \in [cells : Cells, row : 0 .. maxheight, col : 0 .. maxwidth - 1,
             toLeft : 0 .. maxwidth - 1, numLines : 0 .. maxheight - 1]
  BY <1>1, <1>2, <1>3
<1>5. n.toLeft = 0 /\ n.col = 0 /\ n.row = s.numLines + 1 /\ n.numLines = lines
      /\ n.cells = cells
  BY <1>1, <1>2
<1>6. Scr!CursorKnown(n)
  BY <1>1, <1>5 DEF Scr!CursorKnown, Scr!Bottom, lines
<1> QED  BY <1>4, <1>5, <1>6, ScreenParts DEF Fits, Cells, n, cells

(* Storing a character changes its cell.                                   *)
LEMMA StoreCells ==
  ASSUME NEW cells \in Cells, NEW r \in 0 .. maxheight, NEW c \in 0 .. maxwidth - 1,
         NEW ch \in Shown
  PROVE  /\ [cells EXCEPT ![r][c] = ch] \in Cells
         /\ \A i \in 0 .. maxheight : i # r => [cells EXCEPT ![r][c] = ch][i] = cells[i]
BY DEF Cells

(* The cells with another character in one of them.                        *)
Stored(cells, r, c, ch) == [cells EXCEPT ![r][c] = ch]

(* No other cell of its row changes.                                       *)
LEMMA StoreRow ==
  ASSUME NEW cells \in Cells, NEW r \in 0 .. maxheight, NEW c \in 0 .. maxwidth - 1, NEW ch
  PROVE  /\ Stored(cells, r, c, ch)[r][c] = ch
         /\ \A j \in 0 .. maxwidth - 1 : j # c => Stored(cells, r, c, ch)[r][j] = cells[r][j]
BY DEF Cells, Stored

(* A character in the last column: the cursor goes to the next row, and    *)
(* the screen scrolls at its end.                                          *)
LEMMA WrapFits ==
  ASSUME NEW s, Fits(s), NEW ch \in Shown, s.toLeft = maxwidth - 1,
         NEW w, w = Scr!CountColumn(Scr!Forward(Scr!Store(s, ch)))
  PROVE  /\ Fits(w) /\ w.toLeft = 0
         /\ LET stored == [s.cells EXCEPT ![s.row][s.col] = ch]
            IN  w.cells = IF s.numLines = maxheight - 1 THEN Scr!rollUP(stored) ELSE stored
<1>1. /\ s \in [cells : Cells, row : 0 .. maxheight, col : 0 .. maxwidth - 1,
                toLeft : 0 .. maxwidth - 1, numLines : 0 .. maxheight - 1]
      /\ maxwidth \in Nat /\ maxwidth >= 2 /\ maxheight \in Nat /\ maxheight >= 2
      /\ s.col = maxwidth - 1
      /\ s.numLines < maxheight - 1 => s.row = s.numLines
  BY ScreenParts, ScreenSize DEF Fits, Cells, Scr!CursorKnown, Scr!Bottom
<1> DEFINE stored == [s.cells EXCEPT ![s.row][s.col] = ch]
<1>2. stored \in Cells /\ Scr!rollUP(stored) \in Cells
  BY <1>1, StoreCells, RollUp
<1> DEFINE a == [s EXCEPT !.cells = stored]
<1> DEFINE b == [a EXCEPT !.row = a.row + 1, !.col = 0]
<1>3. Scr!Store(s, ch) = a
  BY DEF Scr!Store
<1> HIDE DEF stored, Cells
<1>4. a.col = maxwidth - 1
  BY <1>1
<1>5. Scr!Forward(a) = b
  BY <1>4 DEF Scr!Forward
<1>6. b.toLeft = maxwidth - 1 /\ b.numLines = s.numLines /\ b.cells = stored
      /\ b.row = s.row + 1 /\ b.col = 0
  BY <1>1
<1>9. b \in [cells : Cells, row : Int, col : 0 .. maxwidth - 1,
             toLeft : 0 .. maxwidth - 1, numLines : 0 .. maxheight - 1]
  <2>1. a \in [cells : Cells, row : 0 .. maxheight, col : 0 .. maxwidth - 1,
               toLeft : 0 .. maxwidth - 1, numLines : 0 .. maxheight - 1]
    BY <1>1, <1>2
  <2>2. a.row + 1 \in Int /\ 0 \in 0 .. maxwidth - 1
    BY <1>1, <2>1
  <2> HIDE DEF a
  <2> QED  BY <2>1, <2>2
<1> HIDE DEF b
<1>7. CASE s.numLines = maxheight - 1
  <2>1. w = [b EXCEPT !.cells = Scr!rollUP(stored), !.row = maxheight - 2,
                      !.col = 0, !.toLeft = 0]
    BY <1>3, <1>5, <1>6, <1>7 DEF Scr!CountColumn, Scr!Bottom
  <2>5. maxheight - 2 \in 0 .. maxheight /\ 0 \in 0 .. maxwidth - 1
    BY <1>1
  <2>2. w \in [cells : Cells, row : 0 .. maxheight, col : 0 .. maxwidth - 1,
               toLeft : 0 .. maxwidth - 1, numLines : 0 .. maxheight - 1]
    BY <1>2, <1>9, <2>1, <2>5
  <2>3. w.toLeft = 0 /\ w.col = 0 /\ w.row = maxheight - 2 /\ w.numLines = maxheight - 1
        /\ w.cells = Scr!rollUP(stored)
    BY <1>6, <1>7, <1>9, <2>1
  <2>4. Scr!CursorKnown(w)
    BY <1>1, <2>3 DEF Scr!CursorKnown, Scr!Bottom
  <2> QED  BY <1>7, <2>2, <2>3, <2>4, ScreenParts DEF Fits, Cells, stored
<1>8. CASE s.numLines # maxheight - 1
  <2>1. w = [b EXCEPT !.numLines = b.numLines + 1, !.toLeft = 0]
    BY <1>3, <1>5, <1>6, <1>8 DEF Scr!CountColumn, Scr!Bottom
  <2>2. w \in [cells : Cells, row : 0 .. maxheight, col : 0 .. maxwidth - 1,
               toLeft : 0 .. maxwidth - 1, numLines : 0 .. maxheight - 1]
    <3>1. b.numLines + 1 \in 0 .. maxheight - 1 /\ 0 \in 0 .. maxwidth - 1
      BY <1>1, <1>6, <1>8
    <3>2. b.row \in 0 .. maxheight
      BY <1>1, <1>6, <1>8
    <3> QED  BY <1>9, <2>1, <3>1, <3>2
  <2>3. w.toLeft = 0 /\ w.col = 0 /\ w.row = s.row + 1 /\ w.numLines = s.numLines + 1
        /\ w.cells = stored
    BY <1>6, <1>9, <2>1
  <2>4. Scr!CursorKnown(w)
    BY <1>1, <1>8, <2>3 DEF Scr!CursorKnown, Scr!Bottom
  <2> QED  BY <1>8, <2>2, <2>3, <2>4, ScreenParts DEF Fits, Cells, stored
<1> QED  BY <1>7, <1>8

(* A character in any other column: the cursor goes one column on.         *)
LEMMA ColumnFits ==
  ASSUME NEW s, Fits(s), NEW ch \in Shown, s.toLeft # maxwidth - 1,
         NEW w, w = Scr!CountColumn(Scr!Forward(Scr!Store(s, ch)))
  PROVE  /\ Fits(w) /\ w.toLeft = s.toLeft + 1 /\ w.row = s.row
         /\ w.cells = [s.cells EXCEPT ![s.row][s.col] = ch]
<1>1. /\ s \in [cells : Cells, row : 0 .. maxheight, col : 0 .. maxwidth - 1,
                toLeft : 0 .. maxwidth - 1, numLines : 0 .. maxheight - 1]
      /\ maxwidth \in Nat /\ maxwidth >= 2 /\ maxheight \in Nat /\ maxheight >= 2
      /\ s.col = s.toLeft
  BY ScreenParts, ScreenSize DEF Fits, Cells, Scr!CursorKnown, Scr!Bottom
<1> DEFINE stored == [s.cells EXCEPT ![s.row][s.col] = ch]
<1>2. stored \in Cells
  BY <1>1, StoreCells
<1> DEFINE a == [s EXCEPT !.cells = stored]
<1> DEFINE b == [a EXCEPT !.col = a.col + 1]
<1>3. Scr!Store(s, ch) = a
  BY DEF Scr!Store
<1> HIDE DEF stored, Cells
<1>4. a.col # maxwidth - 1
  BY <1>1
<1>5. Scr!Forward(a) = b
  BY <1>4 DEF Scr!Forward
<1>6. w = [b EXCEPT !.toLeft = b.toLeft + 1]
  <2>1. b.toLeft # maxwidth - 1
    BY <1>1
  <2> QED  BY <1>3, <1>5, <2>1 DEF Scr!CountColumn
<1>7. w \in [cells : Cells, row : 0 .. maxheight, col : 0 .. maxwidth - 1,
             toLeft : 0 .. maxwidth - 1, numLines : 0 .. maxheight - 1]
  <2>1. a \in [cells : Cells, row : 0 .. maxheight, col : 0 .. maxwidth - 1,
               toLeft : 0 .. maxwidth - 1, numLines : 0 .. maxheight - 1]
    BY <1>1, <1>2
  <2>2. a.col + 1 \in 0 .. maxwidth - 1 /\ a.toLeft + 1 \in 0 .. maxwidth - 1
        /\ a.toLeft = b.toLeft
    BY <1>1
  <2> HIDE DEF a
  <2>3. b \in [cells : Cells, row : 0 .. maxheight, col : 0 .. maxwidth - 1,
               toLeft : 0 .. maxwidth - 1, numLines : 0 .. maxheight - 1]
    BY <2>1, <2>2
  <2> HIDE DEF b
  <2> QED  BY <1>6, <2>2, <2>3
<1>8. w.toLeft = s.toLeft + 1 /\ w.col = s.col + 1 /\ w.row = s.row
      /\ w.numLines = s.numLines /\ w.cells = stored
  BY <1>1, <1>6
<1>9. Scr!CursorKnown(w)
  BY <1>1, <1>8 DEF Scr!CursorKnown, Scr!Bottom, Fits
<1> QED  BY <1>7, <1>8, <1>9, ScreenParts DEF Fits, Cells, stored

(* Whatever is written, the driver's view stays right.                     *)
LEMMA WriteFits ==
  ASSUME NEW s, Fits(s), NEW ch \in Shown \cup {NL}
  PROVE  Fits(Scr!writeToSbush(s, ch))
<1>1. ch # "return"
  <2>1. ch \in Glyphs \/ ch = "space" \/ ch = "nul" \/ ch = "newline"
    BY DEF Shown, NL
  <2> QED  BY <2>1, ScreenSize
<1>2. CASE ch = NL
  <2>1. Scr!writeToSbush(s, ch) = Scr!NewLine(s)
    BY <1>2 DEF Scr!writeToSbush, Scr!NL, Scr!CR, NL
  <2> QED  BY <2>1, NewLineFits
<1>3. CASE ch # NL
  <2>1. Scr!writeToSbush(s, ch) = Scr!CountColumn(Scr!Forward(Scr!Store(s, ch)))
    BY <1>1, <1>3 DEF Scr!writeToSbush, Scr!NL, Scr!CR, NL
  <2>2. ch \in Shown
    BY <1>3
  <2>3. ASSUME s.toLeft = maxwidth - 1
        PROVE  Fits(Scr!CountColumn(Scr!Forward(Scr!Store(s, ch))))
    BY ONLY Fits(s), <2>2, <2>3, WrapFits
  <2>4. ASSUME s.toLeft # maxwidth - 1
        PROVE  Fits(Scr!CountColumn(Scr!Forward(Scr!Store(s, ch))))
    BY ONLY Fits(s), <2>2, <2>4, ColumnFits
  <2> QED  BY <2>1, <2>3, <2>4
<1> QED  BY <1>2, <1>3

(* The rows above the cursor stay, or move up by one.                      *)
LEMMA WriteKeepsAbove ==
  ASSUME NEW s, Fits(s), NEW ch \in Shown \cup {NL}, NEW r \in 0 .. s.row - 1,
         NEW w, w = Scr!writeToSbush(s, ch)
  PROVE  \/ w.cells[r] = s.cells[r]
         \/ /\ s.numLines = maxheight - 1
            /\ r + 1 < s.row /\ r + 1 < maxheight => w.cells[r] = s.cells[r + 1]
<1>1. /\ s.cells \in Cells /\ s.row \in 0 .. maxheight /\ s.col \in 0 .. maxwidth - 1
      /\ maxheight \in Nat /\ r \in 0 .. maxheight /\ r # s.row
  BY ScreenParts, ScreenSize DEF Fits, Cells
<1>2. \A ch2 \in Shown :
         LET stored == [s.cells EXCEPT ![s.row][s.col] = ch2]
         IN  /\ stored \in Cells
             /\ \A i \in 0 .. maxheight : i # s.row => stored[i] = s.cells[i]
  BY <1>1, StoreCells
<1>3. CASE ch = NL
  <2>1. w = Scr!NewLine(s)
    BY <1>3 DEF Scr!writeToSbush, Scr!NL, Scr!CR, NL
  <2>2. w.cells = IF s.numLines = maxheight - 1 THEN Scr!rollUP(s.cells) ELSE s.cells
    BY <2>1, NewLineFits
  <2> QED  BY <1>1, <2>2, RollUp
<1>4. CASE ch # NL
  <2>1. ch \in Shown /\ ch # "return"
    <3>1. ch \in Glyphs \/ ch = "space" \/ ch = "nul"
      BY <1>4 DEF Shown
    <3> QED  BY <1>4, <3>1, ScreenSize
  <2>2. w = Scr!CountColumn(Scr!Forward(Scr!Store(s, ch)))
    BY <1>4, <2>1 DEF Scr!writeToSbush, Scr!NL, Scr!CR, NL
  <2> DEFINE stored == [s.cells EXCEPT ![s.row][s.col] = ch]
  <2>3. w.cells = stored \/ (s.numLines = maxheight - 1 /\ w.cells = Scr!rollUP(stored))
    BY <2>1, <2>2, WrapFits, ColumnFits
  <2>4. stored \in Cells /\ \A i \in 0 .. maxheight : i # s.row => stored[i] = s.cells[i]
    BY <1>2, <2>1
  <2> HIDE DEF stored
  <2>5. CASE w.cells = stored
    BY <1>1, <2>4, <2>5
  <2>6. CASE s.numLines = maxheight - 1 /\ w.cells = Scr!rollUP(stored)
    <3>1. ASSUME r + 1 < s.row, r + 1 < maxheight PROVE w.cells[r] = s.cells[r + 1]
      <4>1. r \in 0 .. maxheight - 2 /\ r + 1 \in 0 .. maxheight /\ r + 1 # s.row
        BY <1>1, <3>1
      <4> QED  BY <2>4, <2>6, <4>1, RollUp
    <3> QED  BY <2>6, <3>1
  <2> QED  BY <2>3, <2>5, <2>6
<1> QED  BY <1>3, <1>4

(* One column back, off the left margin.                                   *)
LEMMA BackFits ==
  ASSUME NEW s, Fits(s), s.toLeft # 0, NEW b, b = Scr!StepBack(s)
  PROVE  /\ Fits(b) /\ b.toLeft = s.toLeft - 1 /\ b.row = s.row /\ b.cells = s.cells
<1>1. /\ s \in [cells : Cells, row : 0 .. maxheight, col : 0 .. maxwidth - 1,
                toLeft : 0 .. maxwidth - 1, numLines : 0 .. maxheight - 1]
      /\ maxwidth \in Nat /\ maxwidth >= 2 /\ maxheight \in Nat /\ maxheight >= 2
      /\ s.col = s.toLeft
  BY ScreenParts, ScreenSize DEF Fits, Cells, Scr!CursorKnown, Scr!Bottom
<1> DEFINE a == [s EXCEPT !.toLeft = s.toLeft - 1]
<1> HIDE DEF Cells
<1>2. a \in [cells : Cells, row : 0 .. maxheight, col : 0 .. maxwidth - 1,
             toLeft : 0 .. maxwidth - 1, numLines : 0 .. maxheight - 1]
  <2>1. s.toLeft - 1 \in 0 .. maxwidth - 1
    BY <1>1
  <2> QED  BY <1>1, <2>1
<1>3. a.col = s.col /\ a.toLeft = s.toLeft - 1 /\ a.row = s.row /\ a.cells = s.cells
      /\ a.numLines = s.numLines
  BY <1>1
<1>4. b = Scr!Back(a)
  BY DEF Scr!StepBack
<1> HIDE DEF a
<1>5. b = [a EXCEPT !.col = a.col - 1]
  BY <1>1, <1>3, <1>4 DEF Scr!Back
<1>6. a.col - 1 \in 0 .. maxwidth - 1
  BY <1>1, <1>3
<1>7. b \in [cells : Cells, row : 0 .. maxheight, col : 0 .. maxwidth - 1,
             toLeft : 0 .. maxwidth - 1, numLines : 0 .. maxheight - 1]
  BY <1>2, <1>5, <1>6
<1>8. b.col = s.col - 1 /\ b.toLeft = s.toLeft - 1 /\ b.row = s.row /\ b.cells = s.cells
      /\ b.numLines = s.numLines
  BY <1>2, <1>3, <1>5
<1>9. Scr!CursorKnown(b)
  BY <1>1, <1>8 DEF Scr!CursorKnown, Scr!Bottom, Fits
<1> QED  BY <1>7, <1>8, <1>9, ScreenParts DEF Fits, Cells

(* Rubbing out wipes the cell left of the cursor, which ends up in it.     *)
LEMMA BackspaceErases ==
  ASSUME NEW s, Fits(s), s.toLeft # 0, NEW w, w = Scr!backspace(s)
  PROVE  /\ Fits(w) /\ w.toLeft = s.toLeft - 1 /\ w.row = s.row
         /\ w.cells = [s.cells EXCEPT ![s.row][s.toLeft - 1] = "space"]
<1> DEFINE a == Scr!StepBack(s)
<1> DEFINE v == Scr!writeToSbush(a, "space")
<1>1. Fits(a) /\ a.toLeft = s.toLeft - 1 /\ a.row = s.row /\ a.cells = s.cells
  BY BackFits
<1>2. w = Scr!StepBack(v)
  BY DEF Scr!backspace, Scr!Space
<1>3. s.toLeft \in 0 .. maxwidth - 1 /\ maxwidth \in Nat
  BY ScreenParts, ScreenSize DEF Fits
<1> HIDE DEF a
<1>4. v = Scr!CountColumn(Scr!Forward(Scr!Store(a, "space")))
  BY DEF Scr!writeToSbush, Scr!NL, Scr!CR
<1> HIDE DEF v
<1>5. "space" \in Shown /\ a.toLeft # maxwidth - 1 /\ a.col = a.toLeft
  BY <1>1, <1>3 DEF Shown, Fits, Scr!CursorKnown
<1>6. /\ Fits(v) /\ v.toLeft = a.toLeft + 1 /\ v.row = a.row
      /\ v.cells = [a.cells EXCEPT ![a.row][a.col] = "space"]
  BY <1>1, <1>4, <1>5, ColumnFits
<1>7. v.toLeft = s.toLeft /\ v.toLeft # 0
  BY <1>1, <1>3, <1>6
<1>8. Fits(w) /\ w.cells = v.cells /\ w.row = v.row /\ w.toLeft = v.toLeft - 1
  BY <1>2, <1>6, <1>7, BackFits
<1> QED  BY <1>1, <1>5, <1>6, <1>7, <1>8

(* Rubbing out a character touches nothing above the row of the cursor.    *)
LEMMA BackspaceFits ==
  ASSUME NEW s, Fits(s), NEW w, w = Scr!backspace(s)
  PROVE  /\ Fits(w)
         /\ \A r \in 0 .. s.row - 1 : w.cells[r] = s.cells[r]
<1>1. CASE s.toLeft = 0
  BY <1>1 DEF Scr!backspace
<1>2. CASE s.toLeft # 0
  <2>1. Fits(w) /\ w.cells = [s.cells EXCEPT ![s.row][s.toLeft - 1] = "space"]
    BY <1>2, BackspaceErases
  <2>2. /\ s.toLeft - 1 \in 0 .. maxwidth - 1 /\ s.row \in 0 .. maxheight
        /\ s.cells \in Cells /\ "space" \in Shown /\ maxheight \in Nat
    BY <1>2, ScreenParts, ScreenSize DEF Fits, Cells, Shown
  <2>3. \A r \in 0 .. maxheight : r # s.row => w.cells[r] = s.cells[r]
    BY <2>1, <2>2, StoreCells
  <2> QED  BY <2>1, <2>2, <2>3
<1> QED  BY <1>1, <1>2

-----------------------------------------------------------------------------
(* The console *)

ConsoleInv == BufferInv /\ TTypeOK /\ CursorKept

(* An empty screen is one.                                                 *)
LEMMA ClearFits == Fits(Scr!clearScreen)
<1>1. maxwidth \in Nat /\ maxwidth >= 2 /\ maxheight \in Nat /\ maxheight >= 2
  BY ScreenSize
<1>2. "space" \in Shown
  BY DEF Shown
<1>3. Scr!clearScreen = [cells |-> [i \in 0 .. maxheight |-> [j \in 0 .. maxwidth - 1 |-> "space"]],
                         row |-> 0, col |-> 0, toLeft |-> 0, numLines |-> 0]
  BY DEF Scr!clearScreen, Scr!Rows, Scr!Columns, Scr!Blank, Scr!Space
<1>4. Scr!CursorKnown(Scr!clearScreen)
  BY <1>1, <1>3 DEF Scr!CursorKnown, Scr!Bottom
<1>5. [i \in 0 .. maxheight |-> [j \in 0 .. maxwidth - 1 |-> "space"]]
        \in [0 .. maxheight -> [0 .. maxwidth - 1 -> Shown]]
  BY <1>2
<1>6. 0 \in 0 .. maxheight /\ 0 \in 0 .. maxwidth - 1 /\ 0 \in 0 .. maxheight - 1
  BY <1>1
<1> QED  BY <1>3, <1>4, <1>5, <1>6, ScreenParts DEF Fits

(* The console's invariant says that the screen fits.                      *)
LEMMA ConsoleFits == TTypeOK /\ CursorKept => Fits(screen)
BY DEF TTypeOK, CursorKept, Fits

(* What the keyboard driver echoes can be shown.                           *)
LEMMA EchoFits ==
  ASSUME BufferInv, Fits(screen), TypeKey
  PROVE  Fits(screen')
<1>1. \A c \in Chars \cup {NL} : Echo(c) => Fits(screen')
  <2>1. Chars \cup {NL} \subseteq Shown \cup {NL}
    BY DEF Shown, Glyphs
  <2> QED  BY <2>1, WriteFits DEF Echo
<1>2. ASSUME NEW key \in Keys, Echo(CodeMap(key, IF controlValue = 1 THEN 1 ELSE caps))
      PROVE  Fits(screen')
  <2>1. (IF controlValue = 1 THEN 1 ELSE caps) \in {0, 1}
    BY DEF BufferInv, TypeOK
  <2> QED  BY <1>1, <1>2, <2>1, CodeMapTypes
<1>3. EchoErase => Fits(screen')
  BY BackspaceFits DEF EchoErase
<1>4. Caret \in Chars
  BY DEF Chars
<1> QED  BY <1>1, <1>2, <1>3, <1>4 DEF TypeKey, EchoNothing

(* The console is the keyboard driver with a screen: a step of it is a     *)
(* step of module Keyboard or leaves the driver alone.                     *)
LEMMA StepKeyboard ==
  ASSUME [TNext]_tvars
  PROVE  [Next]_vars
<1>1. CASE UNCHANGED tvars
  BY <1>1 DEF tvars
<1>2. CASE Type
  <2>1. ~overrun /\ TypeKey
    BY <1>2 DEF Type
  <2>2. Key
    BY <2>1 DEF TypeKey, Key
  <2> QED  BY <2>1, <2>2 DEF Next
<1>3. CASE TRead
  BY <1>3 DEF TRead, Next
<1>4. CASE Write \/ Clear \/ PrintChar
  BY <1>4 DEF Write, Clear, PrintChar, BeginOutput
<1> QED  BY <1>1, <1>2, <1>3, <1>4 DEF TNext

(* No step loses the cursor.                                               *)
LEMMA StepConsole ==
  ASSUME ConsoleInv, [TNext]_tvars
  PROVE  ConsoleInv'
<1> USE DEF ConsoleInv
<1>1. BufferInv'
  BY StepKeyboard, StepBuffer
<1>2. Fits(screen)
  BY ConsoleFits
<1>3. ASSUME Fits(screen'), printing' \in Seq(Printed), outputs' \in 0 .. MaxOutputs,
             mixed' \in BOOLEAN
      PROVE  ConsoleInv'
  BY <1>1, <1>3 DEF Fits, TTypeOK, CursorKept
<1>4. /\ printing \in Seq(Printed) /\ outputs \in 0 .. MaxOutputs
      /\ mixed \in BOOLEAN /\ MaxOutputs \in Nat
  BY TerminalAssumption DEF TTypeOK
<1>5. CASE UNCHANGED <<screen, printing, outputs, mixed>>
  BY <1>2, <1>3, <1>4, <1>5
<1>6. CASE Type
  <2>1. Fits(screen')
    BY <1>2, <1>6, EchoFits DEF Type
  <2>2. mixed' \in BOOLEAN /\ UNCHANGED <<printing, outputs>>
    BY <1>6 DEF Type
  <2> QED  BY <1>3, <1>4, <2>1, <2>2
<1>7. CASE TRead
  BY <1>5, <1>7 DEF TRead
<1>8. CASE Write \/ Clear
  <2>1. outputs' \in 0 .. MaxOutputs /\ mixed' \in BOOLEAN
    <3>1. BeginOutput
      BY <1>8 DEF Write, Clear
    <3>2. outputs' \in 0 .. MaxOutputs
      BY <1>4, <3>1 DEF BeginOutput
    <3>3. mixed' = (Current # <<>>)
      BY <3>1 DEF BeginOutput
    <3>4. mixed' \in BOOLEAN
      <4> HIDE DEF Current
      <4> QED  BY <3>3
    <3> QED  BY <3>2, <3>4
  <2>2. CASE Write
    <3>1. PICK o \in Outputs : printing' = o
      BY <2>2 DEF Write
    <3>2. o \in Seq(Printed)
      <4>1. o \in Seq(STRING)
        BY TerminalAssumption
      <4>2. \A i \in 1 .. Len(o) : o[i] \in Printed
        BY <4>1, LenProperties DEF Printed, Range
      <4> QED  BY <4>1, <4>2, LenProperties, SeqDef
    <3>3. screen' = screen
      BY <2>2 DEF Write
    <3> QED  BY <1>2, <1>3, <2>1, <3>1, <3>2, <3>3
  <2>3. CASE Clear
    <3>1. Fits(screen') /\ printing' = printing
      BY <2>3, ClearFits DEF Clear
    <3> QED  BY <1>3, <1>4, <2>1, <3>1
  <2> QED  BY <1>8, <2>2, <2>3
<1>9. CASE PrintChar
  <2>1. /\ printing # <<>> /\ printing' = Tail(printing)
        /\ screen' = Scr!writeToSbush(screen, Head(printing))
        /\ UNCHANGED <<outputs, mixed>>
    BY <1>9 DEF PrintChar
  <2>2. Head(printing) \in Printed /\ Tail(printing) \in Seq(Printed)
    BY <1>4, <2>1, HeadTailProperties
  <2>3. Head(printing) \in Shown \cup {NL}
    BY <2>2 DEF Shown, Glyphs
  <2>4. Fits(screen')
    BY <1>2, <2>1, <2>3, WriteFits
  <2> QED  BY <1>3, <1>4, <2>1, <2>2, <2>4
<1>10. UNCHANGED tvars => UNCHANGED <<screen, printing, outputs, mixed>>
  BY DEF tvars
<1> QED  BY <1>5, <1>6, <1>7, <1>8, <1>9, <1>10 DEF TNext

(* The invariant of the console, in every reachable state.                 *)
LEMMA ConsoleCorrect == TSpec => []ConsoleInv
<1>1. TInit => ConsoleInv
  <2> SUFFICES ASSUME TInit PROVE ConsoleInv
    OBVIOUS
  <2>1. BufferInv
    BY InitBuffer DEF TInit
  <2>2. Fits(screen)
    BY ClearFits DEF TInit
  <2>3. <<>> \in Seq(Printed) /\ 0 \in 0 .. MaxOutputs
    BY TerminalAssumption
  <2> QED  BY <2>1, <2>2, <2>3 DEF TInit, ConsoleInv, TTypeOK, CursorKept, Fits
<1>2. ConsoleInv /\ [TNext]_tvars => ConsoleInv'
  BY StepConsole
<1> QED  BY <1>1, <1>2, PTL DEF TSpec

(* The screen, and what is still to be printed, keep their types.          *)
THEOREM ConsoleTyped == TSpec => []TTypeOK
<1>1. ConsoleInv => TTypeOK
  BY DEF ConsoleInv
<1> QED  BY <1>1, ConsoleCorrect, PTL

(* However keys, prints and clears are interleaved, writeToSbush() and     *)
(* backspace() keep the cursor in video memory and its column counted.     *)
THEOREM CursorStaysOnScreen == TSpec => []CursorKept
<1>1. ConsoleInv => CursorKept
  BY DEF ConsoleInv
<1> QED  BY <1>1, ConsoleCorrect, PTL

(* The echo of a key never changes a row above the cursor's, except that   *)
(* all of them move up when it makes the screen scroll.                    *)
THEOREM RowsAboveStay == TSpec => RowsAboveKept
<1> DEFINE Above ==
      Type => \A r \in 0 .. screen.row - 1 :
        \/ screen'.cells[r] = screen.cells[r]
        \/ /\ strOffset' >= strOffset
           /\ screen.numLines = maxheight - 1
           /\ r + 1 < screen.row /\ r + 1 < maxheight
                 => screen'.cells[r] = screen.cells[r + 1]
<1>1. ConsoleInv /\ [TNext]_tvars => [Above]_tvars
  <2> SUFFICES ASSUME ConsoleInv, Type PROVE Above
    OBVIOUS
  <2> SUFFICES ASSUME NEW r \in 0 .. screen.row - 1
               PROVE  \/ screen'.cells[r] = screen.cells[r]
                      \/ /\ strOffset' >= strOffset
                         /\ screen.numLines = maxheight - 1
                         /\ r + 1 < screen.row /\ r + 1 < maxheight
                               => screen'.cells[r] = screen.cells[r + 1]
    OBVIOUS
  <2>1. Fits(screen) /\ strOffset \in Nat
    BY ConsoleFits, ConstantsAssumption DEF ConsoleInv, BufferInv, TypeOK
  <2>2. ASSUME NEW c \in Chars \cup {NL}, Echo(c)
        PROVE  \/ screen'.cells[r] = screen.cells[r]
               \/ /\ screen.numLines = maxheight - 1
                  /\ r + 1 < screen.row /\ r + 1 < maxheight
                        => screen'.cells[r] = screen.cells[r + 1]
    <3>1. c \in Shown \cup {NL} /\ screen' = Scr!writeToSbush(screen, c)
      BY <2>2 DEF Shown, Glyphs, Echo
    <3> QED  BY <2>1, <3>1, WriteKeepsAbove
  <2>3. CASE EchoErase
    BY <2>1, <2>3, BackspaceFits DEF EchoErase
  <2>4. CASE EchoNothing
    BY <2>4 DEF EchoNothing
  <2>5. CASE \E key \in Keys :
               /\ KeyChar(key)
               /\ Echo(CodeMap(key, IF controlValue = 1 THEN 1 ELSE caps))
    <3>1. (IF controlValue = 1 THEN 1 ELSE caps) \in {0, 1}
      BY DEF ConsoleInv, BufferInv, TypeOK
    <3>2. strOffset' = strOffset + 1
      BY <2>5 DEF KeyChar, Put
    <3> QED  BY <2>1, <2>2, <2>5, <3>1, <3>2, CodeMapTypes
  <2>6. CASE KeyCtrl /\ Echo(Caret)
    <3>1. strOffset' = strOffset + 1 /\ Caret \in Chars
      BY <2>6 DEF KeyCtrl, Put, Chars
    <3> QED  BY <2>1, <2>2, <2>6, <3>1
  <2>7. CASE KeyEnter /\ Echo(NL)
    <3>1. strOffset' = strOffset + 1
      BY <2>7 DEF KeyEnter, Put
    <3> QED  BY <2>1, <2>2, <2>7, <3>1
  <2>8. CASE KeyBeyond /\ \E c \in Chars \cup {NL} : Echo(c)
    <3>1. strOffset' = strOffset
      BY <2>8 DEF KeyBeyond
    <3> QED  BY <2>1, <2>2, <2>8, <3>1
  <2>9. TypeKey
    BY DEF Type
  <2> QED  BY <2>3, <2>4, <2>5, <2>6, <2>7, <2>8, <2>9 DEF TypeKey
<1> QED  BY <1>1, ConsoleCorrect, PTL DEF TSpec, RowsAboveKept

-----------------------------------------------------------------------------
(* What the user sees of the line that is being typed *)

(* Left of the cursor stands what text has before position to, back to b.  *)
Shows(s, text, b, to) ==
  \A k \in 0 .. s.toLeft - 1 :
    k < to - b => s.cells[s.row][s.toLeft - 1 - k] = text[to - 1 - k]

(* The typed line in terms of the buffer.                                  *)
CurrentKnown ==
  BufferInv =>
    \A b : IsBegin(b, inpStr, offset) =>
      /\ Current = << >> <=> strOffset = b
      /\ Len(Current) = strOffset - b
      /\ \A k \in 0 .. strOffset - b - 1 :
           Current[Len(Current) - k] = inpStr[strOffset - 1 - k]

(* It begins where IsBegin says.                                           *)
LEMMA CurrentIs == CurrentKnown
<1> SUFFICES ASSUME BufferInv, NEW b, IsBegin(b, inpStr, offset)
             PROVE  /\ Current = << >> <=> strOffset = b
                    /\ Len(Current) = strOffset - b
                    /\ \A k \in 0 .. strOffset - b - 1 :
                         Current[Len(Current) - k] = inpStr[strOffset - 1 - k]
  BY DEF CurrentKnown
<1>1. /\ offset \in 0 .. Size /\ Size \in Nat /\ strOffset \in 0 .. Size
      /\ b \in Nat /\ b <= strOffset
  BY BeginBehind, ConstantsAssumption DEF BufferInv, TypeOK
<1> DEFINE x == CHOOSE c \in offset .. Size :
                  /\ c = offset \/ inpStr[c - 1] = NL
                  /\ \A i \in c .. Size - 1 : inpStr[i] # NL
<1>2. Current = [k \in 1 .. strOffset - x |-> inpStr[x + k - 1]]
  BY DEF Current
<1>3. x = b
  <2>1. \E c \in offset .. Size : /\ c = offset \/ inpStr[c - 1] = NL
                                  /\ \A i \in c .. Size - 1 : inpStr[i] # NL
    BY DEF IsBegin
  <2>2. IsBegin(x, inpStr, offset)
    BY <2>1 DEF IsBegin
  <2> HIDE DEF x
  <2> QED  BY <1>1, <2>2, BeginUnique
<1> HIDE DEF x
<1>4. Current = [k \in 1 .. strOffset - b |-> inpStr[b + k - 1]]
  BY <1>2, <1>3
<1>5. strOffset - b \in Nat
  BY <1>1
<1>6. PICK n, cur : n = strOffset - b /\ cur = Current
  OBVIOUS
<1>7. cur = [k \in 1 .. n |-> inpStr[b + k - 1]] /\ n \in Nat
  BY <1>4, <1>5, <1>6
<1>8. Len(cur) = n /\ (cur = << >> <=> n = 0)
  <2>1. PICK V : V = {inpStr[b + k - 1] : k \in 1 .. n}
    OBVIOUS
  <2>2. n \in Nat /\ cur \in [1 .. n -> V]
    BY <1>7, <2>1
  <2> QED  BY <2>2, SeqIs
<1>9. ASSUME NEW k \in 0 .. strOffset - b - 1
      PROVE  cur[n - k] = inpStr[strOffset - 1 - k]
  <2>1. n - k \in 1 .. n /\ b + (n - k) - 1 = strOffset - 1 - k
    BY <1>1, <1>6
  <2> QED  BY <1>7, <2>1
<1>10. n = 0 <=> strOffset = b
  BY <1>1, <1>6
<1> QED  BY <1>6, <1>8, <1>9, <1>10

(* So SeenIsTyped is about the positions of the buffer before strOffset.   *)
SeenKnown ==
  BufferInv /\ Fits(screen) =>
    \A b : IsBegin(b, inpStr, offset) =>
      (SeenIsTyped <=> (~mixed /\ ~overrun /\ LinesAccounted
                          => Shows(screen, inpStr, b, strOffset)))

(* It is.                                                                  *)
LEMMA SeenIsShown == SeenKnown
<1> SUFFICES ASSUME BufferInv, Fits(screen), NEW b, IsBegin(b, inpStr, offset)
             PROVE  (\A k \in 0 .. screen.toLeft - 1 :
                       k < Len(Current) =>
                         screen.cells[screen.row][screen.toLeft - 1 - k]
                           = Current[Len(Current) - k])
                    <=> Shows(screen, inpStr, b, strOffset)
  BY DEF SeenIsTyped, SeenKnown
<1>1. PICK n, cur : n = strOffset - b /\ cur = Current
  OBVIOUS
<1>2. Len(cur) = n /\ \A k \in 0 .. n - 1 : cur[Len(cur) - k] = inpStr[strOffset - 1 - k]
  BY <1>1, CurrentIs DEF CurrentKnown
<1>3. n \in Nat /\ screen.toLeft \in Nat
  BY <1>1, BeginBehind, ScreenParts, ScreenSize, ConstantsAssumption
     DEF Fits, BufferInv, TypeOK
<1>4. \A k \in 0 .. screen.toLeft - 1 :
        k < n => cur[Len(cur) - k] = inpStr[strOffset - 1 - k]
  BY <1>2, <1>3
<1> QED  BY <1>1, <1>2, <1>4 DEF Shows

(* A character that is echoed stands left of the cursor.                   *)
LEMMA EchoShows ==
  ASSUME NEW s, Fits(s), NEW c \in Shown, c # NL, NEW w, w = Scr!writeToSbush(s, c),
         NEW text, NEW more, NEW b \in Nat, NEW to \in Nat, b <= to, Shows(s, text, b, to),
         more[to] = c, \A i \in b .. to - 1 : more[i] = text[i]
  PROVE  Shows(w, more, b, to + 1)
<1>1. c # "return"
  <2>1. c \in Glyphs \/ c = "space" \/ c = "nul"
    BY DEF Shown
  <2> QED  BY <2>1, ScreenSize
<1>2. PICK v : v = Scr!CountColumn(Scr!Forward(Scr!Store(s, c)))
  OBVIOUS
<1>2a. w = v
  BY <1>1, <1>2 DEF Scr!writeToSbush, Scr!NL, Scr!CR, NL
<1>3. /\ s.toLeft \in 0 .. maxwidth - 1 /\ s.col = s.toLeft /\ s.row \in 0 .. maxheight
      /\ s.cells \in Cells /\ maxwidth \in Nat
  BY ScreenParts, ScreenSize DEF Fits, Scr!CursorKnown, Cells
<1>4. CASE s.toLeft = maxwidth - 1
  <2>1. v.toLeft = 0
    BY ONLY <1>2, <1>4, WrapFits, Fits(s), c \in Shown
  <2> QED  BY <1>2a, <2>1 DEF Shows
<1>5. CASE s.toLeft # maxwidth - 1
  <2>1. /\ w.toLeft = s.toLeft + 1 /\ w.row = s.row
        /\ w.cells = [s.cells EXCEPT ![s.row][s.col] = c]
    <3>1. /\ v.toLeft = s.toLeft + 1 /\ v.row = s.row
          /\ v.cells = [s.cells EXCEPT ![s.row][s.col] = c]
      BY <1>2, <1>5, ColumnFits
    <3> QED  BY <1>2a, <3>1
  <2>2. /\ w.cells[s.row][s.toLeft] = c
        /\ \A j \in 0 .. maxwidth - 1 :
             j # s.toLeft => w.cells[s.row][j] = s.cells[s.row][j]
    <3>1. w.cells = Stored(s.cells, s.row, s.toLeft, c)
      BY <1>3, <2>1 DEF Stored
    <3> QED  BY <1>3, <3>1, StoreRow
  <2>3. ASSUME NEW k \in 0 .. w.toLeft - 1, k < to + 1 - b
        PROVE  w.cells[w.row][w.toLeft - 1 - k] = more[to + 1 - 1 - k]
    <3>1. CASE k = 0
      <4>1. w.toLeft - 1 - k = s.toLeft /\ to + 1 - 1 - k = to
        BY <1>3, <2>1, <3>1
      <4> QED  BY <2>1, <2>2, <4>1
    <3>2. CASE k # 0
      <4>1. PICK i : i = k - 1
        OBVIOUS
      <4>2. /\ i \in 0 .. s.toLeft - 1 /\ i < to - b
            /\ w.toLeft - 1 - k = s.toLeft - 1 - i
            /\ to + 1 - 1 - k = to - 1 - i
            /\ s.toLeft - 1 - i \in 0 .. maxwidth - 1 /\ s.toLeft - 1 - i # s.toLeft
            /\ to - 1 - i \in b .. to - 1
        BY <1>3, <2>1, <2>3, <3>2, <4>1
      <4>3. s.cells[s.row][s.toLeft - 1 - i] = text[to - 1 - i]
        BY <4>2 DEF Shows
      <4>4. more[to - 1 - i] = text[to - 1 - i]
        BY <4>2
      <4> QED  BY <2>1, <2>2, <4>2, <4>3, <4>4
    <3> QED  BY <3>1, <3>2
  <2> QED  BY <2>3 DEF Shows
<1> QED  BY <1>4, <1>5

(* What is left of the cursor after a backspace is the rest of the line.   *)
LEMMA EraseShows ==
  ASSUME NEW s, Fits(s), NEW w, w = Scr!backspace(s),
         NEW text, NEW less, NEW b \in Nat, NEW to \in Nat, b < to, Shows(s, text, b, to),
         \A i \in b .. to - 2 : less[i] = text[i]
  PROVE  Shows(w, less, b, to - 1)
<1>1. CASE s.toLeft = 0
  <2>1. w = s
    BY <1>1 DEF Scr!backspace
  <2> QED  BY <1>1, <2>1 DEF Shows
<1>2. CASE s.toLeft # 0
  <2>1. /\ w.toLeft = s.toLeft - 1 /\ w.row = s.row
        /\ w.cells = [s.cells EXCEPT ![s.row][s.toLeft - 1] = "space"]
    BY <1>2, BackspaceErases
  <2>2. /\ s.toLeft \in 0 .. maxwidth - 1 /\ s.row \in 0 .. maxheight
        /\ s.cells \in Cells /\ maxwidth \in Nat /\ s.toLeft - 1 \in 0 .. maxwidth - 1
    BY <1>2, ScreenParts, ScreenSize DEF Fits, Cells
  <2>3. \A j \in 0 .. maxwidth - 1 :
          j # s.toLeft - 1 => w.cells[s.row][j] = s.cells[s.row][j]
    <3>1. w.cells = Stored(s.cells, s.row, s.toLeft - 1, "space")
      BY <2>1, <2>2 DEF Stored
    <3> QED  BY <2>2, <3>1, StoreRow
  <2>4. ASSUME NEW k \in 0 .. w.toLeft - 1, k < to - 1 - b
        PROVE  w.cells[w.row][w.toLeft - 1 - k] = less[to - 1 - 1 - k]
    <3>1. PICK i : i = k + 1
      OBVIOUS
    <3>2. /\ i \in 0 .. s.toLeft - 1 /\ i < to - b
          /\ w.toLeft - 1 - k = s.toLeft - 1 - i
          /\ to - 1 - 1 - k = to - 1 - i
          /\ s.toLeft - 1 - i \in 0 .. maxwidth - 1 /\ s.toLeft - 1 - i # s.toLeft - 1
          /\ to - 1 - i \in b .. to - 2
      BY <2>1, <2>2, <2>4, <3>1
    <3>3. s.cells[s.row][s.toLeft - 1 - i] = text[to - 1 - i]
      BY <3>2 DEF Shows
    <3>4. less[to - 1 - i] = text[to - 1 - i]
      BY <3>2
    <3> QED  BY <2>1, <2>3, <3>2, <3>3, <3>4
  <2> QED  BY <2>4 DEF Shows
<1> QED  BY <1>1, <1>2

(* While a program prints into a line that was not mixed before, nothing   *)
(* of that line has been typed.                                            *)
SeenInv ==
  /\ ConsoleInv /\ NoLineHidden /\ SeenIsTyped
  /\ printing # << >> /\ ~mixed => Current = << >>

(* One step on: what stands left of the cursor is still what was typed.    *)
LEMMA StepSeen ==
  ASSUME SeenInv, [TNext]_tvars
  PROVE  SeenInv'
<1>1. ConsoleInv' /\ BufferInv /\ BufferInv' /\ [Next]_vars
  BY StepConsole, StepKeyboard DEF SeenInv, ConsoleInv
<1>2. NoLineHidden /\ NoLineHidden'
  BY <1>1, StepCounted DEF SeenInv
<1>3. Fits(screen) /\ Fits(screen')
  BY <1>1 DEF SeenInv, ConsoleInv, TTypeOK, CursorKept, Fits
<1>4. PICK b, b2 : IsBegin(b, inpStr, offset) /\ IsBegin(b2, inpStr', offset')
  BY <1>1, BeginExists DEF BufferInv, TypeOK
<1>5. b \in Nat /\ offset <= b /\ b <= strOffset
  BY <1>1, <1>4, BeginBehind
<1>6. /\ Current = << >> <=> strOffset = b
      /\ Current' = << >> <=> strOffset' = b2
  <2>1. CurrentKnown /\ CurrentKnown'
    BY CurrentIs, PTL
  <2> QED  BY <1>1, <1>4, <2>1 DEF CurrentKnown
<1>7. /\ SeenIsTyped <=> (~mixed /\ ~overrun /\ LinesAccounted
                            => Shows(screen, inpStr, b, strOffset))
      /\ SeenIsTyped' <=> (~mixed' /\ ~overrun' /\ LinesAccounted'
                            => Shows(screen', inpStr', b2, strOffset'))
  <2>1. SeenKnown /\ SeenKnown'
    BY SeenIsShown, PTL
  <2> QED  BY <1>1, <1>3, <1>4, <2>1 DEF SeenKnown
<1>8. \A c : IsBegin(c, inpStr', offset') => c = b2
  BY <1>1, <1>4, BeginUnique DEF BufferInv, TypeOK
<1>9. strOffset \in Nat /\ strOffset <= Size /\ Size \in Nat
  BY <1>1, ConstantsAssumption DEF BufferInv, TypeOK
<1>10. strOffset' = b2 => Shows(screen', inpStr', b2, strOffset')
  <2>1. b2 \in Nat
    BY <1>1, <1>4, ConstantsAssumption DEF IsBegin, BufferInv, TypeOK
  <2>2. screen'.toLeft \in Nat
    BY <1>3, ScreenParts, ScreenSize DEF Fits
  <2>3. b2 - b2 = 0 /\ \A k \in 0 .. screen'.toLeft - 1 : ~(k < 0)
    BY <2>1, <2>2
  <2> QED  BY <2>3 DEF Shows
<1>11. ASSUME ~mixed', ~overrun', LinesAccounted'
       PROVE  Shows(screen', inpStr', b2, strOffset')
  <2>1. LinesAccounted /\ (KeyBackspace => strOffset - 1 \notin LineEnds)
    BY <1>1, <1>2, <1>11, WasAccounted
  <2>2. CASE Type
    <3>1. SUFFICES ASSUME strOffset' # b2  PROVE Shows(screen', inpStr', b2, strOffset')
      BY <1>10
    <3>2. ~overrun /\ TypeKey /\ ~mixed
      BY <1>6, <1>11, <2>2, <3>1 DEF Type
    <3>3. Shows(screen, inpStr, b, strOffset)
      BY <1>7, <2>1, <3>2 DEF SeenInv
    <3>4. ASSUME NEW c \in Chars, Put(c), UNCHANGED offset, Echo(c)
          PROVE  Shows(screen', inpStr', b2, strOffset')
      <4>1. /\ IsBegin(b, inpStr', offset')
            /\ strOffset' = strOffset + 1 /\ inpStr'[strOffset] = c
            /\ \A i \in Positions : i < strOffset => inpStr'[i] = inpStr[i]
        BY <1>1, <1>4, <3>4, PutTyped
      <4>2. b2 = b
        BY <1>8, <4>1
      <4>3. \A i \in b .. strOffset - 1 : inpStr'[i] = inpStr[i]
        BY <1>5, <1>9, <4>1 DEF Positions
      <4>4. c \in Shown /\ c # NL /\ screen' = Scr!writeToSbush(screen, c)
        BY <3>4 DEF Shown, Glyphs, Chars, NL, NUL, Caret, Echo
      <4>5. Shows(screen', inpStr', b, strOffset + 1)
        BY <1>3, <1>5, <1>9, <3>3, <4>1, <4>3, <4>4, EchoShows
      <4> QED  BY <4>1, <4>2, <4>5
    <3>5. ASSUME NEW key \in Keys, KeyChar(key),
                 Echo(CodeMap(key, IF controlValue = 1 THEN 1 ELSE caps))
          PROVE  Shows(screen', inpStr', b2, strOffset')
      <4>1. PICK c : c = CodeMap(key, IF controlValue = 1 THEN 1 ELSE caps)
        OBVIOUS
      <4>2. c \in Chars
        <5>1. (IF controlValue = 1 THEN 1 ELSE caps) \in {0, 1}
          BY <1>1 DEF BufferInv, TypeOK
        <5> QED  BY <4>1, <5>1, CodeMapTypes
      <4>3. Put(c) /\ UNCHANGED offset /\ Echo(c)
        BY <3>5, <4>1 DEF KeyChar
      <4> QED  BY <3>4, <4>2, <4>3
    <3>6. CASE KeyShift /\ EchoNothing
      <4>1. UNCHANGED <<inpStr, offset, strOffset, screen>>
        BY <3>6 DEF KeyShift, EchoNothing
      <4> QED  BY <1>4, <1>8, <3>3, <4>1
    <3>7. CASE KeyCtrl /\ Echo(Caret)
      <4>1. Caret \in Chars /\ Put(Caret) /\ UNCHANGED offset
        BY <3>7 DEF KeyCtrl, Chars
      <4> QED  BY <3>4, <3>7, <4>1
    <3>8. CASE KeyBackspace /\ EchoErase
      <4>1. /\ IsBegin(b, inpStr', offset') /\ b < strOffset
            /\ strOffset' = strOffset - 1
            /\ \A i \in Positions : i < strOffset' => inpStr'[i] = inpStr[i]
        BY <1>1, <1>4, <2>1, <3>8, EraseTyped
      <4>2. \A i \in b .. strOffset - 2 : inpStr'[i] = inpStr[i]
        BY <1>5, <1>9, <4>1 DEF Positions
      <4>3. screen' = Scr!backspace(screen)
        BY <3>8 DEF EchoErase
      <4>4. Shows(screen', inpStr', b, strOffset - 1)
        BY <1>3, <1>5, <1>9, <3>3, <4>1, <4>2, <4>3, EraseShows
      <4> QED  BY <1>8, <4>1, <4>4
    <3>9. CASE KeyEnter /\ Echo(NL)
      <4>1. Put(NL) /\ UNCHANGED offset
        BY <3>9 DEF KeyEnter
      <4>2. IsBegin(strOffset', inpStr', offset')
        BY <1>1, <4>1, EnterTyped
      <4> QED  BY <1>8, <3>1, <4>2
    <3>10. ~KeyBeyond
      BY <1>11 DEF KeyBeyond
    <3> QED  BY <3>2, <3>5, <3>6, <3>7, <3>8, <3>9, <3>10 DEF TypeKey
  <2>3. CASE TRead
    <3>1. ~overrun /\ Iteration /\ UNCHANGED <<screen, mixed>>
      BY <2>3 DEF TRead, ReadCall, ReadResume
    <3>2. Shows(screen, inpStr, b, strOffset) /\ UNCHANGED strOffset
      BY <1>7, <1>11, <2>1, <3>1 DEF SeenInv, Iteration
    <3>3. CASE TakeLine
      <4>1. IsBegin(b, inpStr', offset') /\ \A i \in Positions : i >= b => inpStr'[i] = inpStr[i]
        BY <1>1, <1>4, <3>2, <3>3, TakeTyped
      <4>2. b2 = b /\ \A i \in b .. strOffset - 1 : inpStr'[i] = inpStr[i]
        BY <1>5, <1>8, <1>9, <4>1 DEF Positions
      <4>3. \A k \in 0 .. screen.toLeft - 1 : k < strOffset - b => strOffset - 1 - k \in b .. strOffset - 1
        <5>1. screen.toLeft \in Nat
          BY <1>3, ScreenParts, ScreenSize DEF Fits
        <5> QED  BY <1>5, <1>9, <5>1
      <4> QED  BY <3>1, <3>2, <4>2, <4>3 DEF Shows
    <3>4. ~MissLine
      <4>1. LineEnds = {} => lineCount = 0
        BY <2>1, FS_EmptySet DEF LinesAccounted
      <4>2. ASSUME MissLine  PROVE FALSE
        BY <4>1, <4>2 DEF MissLine
      <4> QED  BY <4>2
    <3>5. CASE AwaitLine
      BY <1>4, <1>8, <3>1, <3>2, <3>5 DEF AwaitLine
    <3> QED  BY <3>1, <3>3, <3>4, <3>5 DEF Iteration
  <2>4. CASE Write \/ Clear \/ PrintChar
    <3>1. UNCHANGED <<inpStr, offset, strOffset>>
      BY <2>4 DEF Write, Clear, PrintChar, BeginOutput, vars
    <3>2. Current = << >>
      <4>1. BeginOutput \/ (printing # << >> /\ ~mixed)
        BY <1>11, <2>4 DEF Write, Clear, PrintChar
      <4>2. BeginOutput => Current = << >>
        BY <1>11 DEF BeginOutput
      <4> QED  BY <4>1, <4>2 DEF SeenInv
    <3> QED  BY <1>4, <1>6, <1>8, <1>10, <3>1, <3>2
  <2>5. CASE UNCHANGED tvars
    <3>1. UNCHANGED <<inpStr, offset, strOffset, screen, mixed, overrun>>
      BY <2>5 DEF tvars, vars
    <3> QED  BY <1>4, <1>7, <1>8, <1>11, <2>1, <3>1 DEF SeenInv
  <2> QED  BY <2>2, <2>3, <2>4, <2>5 DEF TNext
<1>12. printing' # << >> /\ ~mixed' => Current' = << >>
  <2>1. CASE Type \/ TRead
    BY <2>1 DEF Type, TRead
  <2>2. CASE Write \/ Clear \/ PrintChar \/ UNCHANGED tvars
    <3>1. UNCHANGED <<inpStr, offset, strOffset>>
      BY <2>2 DEF Write, Clear, PrintChar, BeginOutput, tvars, vars
    <3>2. Current' = Current
      BY <1>4, <1>6, <1>8, <3>1 DEF Current
    <3>3. \/ BeginOutput /\ mixed' = (Current # << >>)
          \/ printing # << >> /\ mixed' = mixed
          \/ printing' = printing /\ mixed' = mixed
      BY <2>2 DEF Write, Clear, PrintChar, BeginOutput, tvars
    <3> QED  BY <3>2, <3>3 DEF SeenInv
  <2> QED  BY <2>1, <2>2 DEF TNext
<1> QED  BY <1>1, <1>2, <1>7, <1>11, <1>12 DEF SeenInv

(* SeenIsTyped: left of the cursor stands the end of what intRead() will   *)
(* take, at the margins and in the last rows, too, and however the line is *)
(* edited.                                                                 *)
THEOREM SeenStaysTyped == TSpec => []SeenIsTyped
<1>1. TInit => SeenInv
  <2> SUFFICES ASSUME TInit  PROVE SeenInv
    OBVIOUS
  <2>1. Init /\ screen.toLeft = 0 /\ printing = << >>
    BY DEF TInit, Scr!clearScreen
  <2>2. BufferInv /\ NoLineHidden
    BY <2>1, InitBuffer, InitLines
  <2>3. ConsoleInv
    <3>1. <<>> \in Seq(Printed) /\ 0 \in 0 .. MaxOutputs
      BY TerminalAssumption
    <3> QED  BY <2>2, <3>1, ClearFits DEF TInit, ConsoleInv, TTypeOK, CursorKept, Fits
  <2>4. SeenIsTyped
    <3>1. 0 .. 0 - 1 = {}
      OBVIOUS
    <3> QED  BY <2>1, <3>1 DEF SeenIsTyped
  <2> QED  BY <2>1, <2>2, <2>3, <2>4 DEF SeenInv
<1>2. SeenInv /\ [TNext]_tvars => SeenInv'
  BY StepSeen
<1>3. SeenInv => SeenIsTyped
  BY DEF SeenInv
<1> QED  BY <1>1, <1>2, <1>3, PTL DEF TSpec
=============================================================================
