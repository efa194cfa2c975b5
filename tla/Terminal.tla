------------------------------- MODULE Terminal -------------------------------
(***************************************************************************)
(* The console: the keyboard driver of module Keyboard, which echoes what  *)
(* is typed, and the programs that print, on the screen of module Screen.  *)
(* A print runs to its end before a key is handled, since interrupts are   *)
(* only taken in idle(); from one print to the next anything may happen.   *)
(***************************************************************************)
EXTENDS Keyboard

CONSTANTS
  maxwidth, maxheight,  \* the screen
  Outputs,              \* what programs print
  MaxOutputs            \* bound on the prints and clears

Printed == UNION {Range(o) : o \in Outputs}

Scr == INSTANCE Screen WITH Glyphs <- Chars \cup (Printed \ {NL})

ASSUME TerminalAssumption ==
  /\ Scr!ScreenConstants
  /\ Outputs \subseteq Seq(STRING)
  /\ MaxOutputs \in Nat

VARIABLES
  screen,        \* see module Screen
  printing,      \* what is left of the string in kprintf("%s")
  outputs,       \* the prints and clears so far
  mixed          \* something was printed after the typed line was begun

tvars == <<vars, screen, printing, outputs, mixed>>

(* What is typed after the last newline in the buffer. *)
Current ==
  LET begin == CHOOSE b \in offset .. Size :
                 /\ b = offset \/ inpStr[b - 1] = NL
                 /\ \A i \in b .. Size - 1 : inpStr[i] # NL
  IN  [k \in 1 .. strOffset - begin |-> inpStr[begin + k - 1]]

TInit ==
  /\ Init
  /\ screen = Scr!clearScreen
  /\ printing = <<>>
  /\ outputs = 0
  /\ mixed = FALSE

-----------------------------------------------------------------------------
Echo(c)    == screen' = Scr!writeToSbush(screen, c)
EchoErase  == screen' = Scr!backspace(screen)
EchoNothing == UNCHANGED screen

(* intWrite() with its calls of kprintf() and backspace() *)
TypeKey ==
  \/ \E key \in Keys : /\ KeyChar(key)
                       /\ Echo(CodeMap(key, IF controlValue = 1 THEN 1 ELSE caps))
  \/ KeyShift /\ EchoNothing
  \/ KeyCtrl /\ Echo(Caret)
  \/ KeyBackspace /\ EchoErase
  \/ KeyEnter /\ Echo(NL)
  \/ KeyBeyond /\ \E c \in Chars \cup {NL} : Echo(c)

Type ==
  /\ ~overrun /\ printing = <<>>
  /\ TypeKey
  /\ mixed' = (mixed /\ Current' # <<>>)
  /\ UNCHANGED <<printing, outputs>>

(* intRead() prints nothing. *)
TRead ==
  /\ ~overrun /\ printing = <<>>
  /\ ReadCall \/ ReadResume
  /\ UNCHANGED <<screen, printing, outputs, mixed>>

(* A write() or a clear of the shell, of a command or of a background task *)
BeginOutput ==
  /\ ~overrun /\ printing = <<>>
  /\ outputs < MaxOutputs
  /\ outputs' = outputs + 1
  /\ mixed' = (Current # <<>>)
  /\ UNCHANGED vars

Write ==
  /\ BeginOutput
  /\ \E o \in Outputs : printing' = o
  /\ UNCHANGED screen

Clear ==
  /\ BeginOutput
  /\ screen' = Scr!clearScreen
  /\ UNCHANGED printing

(* The loop of kprintf("%s") *)
PrintChar ==
  /\ printing # <<>>
  /\ screen' = Scr!writeToSbush(screen, Head(printing))
  /\ printing' = Tail(printing)
  /\ UNCHANGED <<vars, outputs, mixed>>

TNext == Type \/ TRead \/ Write \/ Clear \/ PrintChar

TSpec == TInit /\ [][TNext]_tvars

-----------------------------------------------------------------------------
(* Type correctness of the console. *)
TTypeOK ==
  /\ screen \in Scr!Screens
  /\ printing \in Seq(Printed)
  /\ outputs \in 0 .. MaxOutputs
  /\ mixed \in BOOLEAN

(* The cursor stays in video memory, and the driver does not lose count of *)
(* its column: backspace() relies on it to stop at the left margin.        *)
CursorKept == Scr!CursorKnown(screen)

(* Left of the cursor stands the end of the line that intRead() will take, *)
(* however it was edited, as long as nothing was printed after it was      *)
(* begun and no end of an unread line was rubbed out.                      *)
SeenIsTyped ==
  (~mixed /\ ~overrun /\ LinesAccounted) =>
     \A k \in 0 .. screen.toLeft - 1 :
        k < Len(Current) =>
          screen.cells[screen.row][screen.toLeft - 1 - k] = Current[Len(Current) - k]

(* Editing the line never reaches back over the row of the cursor: the     *)
(* rows above it stay, or move up as a whole when an echoed key makes the  *)
(* screen scroll.                                                          *)
RowsAboveKept ==
  [][Type => \A r \in 0 .. screen.row - 1 :
       \/ screen'.cells[r] = screen.cells[r]
       \/ /\ strOffset' >= strOffset
          /\ screen.numLines = maxheight - 1
          /\ r + 1 < screen.row /\ r + 1 < maxheight
                => screen'.cells[r] = screen.cells[r + 1]]_tvars
=============================================================================
