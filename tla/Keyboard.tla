------------------------------- MODULE Keyboard -------------------------------
(***************************************************************************)
(* The line input of sys/keyboard.c: the interrupt handler intWrite(),     *)
(* which edits the buffer inpStr, and intRead(), which takes lines from    *)
(* it.  Interrupts are only taken in idle(), so a handler and an iteration *)
(* of intRead()'s loop are atomic; between two iterations other tasks run. *)
(* One task reads here (the shell); Process has many readers and no buffer.*)
(***************************************************************************)
EXTENDS Integers, Sequences, FiniteSets, SequencesExt, Ascending

CONSTANTS
  Size,          \* bytes of inpStr (4096 in the code)
  Keys,          \* keys that go through code_map, see CodeMap
  MaxLines,      \* bound on the lines counted and not read
  RubOutLines,   \* whether the user backspaces over an unread line's end
  TypeBeyond     \* whether the user types on when the buffer is full

ASSUME ConstantsAssumption ==
  /\ Size \in Nat \ {0}
  /\ Keys \subseteq {"letter", "blank"}
  /\ MaxLines \in Nat
  /\ RubOutLines \in BOOLEAN
  /\ TypeBeyond \in BOOLEAN

NL  == "newline"
NUL == "nul"

(* code_map: a letter has two characters; Esc, Alt and the like have       *)
(* zeroes; the entry of Ctrl shows a caret.                                *)
CodeMap(key, caps) ==
  CASE key = "letter" /\ caps = 0 -> "lower"
    [] key = "letter" /\ caps = 1 -> "upper"
    [] key = "blank"              -> NUL

Caret == "caret"
Chars == {"lower", "upper", Caret, NUL}

VARIABLES
  inpStr,        \* the buffer
  strOffset,     \* where the next key goes (the static strOffset)
  offset,        \* where the next line to read begins
  lineCount,     \* lines entered and not yet read
  caps,          \* the next character is upper case
  controlValue,  \* Ctrl was pressed
  reader,        \* "away", "asleep" in SLEEP, or "looping" in intRead()
  got,           \* what the last read() that returned stored
  overrun        \* intWrite() has written behind inpStr

vars == <<inpStr, strOffset, offset, lineCount, caps, controlValue, reader,
          got, overrun>>

Positions == 0 .. Size - 1

Init ==
  /\ inpStr = [i \in Positions |-> NUL]
  /\ strOffset = 0
  /\ offset = 0
  /\ lineCount = 0
  /\ caps = 0
  /\ controlValue = 0
  /\ reader = "away"
  /\ got = <<>>
  /\ overrun = FALSE

-----------------------------------------------------------------------------
(* intWrite() *)

Put(c) ==
  /\ strOffset < Size
  /\ inpStr' = [inpStr EXCEPT ![strOffset] = c]
  /\ strOffset' = strOffset + 1

(* A key of code_map; after Ctrl it counts as shifted. *)
KeyChar(key) ==
  /\ Put(CodeMap(key, IF controlValue = 1 THEN 1 ELSE caps))
  /\ controlValue' = 0
  /\ caps' = 0
  /\ UNCHANGED <<offset, lineCount, reader, got, overrun>>

KeyShift ==
  /\ caps' = 1
  /\ UNCHANGED <<inpStr, strOffset, offset, lineCount, controlValue, reader,
                 got, overrun>>

KeyCtrl ==
  /\ Put(Caret)
  /\ controlValue' = 1
  /\ UNCHANGED <<offset, lineCount, caps, reader, got, overrun>>

(* Seeded fault: the last character goes whatever it is. *)
AlwaysErasable == strOffset > 0

(* The test of the handler: something is typed that has not been read. *)
Erasable == offset # strOffset

KeyBackspace ==
  /\ Erasable
  /\ RubOutLines \/ inpStr[strOffset - 1] # NL
  /\ inpStr' = [inpStr EXCEPT ![strOffset - 1] = NUL]
  /\ strOffset' = strOffset - 1
  /\ UNCHANGED <<offset, lineCount, caps, controlValue, reader, got, overrun>>

(* Seeded faults: the line is not counted; the reader is not woken. *)
UncountedLine == UNCHANGED lineCount
NoWake        == UNCHANGED reader

CountLine    == lineCount' = lineCount + 1
wake_process == reader' = IF reader = "asleep" THEN "looping" ELSE reader

KeyEnter ==
  /\ lineCount < MaxLines
  /\ Put(NL)
  /\ CountLine
  /\ wake_process
  /\ UNCHANGED <<offset, caps, controlValue, got, overrun>>

(* A character when strOffset is 4096 already.  It is never reset, so      *)
(* every session gets here; nothing is modelled after the stray write.     *)
KeyBeyond ==
  /\ TypeBeyond
  /\ strOffset = Size
  /\ overrun' = TRUE
  /\ UNCHANGED <<inpStr, strOffset, offset, lineCount, caps, controlValue,
                 reader, got>>

-----------------------------------------------------------------------------
(* intRead(): an iteration of its loop *)

LineEnds == {i \in offset .. Size - 1 : inpStr[i] = NL}

(* Seeded faults: the newline itself is not skipped; the character after  *)
(* it is skipped, too.                                                     *)
AtLineEnd(end)      == end
TwoPastLineEnd(end) == end + 2

PastLineEnd(end) == end + 1

(* The characters before the newline are copied and zeroed. *)
TakeLine ==
  /\ lineCount > 0
  /\ LineEnds # {}
  /\ LET end == CHOOSE i \in LineEnds : \A j \in LineEnds : i <= j
     IN  /\ got' = [k \in 1 .. end - offset |-> inpStr[offset + k - 1]]
         /\ inpStr' = [i \in Positions |->
                         IF i \in offset .. end - 1 THEN NUL ELSE inpStr[i]]
         /\ offset' = PastLineEnd(end)
  /\ lineCount' = lineCount - 1
  /\ reader' = "away"

(* A line is counted but no newline is there: everything up to the end of  *)
(* the buffer is copied and zeroed, and the task comes back for more.      *)
MissLine ==
  /\ lineCount > 0
  /\ LineEnds = {}
  /\ inpStr' = [i \in Positions |-> IF i >= offset THEN NUL ELSE inpStr[i]]
  /\ reader' = "looping"
  /\ UNCHANGED <<offset, lineCount, got>>

AwaitLine ==
  /\ lineCount = 0
  /\ reader' = "asleep"
  /\ UNCHANGED <<inpStr, offset, lineCount, got>>

Iteration ==
  /\ TakeLine \/ MissLine \/ AwaitLine
  /\ UNCHANGED <<strOffset, caps, controlValue, overrun>>

ReadCall   == reader = "away" /\ Iteration
ReadResume == reader = "looping" /\ Iteration

-----------------------------------------------------------------------------
Key == \/ \E key \in Keys : KeyChar(key)
       \/ KeyShift \/ KeyCtrl \/ KeyBackspace \/ KeyEnter \/ KeyBeyond

Next == ~overrun /\ (Key \/ ReadCall \/ ReadResume)

Spec == Init /\ [][Next]_vars

(* schedule() comes back to a runnable reader (InterruptsServed and the    *)
(* round robin of module Process). *)
FairSpec == Spec /\ WF_vars(~overrun /\ ReadResume)

-----------------------------------------------------------------------------
(* Properties *)

(* Type correctness; the two offsets stay in the buffer, or just behind.   *)
TypeOK ==
  /\ inpStr \in [Positions -> Chars \cup {NL}]
  /\ strOffset \in 0 .. Size /\ offset \in 0 .. Size
  /\ lineCount \in 0 .. MaxLines
  /\ caps \in {0, 1} /\ controlValue \in {0, 1}
  /\ reader \in {"away", "asleep", "looping"}
  /\ got \in Seq(Chars)
  /\ overrun \in BOOLEAN

(* Backspace cannot go back into what has been read already, and intRead() *)
(* does not read ahead of the keys: this holds however the user edits.     *)
ReadBehindTyped == offset <= strOffset

(* Every newline that waits in the buffer is counted, so intRead() never   *)
(* sleeps on a line that is there; and no reader sleeps on a counted line. *)
NoLineHidden ==
  /\ Cardinality(LineEnds) <= lineCount
  /\ reader = "asleep" => lineCount = 0

(* lineCount is what intRead() takes it for: the lines in the buffer.      *)
LinesAccounted == Cardinality(LineEnds) = lineCount

(* The unread part of the buffer as lines, for the refinement mapping.     *)
Text(from, to) == [k \in 1 .. to - from |-> inpStr[from + k - 1]]
Ends     == Sorted(LineEnds)
Begin(k) == IF k = 1 THEN offset ELSE Ends[k - 1] + 1

Lines == INSTANCE LineInput WITH
  lines   <- [k \in DOMAIN Ends |-> Text(Begin(k), Ends[k])],
  current <- Text(Begin(Cardinality(LineEnds) + 1), strOffset)

(* As long as nobody rubs out the end of an unread line, the keyboard      *)
(* driver implements read(stdin): what was typed is what is read.          *)
ImplementsLineInput == Lines!Spec

(* An entered line reaches the task that reads.                            *)
LineDelivered == (reader # "away" /\ lineCount > 0) ~> (reader = "away")
=============================================================================
