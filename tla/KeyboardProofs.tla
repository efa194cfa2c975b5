---------------------------- MODULE KeyboardProofs ----------------------------
(***************************************************************************)
(* Proofs about module Keyboard, for every size of the buffer and every    *)
(* way to edit: the two offsets, and the count of the lines that wait.     *)
(***************************************************************************)
EXTENDS Keyboard, AscendingProofs, FiniteSetTheorems, SequenceTheorems, TLAPS

(* Nothing stands where the next key goes, or behind it, that intRead()    *)
(* would take for the end of a line: this is what keeps it behind the keys.*)
NoEndAhead == \A i \in Positions : i >= strOffset => inpStr[i] # NL

BufferInv == TypeOK /\ ReadBehindTyped /\ NoEndAhead

(* The first newline, at which intRead() stops. *)
LEMMA FirstLineEnd ==
  ASSUME BufferInv, LineEnds # {},
         NEW end, end = CHOOSE i \in LineEnds : \A j \in LineEnds : i <= j
  PROVE  /\ end \in LineEnds /\ \A j \in LineEnds : end <= j
         /\ end < strOffset /\ end >= offset /\ end \in Positions
         /\ \A i \in offset .. end - 1 : inpStr[i] \in Chars
<1> USE DEF BufferInv
<1>1. /\ LineEnds \subseteq Nat /\ LineEnds \subseteq Positions
      /\ offset \in Nat /\ strOffset \in Nat /\ Size \in Nat
  BY ConstantsAssumption DEF LineEnds, TypeOK, Positions
<1>2. end \in LineEnds /\ \A j \in LineEnds : end <= j
  <2> HIDE DEF LineEnds
  <2> QED  BY <1>1, FirstExists
<1>3. inpStr[end] = NL /\ end \in Positions /\ end \in offset .. Size - 1
  BY <1>1, <1>2 DEF LineEnds
<1>4. end < strOffset /\ end >= offset
  BY <1>1, <1>3 DEF NoEndAhead
<1>5. \A i \in offset .. end - 1 : inpStr[i] \in Chars
  <2>1. TAKE i \in offset .. end - 1
  <2>2. i \in Positions /\ i \in offset .. Size - 1 /\ ~(end <= i)
    BY <1>1, <1>3 DEF Positions
  <2>3. inpStr[i] # NL
    BY <1>2, <2>2 DEF LineEnds
  <2> QED  BY <2>2, <2>3 DEF TypeOK
<1> QED  BY <1>2, <1>3, <1>4, <1>5

(* What code_map holds for the keys. *)
LEMMA CodeMapTypes ==
  ASSUME NEW key \in Keys, NEW n \in {0, 1}
  PROVE  CodeMap(key, n) \in Chars /\ CodeMap(key, n) # NL
BY ConstantsAssumption DEF CodeMap, Chars, NL, NUL

(* A character is put where the next key goes. *)
LEMMA PutStep ==
  ASSUME BufferInv, NEW c \in Chars \cup {NL}, Put(c), UNCHANGED offset
  PROVE  /\ inpStr' \in [Positions -> Chars \cup {NL}]
         /\ strOffset' \in 0 .. Size
         /\ ReadBehindTyped' /\ NoEndAhead'
         /\ LineEnds' = IF c = NL THEN LineEnds \cup {strOffset} ELSE LineEnds
         /\ strOffset \notin LineEnds
<1> USE DEF BufferInv
<1>1. /\ Size \in Nat /\ strOffset \in Positions
      /\ inpStr'[strOffset] = c
      /\ \A i \in Positions : i # strOffset => inpStr'[i] = inpStr[i]
      /\ strOffset' = strOffset + 1
      /\ offset \in 0 .. Size
  BY ConstantsAssumption DEF Put, TypeOK, Positions
<1>2. inpStr[strOffset] # NL
  BY <1>1 DEF NoEndAhead, Positions
<1>3. LineEnds' = {i \in offset .. Size - 1 : inpStr'[i] = NL}
  BY DEF LineEnds
<1>4. strOffset \in offset .. Size - 1
  BY <1>1 DEF ReadBehindTyped, Positions
<1>5. offset .. Size - 1 \subseteq Positions
  BY <1>1 DEF Positions
<1>6. LineEnds' = IF c = NL THEN LineEnds \cup {strOffset} ELSE LineEnds
  BY <1>1, <1>2, <1>3, <1>4, <1>5 DEF LineEnds
<1>7. ReadBehindTyped' /\ NoEndAhead' /\ strOffset' \in 0 .. Size
  BY <1>1 DEF ReadBehindTyped, NoEndAhead, Positions
<1>8. inpStr' \in [Positions -> Chars \cup {NL}]
  BY DEF Put, TypeOK
<1> QED  BY <1>2, <1>6, <1>7, <1>8 DEF LineEnds

(* intRead() takes the first line and nothing else.                        *)
LEMMA TakeStep ==
  ASSUME BufferInv, TakeLine, UNCHANGED strOffset
  PROVE  /\ inpStr' \in [Positions -> Chars \cup {NL}]
         /\ offset' \in 0 .. Size
         /\ got' \in Seq(Chars)
         /\ ReadBehindTyped' /\ NoEndAhead'
         /\ \E end \in LineEnds : LineEnds' = LineEnds \ {end}
<1> USE DEF BufferInv
<1> DEFINE end == CHOOSE i \in LineEnds : \A j \in LineEnds : i <= j
<1>1. /\ end \in LineEnds /\ \A j \in LineEnds : end <= j
      /\ end < strOffset /\ end >= offset /\ end \in Positions
      /\ \A i \in offset .. end - 1 : inpStr[i] \in Chars
  BY FirstLineEnd DEF TakeLine
<1>2. /\ got' = [k \in 1 .. end - offset |-> inpStr[offset + k - 1]]
      /\ inpStr' = [i \in Positions |->
                      IF i \in offset .. end - 1 THEN NUL ELSE inpStr[i]]
      /\ offset' = end + 1
  BY DEF TakeLine, PastLineEnd
<1> HIDE DEF end
<1>3. /\ offset \in Nat /\ strOffset \in 0 .. Size /\ Size \in Nat /\ end \in Nat
      /\ inpStr \in [Positions -> Chars \cup {NL}]
  BY <1>1, ConstantsAssumption DEF TypeOK, Positions
<1>4. got' \in Seq(Chars)
  <2>1. end - offset \in Nat
    BY <1>1, <1>3
  <2>2. \A k \in 1 .. end - offset : inpStr[offset + k - 1] \in Chars
    BY <1>1, <1>3
  <2>3. got' \in [1 .. end - offset -> Chars]
    BY <1>2, <2>2
  <2> QED  BY <2>1, <2>3, SeqDef
<1>5. inpStr' \in [Positions -> Chars \cup {NL}]
  BY <1>2, <1>3 DEF Chars
<1>6. offset' \in 0 .. Size /\ ReadBehindTyped'
  BY <1>1, <1>2, <1>3 DEF ReadBehindTyped
<1>7. NoEndAhead'
  BY <1>2 DEF NoEndAhead, NL, NUL
<1>8. LineEnds' = {i \in end + 1 .. Size - 1 : inpStr'[i] = NL}
  BY <1>2 DEF LineEnds
<1>9. \A i \in end + 1 .. Size - 1 : inpStr'[i] = inpStr[i]
  BY <1>2, <1>3 DEF Positions
<1>10. LineEnds' = LineEnds \ {end}
  BY <1>1, <1>3, <1>8, <1>9 DEF LineEnds
<1> QED  BY <1>1, <1>4, <1>5, <1>6, <1>7, <1>10

(* A line is counted but not in the buffer: what is left is wiped.         *)
LEMMA MissStep ==
  ASSUME BufferInv, MissLine, UNCHANGED strOffset
  PROVE  /\ inpStr' \in [Positions -> Chars \cup {NL}]
         /\ ReadBehindTyped' /\ NoEndAhead'
         /\ LineEnds' = {}
<1>1. inpStr' = [i \in Positions |-> IF i >= offset THEN NUL ELSE inpStr[i]]
  BY DEF MissLine
<1>2. /\ offset \in Nat /\ offset' = offset
      /\ inpStr \in [Positions -> Chars \cup {NL}]
  BY DEF BufferInv, TypeOK, MissLine
<1>3. LineEnds' = {}
  BY <1>1, <1>2 DEF LineEnds, NL, NUL, Positions
<1> QED  BY <1>1, <1>2, <1>3 DEF BufferInv, ReadBehindTyped, NoEndAhead, NL, NUL, Chars

(* Backspace takes what was typed last, which has not been read.           *)
LEMMA EraseStep ==
  ASSUME BufferInv, KeyBackspace
  PROVE  /\ inpStr' \in [Positions -> Chars \cup {NL}]
         /\ strOffset' \in 0 .. Size
         /\ ReadBehindTyped' /\ NoEndAhead'
         /\ LineEnds' = LineEnds \ {strOffset - 1}
         /\ ~RubOutLines => strOffset - 1 \notin LineEnds
<1>1. /\ Size \in Nat /\ offset \in 0 .. Size /\ strOffset \in 0 .. Size
      /\ offset < strOffset /\ strOffset - 1 \in Positions
      /\ inpStr \in [Positions -> Chars \cup {NL}]
      /\ strOffset' = strOffset - 1 /\ offset' = offset
  BY ConstantsAssumption
     DEF BufferInv, TypeOK, ReadBehindTyped, KeyBackspace, Erasable, Positions
<1>2. /\ inpStr'[strOffset - 1] = NUL
      /\ \A i \in Positions : i # strOffset - 1 => inpStr'[i] = inpStr[i]
  BY <1>1 DEF KeyBackspace
<1>3. inpStr' \in [Positions -> Chars \cup {NL}]
  BY <1>1 DEF KeyBackspace, Chars
<1>4. LineEnds' = {i \in offset .. Size - 1 : inpStr'[i] = NL}
  BY <1>1 DEF LineEnds
<1>5. offset .. Size - 1 \subseteq Positions
  BY <1>1 DEF Positions
<1>6. LineEnds' = LineEnds \ {strOffset - 1}
  BY <1>2, <1>4, <1>5 DEF LineEnds, NL, NUL
<1>7. ReadBehindTyped'
  BY <1>1 DEF ReadBehindTyped
<1>8. NoEndAhead'
  BY <1>1, <1>2 DEF BufferInv, NoEndAhead, NL, NUL, Positions
<1>9. ~RubOutLines => strOffset - 1 \notin LineEnds
  BY DEF KeyBackspace, LineEnds
<1> QED  BY <1>1, <1>3, <1>6, <1>7, <1>8, <1>9

-----------------------------------------------------------------------------
(* The buffer *)

(* The empty buffer. *)
LEMMA InitBuffer ==
  ASSUME Init
  PROVE  BufferInv
<1>1. Size \in Nat /\ 0 \in 0 .. Size /\ 0 \in 0 .. MaxLines
  BY ConstantsAssumption
<1>2. got \in Seq(Chars)
  BY DEF Init
<1>3. inpStr \in [Positions -> Chars \cup {NL}] /\ NoEndAhead
  BY DEF Init, NoEndAhead, Chars, NL, NUL
<1>4. TypeOK
  BY <1>1, <1>2, <1>3 DEF Init, TypeOK
<1> QED  BY <1>3, <1>4 DEF Init, BufferInv, ReadBehindTyped

(* Every key and every iteration of intRead() keeps the buffer in order.   *)
LEMMA StepBuffer ==
  ASSUME BufferInv, [Next]_vars
  PROVE  BufferInv'
<1>0. TypeOK
  BY DEF BufferInv
<1>1. CASE UNCHANGED vars
  BY <1>1 DEF vars, BufferInv, TypeOK, ReadBehindTyped, NoEndAhead
<1>2. ASSUME NEW key \in Keys, KeyChar(key) PROVE BufferInv'
  <2>1. CodeMap(key, IF controlValue = 1 THEN 1 ELSE caps) \in Chars
    BY <1>0, CodeMapTypes DEF TypeOK
  <2>2. Put(CodeMap(key, IF controlValue = 1 THEN 1 ELSE caps)) /\ UNCHANGED offset
    BY <1>2 DEF KeyChar
  <2> DEFINE c == CodeMap(key, IF controlValue = 1 THEN 1 ELSE caps)
  <2> HIDE DEF c
  <2>3. /\ inpStr' \in [Positions -> Chars \cup {NL}] /\ strOffset' \in 0 .. Size
        /\ ReadBehindTyped' /\ NoEndAhead'
    BY <2>1, <2>2, PutStep DEF c
  <2> QED  BY <1>0, <1>2, <2>3 DEF KeyChar, BufferInv, TypeOK
<1>3. CASE KeyShift
  BY <1>3 DEF KeyShift, BufferInv, TypeOK, ReadBehindTyped, NoEndAhead
<1>4. CASE KeyCtrl
  <2>1. Caret \in Chars
    BY DEF Chars
  <2> QED  BY <1>0, <1>4, <2>1, PutStep DEF KeyCtrl, BufferInv, TypeOK
<1>5. CASE KeyBackspace
  BY <1>0, <1>5, EraseStep DEF KeyBackspace, BufferInv, TypeOK
<1>6. CASE KeyEnter
  <2>1. lineCount' \in 0 .. MaxLines
    BY <1>0, <1>6, ConstantsAssumption DEF KeyEnter, CountLine, TypeOK
  <2>2. reader' \in {"away", "asleep", "looping"}
    BY <1>0, <1>6 DEF KeyEnter, wake_process, TypeOK
  <2> QED  BY <1>0, <1>6, <2>1, <2>2, PutStep DEF KeyEnter, BufferInv, TypeOK
<1>7. CASE KeyBeyond
  BY <1>7 DEF KeyBeyond, BufferInv, TypeOK, ReadBehindTyped, NoEndAhead
<1>8. CASE Iteration
  <2>1. UNCHANGED <<strOffset, caps, controlValue, overrun>>
    BY <1>8 DEF Iteration
  <2>2. CASE TakeLine
    <3>1. lineCount' \in 0 .. MaxLines
      BY <1>0, <2>2, ConstantsAssumption DEF TakeLine, TypeOK
    <3>2. reader' \in {"away", "asleep", "looping"}
      BY <2>2 DEF TakeLine
    <3> QED  BY <1>0, <2>1, <2>2, <3>1, <3>2, TakeStep DEF BufferInv, TypeOK
  <2>3. CASE MissLine
    <3>1. reader' = "looping" /\ UNCHANGED <<offset, lineCount, got>>
      BY <2>3 DEF MissLine
    <3> QED  BY <1>0, <2>1, <2>3, <3>1, MissStep DEF BufferInv, TypeOK
  <2>4. CASE AwaitLine
    BY <2>1, <2>4 DEF AwaitLine, BufferInv, TypeOK, ReadBehindTyped, NoEndAhead
  <2> QED  BY <1>8, <2>2, <2>3, <2>4 DEF Iteration
<1> QED
  BY <1>1, <1>2, <1>3, <1>4, <1>5, <1>6, <1>7, <1>8 DEF Next, Key, ReadCall, ReadResume

(* The buffer, its offsets and what was read keep their types.             *)
THEOREM BufferTyped == Spec => []TypeOK
<1>1. Init => BufferInv
  BY InitBuffer
<1>2. BufferInv /\ [Next]_vars => BufferInv'
  BY StepBuffer
<1>3. BufferInv => TypeOK
  BY DEF BufferInv
<1> QED  BY <1>1, <1>2, <1>3, PTL DEF Spec

(* intRead() never overtakes the keys, and Backspace never takes back what *)
(* has been read.                                                          *)
THEOREM ReaderStaysBehind == Spec => []ReadBehindTyped
<1>1. Init => BufferInv
  BY InitBuffer
<1>2. BufferInv /\ [Next]_vars => BufferInv'
  BY StepBuffer
<1>3. BufferInv => ReadBehindTyped
  BY DEF BufferInv
<1> QED  BY <1>1, <1>2, <1>3, PTL DEF Spec

-----------------------------------------------------------------------------
(* The count of the lines *)

(* What a step does to the newlines in the buffer and to their count.      *)
LinesKept ==
  /\ LineEnds' = LineEnds /\ lineCount' = lineCount
  /\ reader' = reader \/ reader' # "asleep" \/ lineCount = 0
LineAdded ==
  /\ \E x : x \notin LineEnds /\ LineEnds' = LineEnds \cup {x}
  /\ lineCount' = lineCount + 1 /\ reader' # "asleep"
LineTaken ==
  /\ \E x \in LineEnds : LineEnds' = LineEnds \ {x}
  /\ lineCount' = lineCount - 1 /\ reader' # "asleep"
EndErased ==
  /\ \E x : LineEnds' = LineEnds \ {x} /\ (~RubOutLines => x \notin LineEnds)
  /\ lineCount' = lineCount /\ reader' = reader

(* Enter adds one line end, intRead() takes one, Backspace may erase one.  *)
LEMMA LineEffect ==
  ASSUME BufferInv, [Next]_vars
  PROVE  LinesKept \/ LineAdded \/ LineTaken \/ EndErased
<1>0. TypeOK
  BY DEF BufferInv
<1>1. CASE UNCHANGED vars
  BY <1>1 DEF vars, LinesKept, LineEnds
<1>2. ASSUME NEW key \in Keys, KeyChar(key) PROVE LinesKept
  <2> DEFINE c == CodeMap(key, IF controlValue = 1 THEN 1 ELSE caps)
  <2>1. c \in Chars /\ c # NL
    BY <1>0, CodeMapTypes DEF TypeOK
  <2>2. Put(c) /\ UNCHANGED <<offset, lineCount, reader>>
    BY <1>2 DEF KeyChar
  <2> HIDE DEF c
  <2>3. LineEnds' = LineEnds
    BY <2>1, <2>2, PutStep
  <2> QED  BY <2>2, <2>3 DEF LinesKept
<1>3. CASE KeyShift \/ KeyBeyond
  BY <1>3 DEF KeyShift, KeyBeyond, LinesKept, LineEnds
<1>4. CASE KeyCtrl
  <2>1. Caret \in Chars /\ Caret # NL
    BY DEF Chars, Caret, NL
  <2>2. LineEnds' = LineEnds
    BY <1>4, <2>1, PutStep DEF KeyCtrl
  <2> QED  BY <1>4, <2>2 DEF KeyCtrl, LinesKept
<1>5. CASE KeyBackspace
  <2>1. LineEnds' = LineEnds \ {strOffset - 1}
        /\ (~RubOutLines => strOffset - 1 \notin LineEnds)
    BY <1>5, EraseStep
  <2> QED  BY <1>5, <2>1 DEF KeyBackspace, EndErased
<1>6. CASE KeyEnter
  <2>1. LineEnds' = LineEnds \cup {strOffset} /\ strOffset \notin LineEnds
    BY <1>6, PutStep DEF KeyEnter
  <2>2. reader' # "asleep" /\ lineCount' = lineCount + 1
    BY <1>6 DEF KeyEnter, wake_process, CountLine
  <2> QED  BY <2>1, <2>2 DEF LineAdded
<1>7. CASE Iteration
  <2>1. UNCHANGED strOffset
    BY <1>7 DEF Iteration
  <2>2. CASE TakeLine
    <3>1. \E x \in LineEnds : LineEnds' = LineEnds \ {x}
      BY <2>1, <2>2, TakeStep
    <3> QED  BY <2>2, <3>1 DEF TakeLine, LineTaken
  <2>3. CASE MissLine
    <3>1. LineEnds' = {}
      BY <2>1, <2>3, MissStep
    <3> QED  BY <2>3, <3>1 DEF MissLine, LinesKept
  <2>4. CASE AwaitLine
    BY <2>4 DEF AwaitLine, LinesKept, LineEnds
  <2> QED  BY <1>7, <2>2, <2>3, <2>4 DEF Iteration
<1> QED
  BY <1>1, <1>2, <1>3, <1>4, <1>5, <1>6, <1>7 DEF Next, Key, ReadCall, ReadResume

(* The newlines in the buffer can be counted. *)
LEMMA LineEndsFinite ==
  ASSUME BufferInv
  PROVE  IsFiniteSet(LineEnds) /\ Cardinality(LineEnds) \in Nat /\ lineCount \in Nat
<1>1. offset \in Int /\ Size - 1 \in Int /\ lineCount \in Nat
  BY ConstantsAssumption DEF BufferInv, TypeOK
<1>2. IsFiniteSet(offset .. Size - 1)
  BY <1>1, FS_Interval
<1>3. LineEnds \in SUBSET (offset .. Size - 1)
  BY DEF LineEnds
<1>4. IsFiniteSet(LineEnds)
  BY <1>2, <1>3, FS_Subset
<1> QED  BY <1>1, <1>4, FS_CardinalityType

(* No step hides a line from intRead().                                    *)
LEMMA StepCounted ==
  ASSUME BufferInv, NoLineHidden, [Next]_vars
  PROVE  NoLineHidden'
<1> USE DEF NoLineHidden
<1>1. IsFiniteSet(LineEnds) /\ Cardinality(LineEnds) \in Nat /\ lineCount \in Nat
  BY LineEndsFinite
<1>2. CASE LinesKept
  BY <1>2 DEF LinesKept
<1>3. CASE LineAdded
  BY <1>1, <1>3, FS_AddElement DEF LineAdded
<1>4. CASE LineTaken
  BY <1>1, <1>4, FS_RemoveElement DEF LineTaken
<1>5. CASE EndErased
  BY <1>1, <1>5, FS_RemoveElement DEF EndErased
<1> QED  BY <1>2, <1>3, <1>4, <1>5, LineEffect

(* As long as no end of an unread line is erased, each step keeps the      *)
(* count exact.                                                            *)
LEMMA StepAccounted ==
  ASSUME ~RubOutLines, BufferInv, LinesAccounted, [Next]_vars
  PROVE  LinesAccounted'
<1> USE DEF LinesAccounted
<1>1. IsFiniteSet(LineEnds) /\ Cardinality(LineEnds) \in Nat /\ lineCount \in Nat
  BY LineEndsFinite
<1>2. CASE LinesKept
  BY <1>2 DEF LinesKept
<1>3. CASE LineAdded
  BY <1>1, <1>3, FS_AddElement DEF LineAdded
<1>4. CASE LineTaken
  BY <1>1, <1>4, FS_RemoveElement DEF LineTaken
<1>5. CASE EndErased
  BY <1>1, <1>5, FS_RemoveElement DEF EndErased
<1> QED  BY <1>2, <1>3, <1>4, <1>5, LineEffect

(* No newline is in the empty buffer. *)
LEMMA InitLines ==
  ASSUME Init
  PROVE  NoLineHidden /\ LinesAccounted
<1>1. LineEnds = {}
  <2>1. \A i \in offset .. Size - 1 : i \in Positions
    BY DEF Init, Positions
  <2> QED  BY <2>1 DEF Init, LineEnds, NL, NUL
<1>2. Cardinality(LineEnds) = 0
  BY <1>1, FS_EmptySet
<1> QED  BY <1>2 DEF Init, NoLineHidden, LinesAccounted

(* intRead() never sleeps on a line that is in the buffer, however the     *)
(* user edits.                                                             *)
THEOREM NoLineSleptOn == Spec => []NoLineHidden
<1>1. Init => BufferInv /\ NoLineHidden
  BY InitBuffer, InitLines
<1>2. (BufferInv /\ NoLineHidden) /\ [Next]_vars => (BufferInv /\ NoLineHidden)'
  BY StepBuffer, StepCounted
<1> QED  BY <1>1, <1>2, PTL DEF Spec

(* lineCount is the number of lines in the buffer as long as the user does *)
(* not backspace over the end of a line nobody has read.                   *)
THEOREM CountIsExact == ~RubOutLines => (Spec => []LinesAccounted)
<1> SUFFICES ASSUME ~RubOutLines PROVE Spec => []LinesAccounted
  OBVIOUS
<1>1. Init => BufferInv /\ LinesAccounted
  BY InitBuffer, InitLines
<1>2. (BufferInv /\ LinesAccounted) /\ [Next]_vars => (BufferInv /\ LinesAccounted)'
  BY StepBuffer, StepAccounted
<1> QED  BY <1>1, <1>2, PTL DEF Spec

-----------------------------------------------------------------------------
(* The line that is being typed *)

(* It begins where the next line to read begins, or behind the last end of *)
(* a line.                                                                 *)
IsBegin(b, text, from) ==
  /\ b \in from .. Size
  /\ b = from \/ text[b - 1] = NL
  /\ \A i \in b .. Size - 1 : text[i] # NL

(* There is such a place. *)
LEMMA BeginExists ==
  ASSUME NEW text, NEW from \in 0 .. Size
  PROVE  \E b : IsBegin(b, text, from)
<1> DEFINE S == {b \in from .. Size : \A i \in b .. Size - 1 : text[i] # NL}
<1>1. Size \in Nat /\ from \in Nat /\ S \subseteq Nat /\ Size \in S
  BY ConstantsAssumption
<1>2. PICK b : b \in S /\ \A c \in S : b <= c
  <2> HIDE DEF S
  <2> QED  BY <1>1, FirstExists
<1>3. b \in from .. Size /\ \A i \in b .. Size - 1 : text[i] # NL
  BY <1>2
<1>4. b = from \/ text[b - 1] = NL
  <2>1. SUFFICES ASSUME b # from, text[b - 1] # NL  PROVE FALSE
    OBVIOUS
  <2>2. b - 1 \in from .. Size /\ ~(b <= b - 1)
    BY <1>1, <1>3, <2>1
  <2>3. \A i \in b - 1 .. Size - 1 : i = b - 1 \/ i \in b .. Size - 1
    BY <1>1, <1>3
  <2>4. b - 1 \in S
    BY <1>3, <2>1, <2>2, <2>3
  <2> QED  BY <1>2, <2>2, <2>4
<1> QED  BY <1>3, <1>4 DEF IsBegin

(* And only one. *)
LEMMA BeginUnique ==
  ASSUME NEW text, NEW from \in 0 .. Size, NEW b, NEW c,
         IsBegin(b, text, from), IsBegin(c, text, from)
  PROVE  b = c
<1>1. \A x, y : IsBegin(x, text, from) /\ IsBegin(y, text, from) => ~(x < y)
  <2>1. SUFFICES ASSUME NEW x, NEW y, IsBegin(x, text, from), IsBegin(y, text, from), x < y
                 PROVE  FALSE
    OBVIOUS
  <2>2. /\ x \in from .. Size /\ y \in from .. Size /\ Size \in Nat
        /\ \A i \in x .. Size - 1 : text[i] # NL
        /\ y = from \/ text[y - 1] = NL
    BY <2>1, ConstantsAssumption DEF IsBegin
  <2>3. y # from /\ y - 1 \in x .. Size - 1
    BY <2>1, <2>2
  <2> QED  BY <2>2, <2>3
<1>2. b \in from .. Size /\ c \in from .. Size /\ Size \in Nat
  BY ConstantsAssumption DEF IsBegin
<1> QED  BY <1>1, <1>2

(* It is not ahead of the keys. *)
LEMMA BeginBehind ==
  ASSUME BufferInv, NEW b, IsBegin(b, inpStr, offset)
  PROVE  b \in Nat /\ offset <= b /\ b <= strOffset
<1>1. /\ b \in offset .. Size /\ (b = offset \/ inpStr[b - 1] = NL) /\ Size \in Nat
      /\ offset \in 0 .. Size /\ strOffset \in 0 .. Size /\ offset <= strOffset
      /\ \A i \in Positions : i >= strOffset => inpStr[i] # NL
  BY ConstantsAssumption DEF IsBegin, BufferInv, TypeOK, ReadBehindTyped, NoEndAhead
<1>2. ASSUME b > strOffset  PROVE FALSE
  <2>1. b # offset /\ b - 1 \in Positions /\ b - 1 >= strOffset
    BY <1>1, <1>2 DEF Positions
  <2> QED  BY <1>1, <2>1
<1> QED  BY <1>1, <1>2

(* A character is added to it. *)
LEMMA PutTyped ==
  ASSUME BufferInv, NEW c \in Chars, Put(c), UNCHANGED offset,
         NEW b, IsBegin(b, inpStr, offset)
  PROVE  /\ IsBegin(b, inpStr', offset')
         /\ strOffset' = strOffset + 1 /\ inpStr'[strOffset] = c
         /\ \A i \in Positions : i < strOffset => inpStr'[i] = inpStr[i]
<1>1. /\ Size \in Nat /\ strOffset \in Positions /\ b \in Nat /\ b <= strOffset
      /\ inpStr'[strOffset] = c /\ c # NL
      /\ \A i \in Positions : i # strOffset => inpStr'[i] = inpStr[i]
      /\ strOffset' = strOffset + 1 /\ offset \in 0 .. Size /\ offset <= b
  BY BeginBehind, ConstantsAssumption
     DEF Put, BufferInv, TypeOK, Positions, Chars, NL, NUL, Caret
<1>2. /\ b \in offset .. Size /\ (b = offset \/ inpStr[b - 1] = NL)
      /\ \A i \in b .. Size - 1 : inpStr[i] # NL
  BY DEF IsBegin
<1>3. b = offset \/ inpStr'[b - 1] = NL
  <2>1. CASE b # offset
    <3>1. b - 1 \in Positions /\ b - 1 # strOffset
      BY <1>1, <1>2, <2>1 DEF Positions
    <3> QED  BY <1>1, <1>2, <2>1, <3>1
  <2> QED  BY <2>1
<1>4. ASSUME NEW i \in b .. Size - 1  PROVE inpStr'[i] # NL
  <2>1. i \in Positions
    BY <1>1 DEF Positions
  <2> QED  BY <1>1, <1>2, <2>1
<1>5. \A i \in Positions : i < strOffset => inpStr'[i] = inpStr[i]
  BY <1>1 DEF Positions
<1> QED  BY <1>1, <1>2, <1>3, <1>4, <1>5 DEF IsBegin

(* Backspace takes its last character, unless an end of a line is erased.  *)
LEMMA EraseTyped ==
  ASSUME BufferInv, KeyBackspace, strOffset - 1 \notin LineEnds,
         NEW b, IsBegin(b, inpStr, offset)
  PROVE  /\ IsBegin(b, inpStr', offset') /\ b < strOffset
         /\ strOffset' = strOffset - 1
         /\ \A i \in Positions : i < strOffset' => inpStr'[i] = inpStr[i]
<1>1. /\ Size \in Nat /\ offset \in 0 .. Size /\ strOffset \in 0 .. Size
      /\ offset < strOffset /\ strOffset - 1 \in Positions
      /\ inpStr \in [Positions -> Chars \cup {NL}]
      /\ strOffset' = strOffset - 1 /\ offset' = offset
  BY ConstantsAssumption
     DEF BufferInv, TypeOK, ReadBehindTyped, KeyBackspace, Erasable, Positions
<1>2. /\ inpStr'[strOffset - 1] = NUL
      /\ \A i \in Positions : i # strOffset - 1 => inpStr'[i] = inpStr[i]
  BY <1>1 DEF KeyBackspace
<1>3. inpStr[strOffset - 1] # NL
  BY <1>1 DEF LineEnds, Positions
<1>4. /\ b \in offset .. Size /\ (b = offset \/ inpStr[b - 1] = NL)
      /\ \A i \in b .. Size - 1 : inpStr[i] # NL
      /\ b \in Nat /\ b <= strOffset
  BY BeginBehind DEF IsBegin
<1>5. b # strOffset /\ b < strOffset
  BY <1>1, <1>3, <1>4
<1>6. b = offset \/ inpStr'[b - 1] = NL
  <2>1. CASE b # offset
    <3>1. b - 1 \in Positions /\ b - 1 # strOffset - 1
      BY <1>1, <1>4, <1>5, <2>1 DEF Positions
    <3> QED  BY <1>2, <1>4, <2>1, <3>1
  <2> QED  BY <2>1
<1>7. ASSUME NEW i \in b .. Size - 1  PROVE inpStr'[i] # NL
  <2>1. i \in Positions
    BY <1>1, <1>4 DEF Positions
  <2> QED  BY <1>2, <1>4, <2>1 DEF NL, NUL
<1>8. \A i \in Positions : i < strOffset' => inpStr'[i] = inpStr[i]
  BY <1>1, <1>2 DEF Positions
<1> QED  BY <1>1, <1>4, <1>5, <1>6, <1>7, <1>8 DEF IsBegin

(* intRead() leaves it alone. *)
LEMMA TakeTyped ==
  ASSUME BufferInv, TakeLine, UNCHANGED strOffset, NEW b, IsBegin(b, inpStr, offset)
  PROVE  /\ IsBegin(b, inpStr', offset')
         /\ \A i \in Positions : i >= b => inpStr'[i] = inpStr[i]
<1> DEFINE end == CHOOSE i \in LineEnds : \A j \in LineEnds : i <= j
<1>1. /\ end \in LineEnds /\ \A j \in LineEnds : end <= j
      /\ end < strOffset /\ end >= offset /\ end \in Positions
  BY FirstLineEnd DEF TakeLine, BufferInv
<1>2. /\ inpStr' = [i \in Positions |->
                      IF i \in offset .. end - 1 THEN NUL ELSE inpStr[i]]
      /\ offset' = end + 1
  BY DEF TakeLine, PastLineEnd
<1> HIDE DEF end
<1>3. /\ offset \in Nat /\ Size \in Nat /\ end \in Nat /\ inpStr[end] = NL
      /\ end \in offset .. Size - 1
      /\ \A i \in Positions : i >= end => inpStr'[i] = inpStr[i]
  BY <1>1, <1>2, ConstantsAssumption DEF BufferInv, TypeOK, Positions, LineEnds
<1>4. /\ b \in offset .. Size /\ (b = offset \/ inpStr[b - 1] = NL)
      /\ \A i \in b .. Size - 1 : inpStr[i] # NL
  BY DEF IsBegin
<1>5. end < b
  BY <1>3, <1>4
<1>6. b \in offset' .. Size
  BY <1>2, <1>3, <1>4, <1>5
<1>7. b = offset' \/ inpStr'[b - 1] = NL
  <2>1. CASE b # offset'
    <3>1. b # offset /\ b - 1 \in Positions /\ b - 1 >= end
      BY <1>2, <1>3, <1>4, <1>5, <2>1 DEF Positions
    <3> QED  BY <1>3, <1>4, <3>1
  <2> QED  BY <2>1
<1>8. \A i \in Positions : i >= b => inpStr'[i] = inpStr[i]
  BY <1>3, <1>4, <1>5 DEF Positions
<1>9. ASSUME NEW i \in b .. Size - 1  PROVE inpStr'[i] # NL
  <2>1. i \in Positions /\ i >= b
    BY <1>3, <1>4 DEF Positions
  <2> QED  BY <1>4, <1>8, <2>1
<1> QED  BY <1>6, <1>7, <1>8, <1>9 DEF IsBegin

(* Enter begins the next one. *)
LEMMA EnterTyped ==
  ASSUME BufferInv, Put(NL), UNCHANGED offset
  PROVE  IsBegin(strOffset', inpStr', offset')
<1>1. /\ Size \in Nat /\ strOffset \in Positions
      /\ inpStr'[strOffset] = NL
      /\ \A i \in Positions : i # strOffset => inpStr'[i] = inpStr[i]
      /\ strOffset' = strOffset + 1 /\ offset \in 0 .. Size /\ offset <= strOffset
      /\ \A i \in Positions : i >= strOffset => inpStr[i] # NL
  BY ConstantsAssumption
     DEF Put, BufferInv, TypeOK, ReadBehindTyped, NoEndAhead, Positions
<1>2. ASSUME NEW i \in strOffset' .. Size - 1  PROVE inpStr'[i] # NL
  <2>1. i \in Positions /\ i # strOffset /\ i >= strOffset
    BY <1>1 DEF Positions
  <2> QED  BY <1>1, <2>1
<1>3. strOffset' \in offset .. Size /\ strOffset' - 1 = strOffset
  BY <1>1 DEF Positions
<1> QED  BY <1>1, <1>2, <1>3 DEF IsBegin

(* Once a line is counted that is not there it stays so: a count that is   *)
(* right now was right before, and no end of a line has been erased.       *)
LEMMA WasAccounted ==
  ASSUME BufferInv, NoLineHidden, [Next]_vars, LinesAccounted'
  PROVE  LinesAccounted /\ (KeyBackspace => strOffset - 1 \notin LineEnds)
<1> USE DEF LinesAccounted
<1>1. IsFiniteSet(LineEnds) /\ Cardinality(LineEnds) \in Nat /\ lineCount \in Nat
  BY LineEndsFinite
<1>2. Cardinality(LineEnds) <= lineCount
  BY DEF NoLineHidden
<1>3. LinesAccounted
  <2>1. CASE LinesKept
    BY <2>1 DEF LinesKept
  <2>2. CASE LineAdded
    <3>1. PICK x : x \notin LineEnds /\ LineEnds' = LineEnds \cup {x}
      BY <2>2 DEF LineAdded
    <3>2. Cardinality(LineEnds') = Cardinality(LineEnds) + 1
      BY <1>1, <3>1, FS_AddElement
    <3> QED  BY <1>1, <2>2, <3>2 DEF LineAdded
  <2>3. CASE LineTaken
    <3>1. PICK x \in LineEnds : LineEnds' = LineEnds \ {x}
      BY <2>3 DEF LineTaken
    <3>2. Cardinality(LineEnds') = Cardinality(LineEnds) - 1
      BY <1>1, <3>1, FS_RemoveElement
    <3> QED  BY <1>1, <2>3, <3>2 DEF LineTaken
  <2>4. CASE EndErased
    <3>1. PICK x : LineEnds' = LineEnds \ {x}
      BY <2>4 DEF EndErased
    <3>2. x \in LineEnds => Cardinality(LineEnds') = Cardinality(LineEnds) - 1
      BY <1>1, <3>1, FS_RemoveElement
    <3>3. x \notin LineEnds => Cardinality(LineEnds') = Cardinality(LineEnds)
      BY <3>1
    <3>4. lineCount' = lineCount /\ Cardinality(LineEnds') = lineCount'
      BY <2>4 DEF EndErased
    <3> QED  BY <1>1, <1>2, <3>2, <3>3, <3>4
  <2> QED  BY <2>1, <2>2, <2>3, <2>4, LineEffect
<1>4. ASSUME KeyBackspace, strOffset - 1 \in LineEnds  PROVE FALSE
  <2>1. LineEnds' = LineEnds \ {strOffset - 1} /\ lineCount' = lineCount
    BY <1>4, EraseStep DEF KeyBackspace
  <2>2. Cardinality(LineEnds') = Cardinality(LineEnds) - 1
    BY <1>1, <1>4, <2>1, FS_RemoveElement
  <2> QED  BY <1>1, <1>2, <2>1, <2>2
<1> QED  BY <1>3, <1>4

-----------------------------------------------------------------------------
(* The unread part of a buffer, cut at the ends of its lines *)

Buffers == [Positions -> Chars \cup {NL}]

Piece(text, a, b)    == [k \in 1 .. b - a |-> text[a + k - 1]]
Start(S, from, k)    == IF k = 1 THEN from ELSE Sorted(S)[k - 1] + 1
Pieces(text, from, S) ==
  [k \in 1 .. Cardinality(S) |-> Piece(text, Start(S, from, k), Sorted(S)[k])]
Rest(text, from, S, to) == Piece(text, Start(S, from, Cardinality(S) + 1), to)

(* The ends of lines between a place to read from and one to write to.     *)
Between(S, from, to) ==
  /\ from \in 0 .. Size /\ to \in 0 .. Size /\ from <= to
  /\ S \subseteq Nat /\ IsFiniteSet(S)
  /\ \A x \in S : from <= x /\ x < to

(* What a piece is. *)
LEMMA PieceIs ==
  ASSUME NEW text \in Buffers, NEW a \in Nat, NEW b \in 0 .. Size, a <= b
  PROVE  /\ b - a \in Nat
         /\ Piece(text, a, b) \in [1 .. b - a -> Chars \cup {NL}]
         /\ \A k \in 1 .. b - a : Piece(text, a, b)[k] = text[a + k - 1]
<1>1. ASSUME NEW k \in 1 .. b - a  PROVE text[a + k - 1] \in Chars \cup {NL}
  <2>1. a + k - 1 \in Positions
    BY ConstantsAssumption DEF Positions
  <2> QED  BY <2>1 DEF Buffers
<1> QED  BY <1>1, ConstantsAssumption DEF Piece

(* A piece is what its characters are. *)
LEMMA PieceSame ==
  ASSUME NEW text, NEW new, NEW a \in Nat, NEW b \in Nat,
         \A i \in Nat : a <= i /\ i < b => new[i] = text[i]
  PROVE  Piece(new, a, b) = Piece(text, a, b)
<1>1. ASSUME NEW k \in 1 .. b - a  PROVE new[a + k - 1] = text[a + k - 1]
  <2>1. a + k - 1 \in Nat /\ a <= a + k - 1 /\ a + k - 1 < b
    OBVIOUS
  <2> QED  BY <2>1
<1> QED  BY <1>1 DEF Piece

(* One character more. *)
LEMMA PieceAppend ==
  ASSUME NEW text \in Buffers, NEW new \in Buffers, NEW a \in Nat,
         NEW b \in Positions, a <= b,
         \A i \in Nat : a <= i /\ i < b => new[i] = text[i]
  PROVE  Piece(new, a, b + 1) = Append(Piece(text, a, b), new[b])
<1>0. PICK f, g, n : f = Piece(text, a, b) /\ g = Piece(new, a, b + 1) /\ n = b - a
  OBVIOUS
<1>1. /\ n \in Nat /\ f \in [1 .. n -> Chars \cup {NL}]
      /\ \A k \in 1 .. n : f[k] = text[a + k - 1]
  <2>1. b \in 0 .. Size
    BY ConstantsAssumption DEF Positions
  <2>2. /\ b - a \in Nat
        /\ Piece(text, a, b) \in [1 .. b - a -> Chars \cup {NL}]
        /\ \A k \in 1 .. b - a : Piece(text, a, b)[k] = text[a + k - 1]
    BY <2>1, PieceIs
  <2> QED  BY <1>0, <2>2
<1>2. /\ g \in [1 .. n + 1 -> Chars \cup {NL}]
      /\ \A k \in 1 .. n + 1 : g[k] = new[a + k - 1]
  <2>1. PICK d \in Nat : d = b + 1
    BY DEF Positions
  <2>2. d \in 0 .. Size /\ a <= d
    BY <2>1, ConstantsAssumption DEF Positions
  <2>3. /\ Piece(new, a, d) \in [1 .. d - a -> Chars \cup {NL}]
        /\ \A k \in 1 .. d - a : Piece(new, a, d)[k] = new[a + k - 1]
    BY <2>2, PieceIs
  <2>4. d - a = n + 1
    BY <1>0, <2>1 DEF Positions
  <2> QED  BY <1>0, <2>1, <2>3, <2>4
<1>3. g[n + 1] = new[b] /\ new[b] \in Chars \cup {NL}
  <2>1. n + 1 \in 1 .. n + 1 /\ a + (n + 1) - 1 = b
    BY <1>0, <1>1 DEF Positions
  <2> QED  BY <1>2, <2>1 DEF Buffers
<1>4. ASSUME NEW k \in 1 .. n  PROVE g[k] = f[k]
  <2>1. k \in 1 .. n + 1 /\ a + k - 1 \in Nat /\ a <= a + k - 1 /\ a + k - 1 < b
    BY <1>0, <1>1 DEF Positions
  <2> QED  BY <1>1, <1>2, <2>1
<1>5. g = Append(f, new[b])
  BY <1>1, <1>2, <1>3, <1>4, AppendIs
<1> QED  BY <1>0, <1>5

(* One character less. *)
LEMMA PieceFront ==
  ASSUME NEW text \in Buffers, NEW new \in Buffers, NEW a \in Nat,
         NEW b \in Positions, a <= b,
         \A i \in Nat : a <= i /\ i < b => new[i] = text[i]
  PROVE  /\ Piece(text, a, b + 1) # << >>
         /\ Piece(new, a, b) = SubSeq(Piece(text, a, b + 1), 1,
                                      Len(Piece(text, a, b + 1)) - 1)
<1>0. PICK f, g, n : f = Piece(text, a, b + 1) /\ g = Piece(new, a, b) /\ n = b - a
  OBVIOUS
<1>1. /\ n \in Nat /\ g \in [1 .. n -> Chars \cup {NL}]
      /\ \A k \in 1 .. n : g[k] = new[a + k - 1]
  <2>1. b \in 0 .. Size
    BY ConstantsAssumption DEF Positions
  <2>2. /\ b - a \in Nat
        /\ Piece(new, a, b) \in [1 .. b - a -> Chars \cup {NL}]
        /\ \A k \in 1 .. b - a : Piece(new, a, b)[k] = new[a + k - 1]
    BY <2>1, PieceIs
  <2> QED  BY <1>0, <2>2
<1>2. /\ f \in [1 .. n + 1 -> Chars \cup {NL}]
      /\ \A k \in 1 .. n + 1 : f[k] = text[a + k - 1]
  <2>1. PICK d \in Nat : d = b + 1
    BY DEF Positions
  <2>2. d \in 0 .. Size /\ a <= d
    BY <2>1, ConstantsAssumption DEF Positions
  <2>3. /\ Piece(text, a, d) \in [1 .. d - a -> Chars \cup {NL}]
        /\ \A k \in 1 .. d - a : Piece(text, a, d)[k] = text[a + k - 1]
    BY <2>2, PieceIs
  <2>4. d - a = n + 1
    BY <1>0, <2>1 DEF Positions
  <2> QED  BY <1>0, <2>1, <2>3, <2>4
<1>3. ASSUME NEW k \in 1 .. n  PROVE g[k] = f[k]
  <2>1. k \in 1 .. n + 1 /\ a + k - 1 \in Nat /\ a <= a + k - 1 /\ a + k - 1 < b
    BY <1>0, <1>1 DEF Positions
  <2> QED  BY <1>1, <1>2, <2>1
<1>4. f # << >> /\ g = SubSeq(f, 1, Len(f) - 1)
  BY <1>1, <1>2, <1>3, FrontIs
<1> QED  BY <1>0, <1>4

(* Where the pieces begin and end. *)
LEMMA StartIs ==
  ASSUME NEW S, NEW from, NEW to, Between(S, from, to)
  PROVE  /\ Cardinality(S) \in Nat /\ from \in Nat /\ to \in Nat
         /\ \A k \in 1 .. Cardinality(S) + 1 :
              Start(S, from, k) \in Nat /\ from <= Start(S, from, k)
                /\ Start(S, from, k) <= to
         /\ \A k \in 1 .. Cardinality(S) :
              /\ Sorted(S)[k] \in S /\ Sorted(S)[k] \in Nat
              /\ from <= Sorted(S)[k] /\ Sorted(S)[k] < to
<1>1. /\ Cardinality(S) \in Nat /\ from \in Nat /\ to \in Nat /\ from <= to
      /\ S \subseteq Nat /\ IsFiniteSet(S)
      /\ \A x \in S : from <= x /\ x < to
  BY FS_CardinalityType, ConstantsAssumption DEF Between
<1>2. ASSUME NEW k \in 1 .. Cardinality(S)
      PROVE  /\ Sorted(S)[k] \in S /\ Sorted(S)[k] \in Nat
             /\ from <= Sorted(S)[k] /\ Sorted(S)[k] < to
  BY <1>1, SortedElements
<1>3. ASSUME NEW k \in 1 .. Cardinality(S) + 1
      PROVE  Start(S, from, k) \in Nat /\ from <= Start(S, from, k)
                /\ Start(S, from, k) <= to
  <2>1. CASE k = 1
    BY <1>1, <2>1 DEF Start
  <2>2. CASE k # 1
    <3>1. k - 1 \in 1 .. Cardinality(S)
      BY <1>1, <2>2
    <3>2. PICK e : e = Sorted(S)[k - 1]
      OBVIOUS
    <3>3. e \in Nat /\ from <= e /\ e < to
      BY <1>2, <3>1, <3>2
    <3>4. Start(S, from, k) = e + 1
      BY <2>2, <3>2 DEF Start
    <3> QED  BY <1>1, <3>3, <3>4
  <2> QED  BY <2>1, <2>2
<1> QED  BY <1>1, <1>2, <1>3

(* Each piece is a sequence of characters that begins behind the end of    *)
(* the piece before it.                                                    *)
LEMMA PiecesAre ==
  ASSUME NEW S, NEW from, NEW to, Between(S, from, to), NEW text \in Buffers
  PROVE  /\ Pieces(text, from, S) \in [1 .. Cardinality(S) -> Seq(Chars \cup {NL})]
         /\ \A k \in 1 .. Cardinality(S) :
              Pieces(text, from, S)[k] = Piece(text, Start(S, from, k), Sorted(S)[k])
<1>1. ASSUME NEW k \in 1 .. Cardinality(S)
      PROVE  Piece(text, Start(S, from, k), Sorted(S)[k]) \in Seq(Chars \cup {NL})
  <2>1. PICK a, b : a = Start(S, from, k) /\ b = Sorted(S)[k]
    OBVIOUS
  <2>2. a \in Nat /\ b \in Nat /\ b < to
    BY <2>1, StartIs
  <2>3. to \in 0 .. Size
    BY DEF Between
  <2>4. CASE a <= b
    <3>1. b \in 0 .. Size
      BY <2>2, <2>3, ConstantsAssumption
    <3>2. b - a \in Nat /\ Piece(text, a, b) \in [1 .. b - a -> Chars \cup {NL}]
      BY <2>2, <2>4, <3>1, PieceIs
    <3>3. Piece(text, a, b) \in Seq(Chars \cup {NL})
      BY <3>2, SeqIs
    <3> QED  BY <2>1, <3>3
  <2>5. CASE ~(a <= b)
    <3>1. 1 .. b - a = {} /\ 1 .. 0 = {}
      BY <2>2, <2>5
    <3>2. Piece(text, a, b) \in [1 .. 0 -> Chars \cup {NL}]
      BY <3>1 DEF Piece
    <3>3. Piece(text, a, b) \in Seq(Chars \cup {NL})
      BY <3>2, SeqIs
    <3> QED  BY <2>1, <3>3
  <2> QED  BY <2>4, <2>5
<1> QED  BY <1>1 DEF Pieces

(* A change behind the last end of a line, or before the first place to    *)
(* read from, changes no piece.                                            *)
LEMMA PiecesKept ==
  ASSUME NEW S, NEW from, NEW to, Between(S, from, to), NEW text, NEW new,
         \A x \in S : \A i \in Nat : from <= i /\ i < x => new[i] = text[i]
  PROVE  Pieces(new, from, S) = Pieces(text, from, S)
<1>1. ASSUME NEW k \in 1 .. Cardinality(S)
      PROVE  Piece(new, Start(S, from, k), Sorted(S)[k])
               = Piece(text, Start(S, from, k), Sorted(S)[k])
  <2>1. PICK a, b : a = Start(S, from, k) /\ b = Sorted(S)[k]
    OBVIOUS
  <2>2. a \in Nat /\ b \in Nat /\ b \in S /\ from <= a /\ from \in Nat
    <3>1. k \in 1 .. Cardinality(S) + 1
      BY StartIs
    <3> QED  BY <2>1, <3>1, StartIs
  <2>3. \A i \in Nat : a <= i /\ i < b => new[i] = text[i]
    BY <2>2
  <2>4. Piece(new, a, b) = Piece(text, a, b)
    BY <2>2, <2>3, PieceSame
  <2> QED  BY <2>1, <2>4
<1> QED  BY <1>1 DEF Pieces

(* What is left over is one more piece. *)
Completed(new, text, from, S, x) ==
  Pieces(new, from, S \cup {x}) = Append(Pieces(text, from, S), Rest(text, from, S, x))

(* A new end of a line behind the others makes what is left over a piece.  *)
LEMMA PiecesEnter ==
  ASSUME NEW S, NEW from, NEW x, Between(S, from, x), x \in Positions,
         NEW text \in Buffers, NEW new \in Buffers,
         \A i \in Nat : from <= i /\ i < x => new[i] = text[i]
  PROVE  /\ Completed(new, text, from, S, x)
         /\ Rest(new, from, S \cup {x}, x + 1) = << >>
<1>0. PICK T, n, a, V : /\ T = S \cup {x} /\ n = Cardinality(S)
                        /\ a = Start(S, from, n + 1) /\ V = Seq(Chars \cup {NL})
  OBVIOUS
<1>1. /\ S \subseteq Nat /\ IsFiniteSet(S) /\ from \in Nat /\ x \in Nat /\ n \in Nat
      /\ from <= x /\ x \in 0 .. Size /\ x + 1 \in 0 .. Size
      /\ \A y \in S : from <= y /\ y < x
  BY <1>0, FS_CardinalityType, ConstantsAssumption DEF Between, Positions
<1>2. /\ Cardinality(T) = n + 1 /\ Sorted(T)[n + 1] = x
      /\ \A k \in 1 .. n : Sorted(T)[k] = Sorted(S)[k]
  BY <1>0, <1>1, SortedAdd
<1>3. Between(T, from, x + 1)
  <2>1. T \subseteq Nat /\ IsFiniteSet(T)
    BY <1>0, <1>1, FS_AddElement
  <2>2. ASSUME NEW y \in T  PROVE from <= y /\ y < x + 1
    <3>1. y \in Nat /\ (y = x \/ (from <= y /\ y < x))
      BY <1>0, <1>1, <2>1
    <3> QED  BY <1>1, <3>1
  <2> QED  BY <1>1, <2>1, <2>2, ConstantsAssumption DEF Between
<1>4. ASSUME NEW k \in 1 .. n + 1  PROVE Start(T, from, k) = Start(S, from, k)
  <2>1. CASE k # 1
    <3>1. k - 1 \in 1 .. n
      BY <1>1, <2>1
    <3> QED  BY <1>2, <3>1 DEF Start
  <2> QED  BY <2>1 DEF Start
<1>5. PICK f, g : f = Pieces(text, from, S) /\ g = Pieces(new, from, T)
  OBVIOUS
<1>6. /\ f \in [1 .. n -> V]
      /\ \A k \in 1 .. n : f[k] = Piece(text, Start(S, from, k), Sorted(S)[k])
  BY <1>0, <1>5, PiecesAre
<1>7. /\ g \in [1 .. n + 1 -> V]
      /\ \A k \in 1 .. n + 1 : g[k] = Piece(new, Start(T, from, k), Sorted(T)[k])
  <2>1. /\ Pieces(new, from, T) \in [1 .. Cardinality(T) -> Seq(Chars \cup {NL})]
        /\ \A k \in 1 .. Cardinality(T) :
             Pieces(new, from, T)[k] = Piece(new, Start(T, from, k), Sorted(T)[k])
    BY <1>3, PiecesAre
  <2> QED  BY <1>0, <1>2, <1>5, <2>1
<1>8. ASSUME NEW k \in 1 .. n  PROVE g[k] = f[k]
  <2>1. PICK c, b : c = Start(S, from, k) /\ b = Sorted(S)[k]
    OBVIOUS
  <2>2. k \in 1 .. n + 1
    BY <1>1
  <2>3. c \in Nat /\ b \in Nat /\ from <= c /\ b < x
    BY <1>0, <2>1, <2>2, StartIs
  <2>4. \A i \in Nat : c <= i /\ i < b => new[i] = text[i]
    BY <1>1, <2>3
  <2>5. Piece(new, c, b) = Piece(text, c, b)
    BY <2>3, <2>4, PieceSame
  <2>6. g[k] = Piece(new, c, b)
    BY <1>2, <1>4, <1>7, <2>1, <2>2
  <2> QED  BY <1>6, <2>1, <2>5, <2>6
<1>9. PICK r : r = Rest(text, from, S, x)
  OBVIOUS
<1>10. a \in Nat /\ from <= a /\ a <= x
  <2>1. n + 1 \in 1 .. n + 1
    BY <1>1
  <2> QED  BY <1>0, <2>1, StartIs
<1>11. g[n + 1] = r /\ r \in V
  <2>1. n + 1 \in 1 .. n + 1
    BY <1>1
  <2>2. g[n + 1] = Piece(new, a, x)
    BY <1>0, <1>2, <1>4, <1>7, <2>1
  <2>3. \A i \in Nat : a <= i /\ i < x => new[i] = text[i]
    BY <1>1, <1>10
  <2>4. Piece(new, a, x) = Piece(text, a, x)
    BY <1>1, <1>10, <2>3, PieceSame
  <2>5. r = Piece(text, a, x)
    BY <1>0, <1>9 DEF Rest
  <2>6. g[n + 1] \in V
    BY <1>7, <2>1
  <2> QED  BY <2>2, <2>4, <2>5, <2>6
<1>12. g = Append(f, r)
  <2>1. n \in Nat /\ f \in [1 .. n -> V] /\ g \in [1 .. n + 1 -> V]
    BY <1>1, <1>6, <1>7
  <2> QED  BY <1>8, <1>11, <2>1, AppendIs
<1>13. Rest(new, from, T, x + 1) = << >>
  <2>1. Start(T, from, n + 2) = x + 1
    <3>1. PICK k : k = n + 2
      OBVIOUS
    <3>2. k # 1 /\ k - 1 = n + 1
      BY <1>1, <3>1
    <3>3. Start(T, from, k) = Sorted(T)[n + 1] + 1
      BY <3>2 DEF Start
    <3> QED  BY <1>2, <3>1, <3>3
  <2>2. Cardinality(T) + 1 = n + 2
    BY <1>1, <1>2
  <2>3. Rest(new, from, T, x + 1) = Piece(new, x + 1, x + 1)
    BY <2>1, <2>2 DEF Rest
  <2>4. /\ x + 1 - (x + 1) \in Nat /\ x + 1 - (x + 1) = 0
        /\ Piece(new, x + 1, x + 1) \in [1 .. x + 1 - (x + 1) -> Chars \cup {NL}]
    <3>1. x + 1 \in Nat /\ x + 1 <= x + 1
      BY <1>1
    <3>2. x + 1 - (x + 1) = 0
      BY <1>1
    <3>3. /\ x + 1 - (x + 1) \in Nat
          /\ Piece(new, x + 1, x + 1) \in [1 .. x + 1 - (x + 1) -> Chars \cup {NL}]
      BY <1>1, <3>1, PieceIs
    <3> QED  BY <3>2, <3>3
  <2>5. Piece(new, x + 1, x + 1) = << >>
    BY <2>4, SeqIs
  <2> QED  BY <2>3, <2>5
<1> QED  BY <1>0, <1>5, <1>9, <1>12, <1>13 DEF Completed

(* When the first end of a line has been passed, the first piece is gone   *)
(* and what is left over is the same.                                      *)
LEMMA PiecesTake ==
  ASSUME NEW S, NEW from, NEW to, Between(S, from, to), NEW text \in Buffers,
         NEW new \in Buffers, NEW x \in S, \A y \in S : x <= y,
         \A i \in Nat : x < i /\ i < to => new[i] = text[i]
  PROVE  /\ Pieces(text, from, S) # << >>
         /\ Head(Pieces(text, from, S)) = Piece(text, from, x)
         /\ Pieces(new, x + 1, S \ {x}) = Tail(Pieces(text, from, S))
         /\ Rest(new, x + 1, S \ {x}, to) = Rest(text, from, S, to)
<1>0. PICK T, m, V, z : /\ T = S \ {x} /\ m = Cardinality(S) - 1
                        /\ V = Seq(Chars \cup {NL}) /\ z = x + 1
  OBVIOUS
<1>1. /\ S \subseteq Nat /\ IsFiniteSet(S) /\ from \in Nat /\ to \in Nat /\ x \in Nat
      /\ from <= x /\ x < to /\ z \in Nat /\ z <= to /\ to \in 0 .. Size
      /\ \A y \in S : from <= y /\ y < to
  BY <1>0, ConstantsAssumption DEF Between
<1>2. /\ Cardinality(S) >= 1 /\ Sorted(S)[1] = x /\ Cardinality(T) = m
      /\ \A k \in 1 .. m : Sorted(T)[k] = Sorted(S)[k + 1]
  BY <1>0, <1>1, SortedDrop
<1>3. m \in Nat /\ Cardinality(S) = m + 1
  <2>1. Cardinality(S) \in Nat
    BY <1>1, FS_CardinalityType
  <2> QED  BY <1>0, <1>2, <2>1
<1>4. Between(T, z, to)
  <2>1. T \subseteq Nat /\ IsFiniteSet(T)
    BY <1>0, <1>1, FS_RemoveElement
  <2>2. ASSUME NEW y \in T  PROVE z <= y /\ y < to
    <3>1. y \in Nat /\ y \in S /\ y # x /\ x <= y
      BY <1>0, <1>1
    <3> QED  BY <1>0, <1>1, <3>1
  <2>3. z \in 0 .. Size
    BY <1>1, ConstantsAssumption
  <2> QED  BY <1>1, <2>1, <2>2, <2>3 DEF Between
<1>5. ASSUME NEW k \in 1 .. m + 1  PROVE Start(T, z, k) = Start(S, from, k + 1)
  <2>1. PICK j : j = k + 1
    OBVIOUS
  <2>2. j # 1 /\ j - 1 = k
    BY <1>3, <2>1
  <2>3. Start(S, from, j) = Sorted(S)[k] + 1
    BY <2>2 DEF Start
  <2>4. CASE k = 1
    BY <1>0, <1>2, <2>1, <2>3, <2>4 DEF Start
  <2>5. CASE k # 1
    <3>1. PICK i : i = k - 1
      OBVIOUS
    <3>2. i \in 1 .. m /\ i + 1 = k
      BY <1>3, <2>5, <3>1
    <3>3. Sorted(T)[i] = Sorted(S)[k]
      BY <1>2, <3>2
    <3>4. Start(T, z, k) = Sorted(T)[i] + 1
      BY <2>5, <3>1 DEF Start
    <3> QED  BY <2>1, <2>3, <3>3, <3>4
  <2> QED  BY <2>4, <2>5
<1>6. PICK f, g : f = Pieces(text, from, S) /\ g = Pieces(new, z, T)
  OBVIOUS
<1>7. /\ f \in [1 .. m + 1 -> V]
      /\ \A k \in 1 .. m + 1 : f[k] = Piece(text, Start(S, from, k), Sorted(S)[k])
  <2>1. /\ Pieces(text, from, S) \in [1 .. Cardinality(S) -> Seq(Chars \cup {NL})]
        /\ \A k \in 1 .. Cardinality(S) :
             Pieces(text, from, S)[k] = Piece(text, Start(S, from, k), Sorted(S)[k])
    BY PiecesAre
  <2> QED  BY <1>0, <1>3, <1>6, <2>1
<1>8. /\ g \in [1 .. m -> V]
      /\ \A k \in 1 .. m : g[k] = Piece(new, Start(T, z, k), Sorted(T)[k])
  <2>1. /\ Pieces(new, z, T) \in [1 .. Cardinality(T) -> Seq(Chars \cup {NL})]
        /\ \A k \in 1 .. Cardinality(T) :
             Pieces(new, z, T)[k] = Piece(new, Start(T, z, k), Sorted(T)[k])
    BY <1>4, PiecesAre
  <2> QED  BY <1>0, <1>2, <1>6, <2>1
<1>9. ASSUME NEW k \in 1 .. m  PROVE g[k] = f[k + 1]
  <2>1. PICK a, b : a = Start(T, z, k) /\ b = Sorted(T)[k]
    OBVIOUS
  <2>2. k \in 1 .. m + 1 /\ k + 1 \in 1 .. m + 1
    BY <1>3
  <2>3. a \in Nat /\ b \in Nat /\ z <= a /\ b < to
    BY <1>2, <1>4, <2>1, <2>2, StartIs
  <2>4. \A i \in Nat : a <= i /\ i < b => new[i] = text[i]
    BY <1>0, <1>1, <2>3
  <2>5. Piece(new, a, b) = Piece(text, a, b)
    BY <2>3, <2>4, PieceSame
  <2>6. g[k] = Piece(new, a, b)
    BY <1>8, <2>1
  <2>7. f[k + 1] = Piece(text, a, b)
    BY <1>2, <1>5, <1>7, <2>1, <2>2
  <2> QED  BY <2>5, <2>6, <2>7
<1>10. f # << >> /\ Head(f) = f[1] /\ g = Tail(f)
  <2>1. m \in Nat /\ f \in [1 .. m + 1 -> V] /\ g \in [1 .. m -> V]
    BY <1>3, <1>7, <1>8
  <2> QED  BY <1>9, <2>1, TailIs
<1>11. f[1] = Piece(text, from, x)
  <2>1. 1 \in 1 .. m + 1
    BY <1>3
  <2> QED  BY <1>2, <1>7, <2>1 DEF Start
<1>12. Rest(new, z, T, to) = Rest(text, from, S, to)
  <2>1. PICK a : a = Start(T, z, m + 1)
    OBVIOUS
  <2>2. m + 1 \in 1 .. m + 1
    BY <1>3
  <2>3. a = Start(S, from, Cardinality(S) + 1)
    BY <1>3, <1>5, <2>1, <2>2
  <2>4. a \in Nat /\ z <= a
    BY <1>2, <1>4, <2>1, <2>2, StartIs
  <2>5. \A i \in Nat : a <= i /\ i < to => new[i] = text[i]
    BY <1>0, <1>1, <2>4
  <2>6. Piece(new, a, to) = Piece(text, a, to)
    BY <1>1, <2>4, <2>5, PieceSame
  <2>7. Rest(new, z, T, to) = Piece(new, a, to)
    BY <1>2, <2>1 DEF Rest
  <2>8. Rest(text, from, S, to) = Piece(text, a, to)
    BY <2>3 DEF Rest
  <2> QED  BY <2>6, <2>7, <2>8
<1>13. f = Pieces(text, from, S) /\ g = Pieces(new, x + 1, S \ {x})
  BY <1>0, <1>6
<1>14. Rest(new, x + 1, S \ {x}, to) = Rest(text, from, S, to)
  BY <1>0, <1>12
<1> QED  BY <1>10, <1>11, <1>13, <1>14

-----------------------------------------------------------------------------
(* read(stdin) *)

LinesOf   == [k \in DOMAIN Ends |-> Text(Begin(k), Ends[k])]
CurrentOf == Text(Begin(Cardinality(LineEnds) + 1), strOffset)

(* The mapping in terms of the buffer. *)
MappedIs ==
  /\ LinesOf = Pieces(inpStr, offset, LineEnds)
  /\ CurrentOf = Rest(inpStr, offset, LineEnds, strOffset)

(* The pieces of the buffer are what the mapping shows. *)
LEMMA MapIs == MappedIs
<1>1. DOMAIN Ends = 1 .. Cardinality(LineEnds)
  BY DEF Ends, Sorted
<1>2. LinesOf = Pieces(inpStr, offset, LineEnds)
  BY <1>1 DEF LinesOf, Pieces, Text, Piece, Begin, Start, Ends
<1>3. CurrentOf = Rest(inpStr, offset, LineEnds, strOffset)
  BY DEF CurrentOf, Rest, Text, Piece, Begin, Start, Ends
<1> QED  BY <1>2, <1>3 DEF MappedIs

(* The mapping depends on these four only. *)
LEMMA MapKept ==
  ASSUME UNCHANGED <<inpStr, offset, strOffset>>
  PROVE  LinesOf' = LinesOf /\ CurrentOf' = CurrentOf
<1>1. LineEnds' = LineEnds
  BY DEF LineEnds
<1>2. MappedIs /\ MappedIs'
  BY MapIs, PTL
<1> QED  BY <1>1, <1>2 DEF MappedIs

(* The newlines lie between the two offsets. *)
LEMMA BufferBetween ==
  ASSUME BufferInv
  PROVE  Between(LineEnds, offset, strOffset) /\ inpStr \in Buffers
<1>1. /\ Size \in Nat /\ offset \in 0 .. Size /\ strOffset \in 0 .. Size
      /\ offset <= strOffset /\ inpStr \in Buffers
  BY ConstantsAssumption DEF BufferInv, TypeOK, ReadBehindTyped, Buffers
<1>2. ASSUME NEW x \in LineEnds  PROVE x \in Nat /\ offset <= x /\ x < strOffset
  <2>1. x \in Nat /\ offset <= x /\ x \in Positions /\ inpStr[x] = NL
    BY <1>1 DEF LineEnds, Positions
  <2>2. ~(x >= strOffset)
    BY <2>1 DEF BufferInv, NoEndAhead
  <2> QED  BY <1>1, <2>1, <2>2
<1> QED  BY <1>1, <1>2, LineEndsFinite DEF Between

(* A key that adds a character to the line that is being typed.            *)
LEMMA PutTypes ==
  ASSUME BufferInv, NEW c \in Chars, Put(c), UNCHANGED offset
  PROVE  LinesOf' = LinesOf /\ CurrentOf' = Append(CurrentOf, c)
<1>1. PICK S, T, text, new, from, to :
        /\ S = LineEnds /\ T = LineEnds' /\ text = inpStr /\ new = inpStr'
        /\ from = offset /\ to = strOffset
  OBVIOUS
<1>2. Between(S, from, to) /\ text \in Buffers
  BY <1>1, BufferBetween
<1>3. /\ new \in Buffers /\ T = S
      /\ to \in Positions /\ strOffset' = to + 1 /\ new[to] = c
      /\ \A i \in Nat : from <= i /\ i < to => new[i] = text[i]
  <2>1. c # NL
    BY DEF Chars, NL, NUL, Caret
  <2>2. inpStr' \in [Positions -> Chars \cup {NL}] /\ LineEnds' = LineEnds
    BY <2>1, PutStep
  <2>3. /\ Size \in Nat /\ strOffset \in Positions /\ strOffset' = strOffset + 1
        /\ inpStr'[strOffset] = c
        /\ \A i \in Positions : i # strOffset => inpStr'[i] = inpStr[i]
    BY ConstantsAssumption DEF Put, BufferInv, TypeOK, Positions
  <2>4. ASSUME NEW i \in Nat, from <= i, i < to  PROVE new[i] = text[i]
    <3>1. i \in Positions /\ i # strOffset
      BY <1>1, <2>3, <2>4 DEF Positions
    <3> QED  BY <1>1, <2>3, <3>1
  <2> QED  BY <1>1, <2>2, <2>3, <2>4 DEF Buffers
<1>4. Pieces(new, from, S) = Pieces(text, from, S)
  <2>1. \A x \in S : \A i \in Nat : from <= i /\ i < x => new[i] = text[i]
    <3>1. ASSUME NEW x \in S, NEW i \in Nat, from <= i, i < x  PROVE i < to
      <4>1. x \in Nat /\ x < to /\ to \in Nat
        BY <1>2, StartIs DEF Between
      <4> QED  BY <3>1, <4>1
    <3> QED  BY <1>3, <3>1
  <2> QED  BY <1>2, <2>1, PiecesKept
<1>5. Rest(new, from, S, to + 1) = Append(Rest(text, from, S, to), c)
  <2>1. PICK a : a = Start(S, from, Cardinality(S) + 1)
    OBVIOUS
  <2>2. a \in Nat /\ from <= a /\ a <= to /\ from \in Nat
    <3>1. Cardinality(S) + 1 \in 1 .. Cardinality(S) + 1
      BY <1>2, StartIs
    <3> QED  BY <1>2, <2>1, <3>1, StartIs
  <2>3. \A i \in Nat : a <= i /\ i < to => new[i] = text[i]
    BY <1>3, <2>2
  <2>4. Piece(new, a, to + 1) = Append(Piece(text, a, to), new[to])
    BY <1>2, <1>3, <2>2, <2>3, PieceAppend
  <2> QED  BY <1>3, <2>1, <2>4 DEF Rest
<1>6. MappedIs /\ MappedIs'
  BY MapIs, PTL
<1>7. offset' = from
  BY <1>1
<1> QED  BY <1>1, <1>3, <1>4, <1>5, <1>6, <1>7 DEF MappedIs

(* Backspace takes the last one. *)
LEMMA BackspaceTypes ==
  ASSUME BufferInv, KeyBackspace, strOffset - 1 \notin LineEnds
  PROVE  /\ LinesOf' = LinesOf /\ CurrentOf # << >>
         /\ CurrentOf' = SubSeq(CurrentOf, 1, Len(CurrentOf) - 1)
<1>1. PICK S, T, text, new, from, b :
        /\ S = LineEnds /\ T = LineEnds' /\ text = inpStr /\ new = inpStr'
        /\ from = offset /\ b = strOffset - 1
  OBVIOUS
<1>2. Between(S, from, strOffset) /\ text \in Buffers
  BY <1>1, BufferBetween
<1>3. /\ Size \in Nat /\ offset \in 0 .. Size /\ strOffset \in 0 .. Size
      /\ offset < strOffset /\ strOffset' = strOffset - 1 /\ offset' = offset
  BY ConstantsAssumption
     DEF BufferInv, TypeOK, ReadBehindTyped, KeyBackspace, Erasable
<1>4. b \in Positions /\ strOffset = b + 1 /\ from <= b /\ b \in Nat /\ from \in Nat
  BY <1>1, <1>3 DEF Positions
<1>5. new \in Buffers /\ T = S
  <2>1. LineEnds' = LineEnds \ {strOffset - 1}
    BY EraseStep
  <2>2. inpStr' = [inpStr EXCEPT ![strOffset - 1] = NUL]
    BY DEF KeyBackspace
  <2>3. NUL \in Chars
    BY DEF Chars
  <2> QED  BY <1>1, <1>2, <2>1, <2>2, <2>3 DEF Buffers
<1>6. \A i \in Nat : from <= i /\ i < b => new[i] = text[i]
  <2>1. ASSUME NEW i \in Nat, from <= i, i < b  PROVE new[i] = text[i]
    <3>1. i \in Positions /\ i # strOffset - 1
      BY <1>3, <1>4, <2>1 DEF Positions
    <3>2. inpStr \in [Positions -> Chars \cup {NL}]
      BY DEF BufferInv, TypeOK
    <3> QED  BY <1>1, <3>1, <3>2 DEF KeyBackspace
  <2> QED  BY <2>1
<1>7. Between(S, from, b)
  <2>1. ASSUME NEW x \in S  PROVE from <= x /\ x < b
    <3>1. x \in Nat /\ from <= x /\ x < strOffset
      BY <1>2 DEF Between
    <3>2. x # b
      BY <1>1
    <3> QED  BY <1>4, <3>1, <3>2
  <2>2. b \in 0 .. Size
    BY <1>3, <1>4 DEF Positions
  <2> QED  BY <1>2, <1>4, <2>1, <2>2 DEF Between
<1>8. Pieces(new, from, S) = Pieces(text, from, S)
  <2>1. \A x \in S : \A i \in Nat : from <= i /\ i < x => new[i] = text[i]
    <3>1. ASSUME NEW x \in S, NEW i \in Nat, from <= i, i < x  PROVE i < b
      <4>1. x \in Nat /\ x < b
        BY <1>7 DEF Between
      <4> QED  BY <1>4, <3>1, <4>1
    <3> QED  BY <1>6, <3>1
  <2> QED  BY <1>7, <2>1, PiecesKept
<1>9. PICK r, s : r = Rest(text, from, S, b + 1) /\ s = Rest(new, from, S, b)
  OBVIOUS
<1>10. r # << >> /\ s = SubSeq(r, 1, Len(r) - 1)
  <2>1. PICK a : a = Start(S, from, Cardinality(S) + 1)
    OBVIOUS
  <2>2. a \in Nat /\ from <= a /\ a <= b
    <3>1. Cardinality(S) + 1 \in 1 .. Cardinality(S) + 1
      BY <1>7, StartIs
    <3> QED  BY <1>7, <2>1, <3>1, StartIs
  <2>3. \A i \in Nat : a <= i /\ i < b => new[i] = text[i]
    BY <1>4, <1>6, <2>2
  <2>4. /\ Piece(text, a, b + 1) # << >>
        /\ Piece(new, a, b) = SubSeq(Piece(text, a, b + 1), 1,
                                     Len(Piece(text, a, b + 1)) - 1)
    BY <1>2, <1>4, <1>5, <2>2, <2>3, PieceFront
  <2>5. r = Piece(text, a, b + 1) /\ s = Piece(new, a, b)
    BY <1>9, <2>1 DEF Rest
  <2> QED  BY <2>4, <2>5
<1>11. MappedIs /\ MappedIs'
  BY MapIs, PTL
<1>12. CurrentOf = r
  BY <1>1, <1>4, <1>9, <1>11 DEF MappedIs
<1>13. CurrentOf' = s
  BY <1>1, <1>3, <1>5, <1>9, <1>11 DEF MappedIs
<1>14. LinesOf' = LinesOf
  BY <1>1, <1>3, <1>5, <1>8, <1>11 DEF MappedIs
<1> QED  BY <1>10, <1>12, <1>13, <1>14

(* Enter completes the line. *)
LEMMA EnterTypes ==
  ASSUME BufferInv, Put(NL), UNCHANGED offset
  PROVE  LinesOf' = Append(LinesOf, CurrentOf) /\ CurrentOf' = << >>
<1>1. PICK S, T, text, new, from, x :
        /\ S = LineEnds /\ T = LineEnds' /\ text = inpStr /\ new = inpStr'
        /\ from = offset /\ x = strOffset
  OBVIOUS
<1>2. Between(S, from, x) /\ text \in Buffers
  BY <1>1, BufferBetween
<1>3. /\ new \in Buffers /\ T = S \cup {x} /\ x \in Positions /\ strOffset' = x + 1
      /\ \A i \in Nat : from <= i /\ i < x => new[i] = text[i]
  <2>1. inpStr' \in [Positions -> Chars \cup {NL}] /\ LineEnds' = LineEnds \cup {strOffset}
    BY PutStep
  <2>2. /\ Size \in Nat /\ strOffset \in Positions /\ strOffset' = strOffset + 1
        /\ \A i \in Positions : i # strOffset => inpStr'[i] = inpStr[i]
    BY ConstantsAssumption DEF Put, BufferInv, TypeOK, Positions
  <2>3. ASSUME NEW i \in Nat, from <= i, i < x  PROVE new[i] = text[i]
    <3>1. i \in Positions /\ i # strOffset
      BY <1>1, <2>2, <2>3 DEF Positions
    <3> QED  BY <1>1, <2>2, <3>1
  <2> QED  BY <1>1, <2>1, <2>2, <2>3 DEF Buffers
<1>4. /\ Pieces(new, from, S \cup {x}) = Append(Pieces(text, from, S), Rest(text, from, S, x))
      /\ Rest(new, from, S \cup {x}, x + 1) = << >>
  <2>1. new \in Buffers /\ x \in Positions /\ Between(S, from, x) /\ text \in Buffers
    BY <1>2, <1>3
  <2>2. \A i \in Nat : from <= i /\ i < x => new[i] = text[i]
    BY <1>3
  <2>3. /\ Completed(new, text, from, S, x)
        /\ Rest(new, from, S \cup {x}, x + 1) = << >>
    BY <2>1, <2>2, PiecesEnter
  <2> QED  BY <2>3 DEF Completed
<1>5. MappedIs /\ MappedIs'
  BY MapIs, PTL
<1> QED  BY <1>1, <1>3, <1>4, <1>5 DEF MappedIs

(* intRead() takes the first line. *)
LEMMA TakeTypes ==
  ASSUME BufferInv, TakeLine, UNCHANGED strOffset
  PROVE  /\ LinesOf # << >> /\ got' = Head(LinesOf)
         /\ LinesOf' = Tail(LinesOf) /\ CurrentOf' = CurrentOf
<1>1. PICK S, T, text, new, from, to, x :
        /\ S = LineEnds /\ T = LineEnds' /\ text = inpStr /\ new = inpStr'
        /\ from = offset /\ to = strOffset
        /\ x = CHOOSE i \in LineEnds : \A j \in LineEnds : i <= j
  OBVIOUS
<1>2. Between(S, from, to) /\ text \in Buffers
  BY <1>1, BufferBetween
<1>3. x \in S /\ (\A y \in S : x <= y) /\ x \in Nat
  <2>1. x \in LineEnds /\ \A y \in LineEnds : x <= y
    BY <1>1, FirstLineEnd DEF TakeLine
  <2> QED  BY <1>1, <1>2, <2>1 DEF Between
<1>4. /\ got' = Piece(text, from, x) /\ offset' = x + 1
      /\ new = [i \in Positions |-> IF i \in from .. x - 1 THEN NUL ELSE text[i]]
  BY <1>1 DEF TakeLine, PastLineEnd, Piece
<1>5. new \in Buffers
  BY <1>1, TakeStep DEF Buffers
<1>6. \A i \in Nat : x < i /\ i < to => new[i] = text[i]
  <2>1. ASSUME NEW i \in Nat, x < i, i < to  PROVE new[i] = text[i]
    <3>1. to \in 0 .. Size
      BY <1>2 DEF Between
    <3>2. i \in Positions /\ i \notin from .. x - 1
      BY <1>3, <2>1, <3>1, ConstantsAssumption DEF Positions
    <3> QED  BY <1>4, <3>2
  <2> QED  BY <2>1
<1>7. T = S \ {x}
  <2>1. T = {i \in offset' .. Size - 1 : new[i] = NL}
    BY <1>1 DEF LineEnds
  <2>2. S = {i \in from .. Size - 1 : text[i] = NL}
    BY <1>1 DEF LineEnds
  <2>3. from \in Nat /\ from <= x /\ Size \in Nat
    BY <1>2, <1>3, ConstantsAssumption DEF Between
  <2>4. ASSUME NEW i \in x + 1 .. Size - 1  PROVE new[i] = text[i]
    <3>1. i \in Positions /\ i \notin from .. x - 1
      BY <1>3, <2>3 DEF Positions
    <3> QED  BY <1>4, <3>1
  <2>5. ASSUME NEW i  PROVE i \in T <=> i \in S \ {x}
    <3>1. CASE i \in T
      <4>1. i \in x + 1 .. Size - 1 /\ new[i] = NL
        BY <1>4, <2>1, <3>1
      <4>2. i \in from .. Size - 1 /\ i # x
        BY <1>3, <2>3, <4>1
      <4> QED  BY <2>2, <2>4, <3>1, <4>1, <4>2
    <3>2. CASE i \in S \ {x}
      <4>1. i \in from .. Size - 1 /\ text[i] = NL /\ i # x /\ x <= i
        BY <1>3, <2>2, <3>2
      <4>2. i \in x + 1 .. Size - 1
        BY <1>3, <2>3, <4>1
      <4> QED  BY <1>4, <2>1, <2>4, <3>2, <4>1, <4>2
    <3> QED  BY <3>1, <3>2
  <2> QED  BY <2>5
<1>8. /\ Pieces(text, from, S) # << >>
      /\ Head(Pieces(text, from, S)) = Piece(text, from, x)
      /\ Pieces(new, x + 1, S \ {x}) = Tail(Pieces(text, from, S))
      /\ Rest(new, x + 1, S \ {x}, to) = Rest(text, from, S, to)
  <2>1. x \in S /\ \A y \in S : x <= y
    BY <1>3
  <2> QED  BY ONLY <1>2, <2>1, <1>5, <1>6, PiecesTake
<1>9. MappedIs /\ MappedIs'
  BY MapIs, PTL
<1>10. LinesOf = Pieces(text, from, S) /\ CurrentOf = Rest(text, from, S, to)
  BY <1>1, <1>9 DEF MappedIs
<1>11. LinesOf' = Pieces(new, x + 1, S \ {x})
  BY <1>1, <1>4, <1>7, <1>9 DEF MappedIs
<1>12. CurrentOf' = Rest(new, x + 1, S \ {x}, to)
  BY <1>1, <1>4, <1>7, <1>9 DEF MappedIs
<1> QED  BY <1>4, <1>8, <1>10, <1>11, <1>12

(* Each step of the driver is a step of LineInput or changes nothing that  *)
(* it shows.                                                               *)
LEMMA StepLine ==
  ASSUME ~RubOutLines, BufferInv, LinesAccounted, [Next]_vars
  PROVE  [Lines!Next]_<<LinesOf, CurrentOf, got>>
<1>0. TypeOK
  BY DEF BufferInv
<1>1. CASE UNCHANGED vars
  BY <1>1, MapKept DEF vars
<1>2. ASSUME NEW key \in Keys, KeyChar(key)  PROVE \E c \in Chars : Lines!Type(c)
  <2>1. PICK c : c = CodeMap(key, IF controlValue = 1 THEN 1 ELSE caps)
    OBVIOUS
  <2>2. c \in Chars
    BY <1>0, <2>1, CodeMapTypes DEF TypeOK
  <2>3. Put(c) /\ UNCHANGED <<offset, got>>
    BY <1>2, <2>1 DEF KeyChar
  <2>4. LinesOf' = LinesOf /\ CurrentOf' = Append(CurrentOf, c)
    BY <2>2, <2>3, PutTypes
  <2> QED  BY <2>2, <2>3, <2>4 DEF Lines!Type, LinesOf, CurrentOf
<1>3. CASE KeyShift \/ KeyBeyond
  BY <1>3, MapKept DEF KeyShift, KeyBeyond
<1>4. CASE KeyCtrl
  <2>1. Caret \in Chars
    BY DEF Chars
  <2>2. Put(Caret) /\ UNCHANGED <<offset, got>>
    BY <1>4 DEF KeyCtrl
  <2>3. LinesOf' = LinesOf /\ CurrentOf' = Append(CurrentOf, Caret)
    BY <2>1, <2>2, PutTypes
  <2>4. Lines!Type(Caret)
    BY <2>2, <2>3 DEF Lines!Type, LinesOf, CurrentOf
  <2> QED  BY <2>1, <2>4 DEF Lines!Next
<1>5. CASE KeyBackspace
  <2>1. strOffset - 1 \notin LineEnds
    BY <1>5, EraseStep
  <2>2. /\ LinesOf' = LinesOf /\ CurrentOf # << >>
        /\ CurrentOf' = SubSeq(CurrentOf, 1, Len(CurrentOf) - 1)
    BY <1>5, <2>1, BackspaceTypes
  <2>3. UNCHANGED got
    BY <1>5 DEF KeyBackspace
  <2>4. Lines!Erase
    BY <2>2, <2>3 DEF Lines!Erase, LinesOf, CurrentOf
  <2> QED  BY <2>4 DEF Lines!Next
<1>6. CASE KeyEnter
  <2>1. Put(NL) /\ UNCHANGED <<offset, got>>
    BY <1>6 DEF KeyEnter
  <2>2. LinesOf' = Append(LinesOf, CurrentOf) /\ CurrentOf' = << >>
    BY <2>1, EnterTypes
  <2>3. Lines!Enter
    BY <2>1, <2>2 DEF Lines!Enter, LinesOf, CurrentOf
  <2> QED  BY <2>3 DEF Lines!Next
<1>7. CASE Iteration
  <2>1. UNCHANGED strOffset
    BY <1>7 DEF Iteration
  <2>2. CASE TakeLine
    <3>1. /\ LinesOf # << >> /\ got' = Head(LinesOf)
          /\ LinesOf' = Tail(LinesOf) /\ CurrentOf' = CurrentOf
      BY <2>1, <2>2, TakeTypes
    <3>2. Lines!Read
      BY <3>1 DEF Lines!Read, LinesOf, CurrentOf
    <3> QED  BY <3>2 DEF Lines!Next
  <2>3. CASE MissLine
    <3>1. Cardinality(LineEnds) = 0 /\ Cardinality(LineEnds) = lineCount
      BY <2>3, FS_EmptySet DEF MissLine, LinesAccounted
    <3> QED  BY <2>3, <3>1, LineEndsFinite DEF MissLine
  <2>4. CASE AwaitLine
    BY <2>1, <2>4, MapKept DEF AwaitLine
  <2> QED  BY <1>7, <2>2, <2>3, <2>4 DEF Iteration
<1>8. (\E key \in Keys : KeyChar(key)) => Lines!Next
  BY <1>2 DEF Lines!Next
<1> QED
  BY <1>1, <1>3, <1>4, <1>5, <1>6, <1>7, <1>8 DEF Next, Key, ReadCall, ReadResume

(* The empty buffer shows no line. *)
LEMMA InitLine ==
  ASSUME Init
  PROVE  LinesOf = << >> /\ CurrentOf = << >> /\ got = << >>
<1>1. BufferInv /\ LineEnds = {}
  <2>1. Cardinality(LineEnds) = 0
    BY InitLines DEF Init, LinesAccounted
  <2> QED  BY <2>1, InitBuffer, LineEndsFinite, FS_EmptySet
<1>2. Cardinality(LineEnds) = 0
  BY <1>1, FS_EmptySet
<1>3. Between(LineEnds, offset, strOffset) /\ inpStr \in Buffers
  BY <1>1, BufferBetween
<1>4. PICK f : f = Pieces(inpStr, offset, LineEnds)
  OBVIOUS
<1>5. f \in [1 .. 0 -> Seq(Chars \cup {NL})]
  BY <1>2, <1>3, <1>4, PiecesAre
<1>6. f = << >>
  BY <1>5, SeqIs
<1>7. Rest(inpStr, offset, LineEnds, strOffset) = Piece(inpStr, 0, 0)
  BY <1>2 DEF Init, Rest, Start
<1>8. 0 - 0 = 0 /\ 0 \in 0 .. Size /\ 0 <= 0
  BY ConstantsAssumption
<1>9. Piece(inpStr, 0, 0) = << >>
  <2>1. Piece(inpStr, 0, 0) \in [1 .. 0 - 0 -> Chars \cup {NL}]
    BY <1>3, <1>8, PieceIs
  <2> QED  BY <1>8, <2>1, SeqIs
<1> QED  BY <1>4, <1>6, <1>7, <1>9, MapIs DEF MappedIs, Init

(* As long as the user does not backspace over the end of a line nobody    *)
(* has read, the driver implements LineInput: every line is read once,     *)
(* whole, in the order in which it was entered, and as it was typed.       *)
THEOREM LineInputKept == ~RubOutLines => (Spec => ImplementsLineInput)
<1> SUFFICES ASSUME ~RubOutLines  PROVE Spec => ImplementsLineInput
  OBVIOUS
<1>1. Init => BufferInv /\ LinesAccounted
  BY InitBuffer, InitLines
<1>2. (BufferInv /\ LinesAccounted) /\ [Next]_vars => (BufferInv /\ LinesAccounted)'
  BY StepBuffer, StepAccounted
<1>3. Init => Lines!Init
  BY InitLine DEF Lines!Init, LinesOf, CurrentOf
<1>4. (BufferInv /\ LinesAccounted) /\ [Next]_vars => [Lines!Next]_<<LinesOf, CurrentOf, got>>
  BY StepLine
<1>5. Spec => Lines!Init /\ [][Lines!Next]_<<LinesOf, CurrentOf, got>>
  BY <1>1, <1>2, <1>3, <1>4, PTL DEF Spec
<1> QED  BY <1>5, PTL DEF ImplementsLineInput, Lines!Spec, LinesOf, CurrentOf
=============================================================================
