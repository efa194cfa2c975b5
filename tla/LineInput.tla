------------------------------ MODULE LineInput ------------------------------
(***************************************************************************)
(* What read(stdin) promises: characters collect in a line that can still  *)
(* be edited, Enter completes it, and complete lines are read in the order *)
(* in which they were entered, each exactly once and unchanged.  Module    *)
(* Keyboard shows how far sys/keyboard.c keeps this promise.               *)
(***************************************************************************)
EXTENDS Integers, Sequences

CONSTANT Chars          \* what a key can put into a line

VARIABLES
  lines,      \* complete lines that nobody has read
  current,    \* the line that is being typed
  got         \* the line that was read last

Init == lines = <<>> /\ current = <<>> /\ got = <<>>

Type(c) == current' = Append(current, c) /\ UNCHANGED <<lines, got>>

Erase ==
  /\ current # <<>>
  /\ current' = SubSeq(current, 1, Len(current) - 1)
  /\ UNCHANGED <<lines, got>>

Enter ==
  /\ lines' = Append(lines, current)
  /\ current' = <<>>
  /\ UNCHANGED got

Read ==
  /\ lines # <<>>
  /\ got' = Head(lines)
  /\ lines' = Tail(lines)
  /\ UNCHANGED current

Next == (\E c \in Chars : Type(c)) \/ Erase \/ Enter \/ Read

Spec == Init /\ [][Next]_<<lines, current, got>>
=============================================================================
