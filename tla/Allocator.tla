------------------------------ MODULE Allocator ------------------------------
(***************************************************************************)
(* What malloc() and free() promise: a block is as long as was asked for   *)
(* and lies, with its header in the unit before it, in memory that the     *)
(* program has; it shares no unit with any other block the program holds;  *)
(* and the memory the program has never shrinks.                           *)
(* Module Heap shows that the free list of libc/util_sys.c keeps this.     *)
(***************************************************************************)
EXTENDS Integers

CONSTANTS
  Requests,      \* sizes in bytes a program asks for
  UnitBytes      \* bytes of a unit, the size of a Header

VARIABLES
  mapped,        \* the units the program may touch
  held           \* the blocks it holds: first unit -> bytes it asked for

Without(f, a) == [x \in DOMAIN f \ {a} |-> f[x]]
Units(n)      == (n + UnitBytes - 1) \div UnitBytes
Block(a, n)   == a - 1 .. a + Units(n) - 1

Init == held = << >>

Grow == mapped \subseteq mapped'

Malloc == \E n \in Requests : \E a \in DOMAIN held' \ DOMAIN held :
  /\ Block(a, n) \subseteq mapped'
  /\ \A b \in DOMAIN held : Block(a, n) \cap Block(b, held[b]) = {}
  /\ held' = [b \in DOMAIN held \cup {a} |-> IF b = a THEN n ELSE held[b]]

Free == \E a \in DOMAIN held : held' = Without(held, a)

Next == Grow /\ (Malloc \/ Free)

Spec == Init /\ [][Next]_<<mapped, held>>
=============================================================================
