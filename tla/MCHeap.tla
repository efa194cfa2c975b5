------------------------------- MODULE MCHeap -------------------------------
(***************************************************************************)
(* Values of the constants of module Heap for the model checker: units of  *)
(* 16 bytes, pages of two units, morecore() asks for at least a page and a *)
(* half.                                                                   *)
(***************************************************************************)
EXTENDS Heap

\* One unit below HeapBegin is not the program's.
BeginAt == 2

\* Room for three calls of sbrk(), and some more.
EndAt == 16

\* A header alone, a byte, a byte more than two units (more than NALLOC).
SomeRequests == {0, 1, 33}
=============================================================================
