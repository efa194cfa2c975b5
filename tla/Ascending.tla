------------------------------ MODULE Ascending ------------------------------
(***************************************************************************)
(* A finite set of numbers in ascending order: the lines of the keyboard   *)
(* buffer, the files of a directory.                                       *)
(***************************************************************************)
EXTENDS Integers, FiniteSets

(* Its elements up to x. *)
UpTo(S, x) == {y \in S : y <= x}

(* The k-th has k of them up to it. *)
Sorted(S) == [k \in 1 .. Cardinality(S) |->
                CHOOSE x \in S : Cardinality(UpTo(S, x)) = k]
=============================================================================
