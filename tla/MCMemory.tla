------------------------------ MODULE MCMemory -------------------------------
(***************************************************************************)
(* Values of the constants of module Memory for the model checker.         *)
(***************************************************************************)
EXTENDS Memory, TLC

CONSTANTS t1, t2, t3

TwoTasks   == {t1, t2}
ThreeTasks == {t1, t2, t3}

\* A page of the program, a stack that can grow by one page and a heap of
\* up to two pages, with gaps between them.
TwoValues == {"x", "y"}
FiveFrames == 5

TaskSymmetry == Permutations(Tasks)
=============================================================================
