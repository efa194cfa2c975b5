----------------------------- MODULE MCProcess -----------------------------
(***************************************************************************)
(* Values of the constants of module Process for the model checker.        *)
(***************************************************************************)
EXTENDS Process

\* Two kernel threads and up to three, or two, user tasks.
FiveSlots == 5
FourSlots == 4

\* A second of two ticks: one that counts and one that completes it.
TwoTicks == 2

\* An int from -2 to 1, so that a sleep of 3 is stored as -1.
SmallInt    == 2
ShortSleeps == {1}
LongSleeps  == {1, 3}

\* Nobody is killed, or only tasks that ps lists.
NoKill     == {}
KillListed == {"listed"}

OneLine  == 1
TwoLines == 2
=============================================================================
