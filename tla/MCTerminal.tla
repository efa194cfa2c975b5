----------------------------- MODULE MCTerminal -----------------------------
(***************************************************************************)
(* Values of the constants of module Terminal for the model checker.       *)
(***************************************************************************)
EXTENDS Terminal

\* Room for a short line and the beginning of a second one.
FourBytes == 4
FourLines == 4
Letters   == {"letter"}

\* Two columns and three rows: the screen wraps at the second character and
\* scrolls at the second newline.
TwoColumns == 2
TwoHigh    == 2

\* A prompt, and a line of output.
ShellOutputs == {<<"out">>, <<"out", NL>>}
=============================================================================
