----------------------------- MODULE MCKeyboard -----------------------------
(***************************************************************************)
(* Values of the constants of module Keyboard for the model checker.       *)
(***************************************************************************)
EXTENDS Keyboard

\* Room for two short lines and the beginning of a third.
FiveBytes == 5

\* As many lines as the buffer can hold without rubbing out.
FiveLines == 5

AllKeys == {"letter", "blank"}
=============================================================================
