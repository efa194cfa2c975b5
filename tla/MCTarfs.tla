------------------------------- MODULE MCTarfs -------------------------------
(***************************************************************************)
(* Values of the constants of module Tarfs for the model checker: an       *)
(* archive like the one of the Makefile with the shell, a command and a    *)
(* library, and the slots of the shell and of the commands it runs.        *)
(***************************************************************************)
EXTENDS Tarfs

File(dir, name) == [parts |-> <<dir, name>>, slash |-> FALSE]

SmallArchive == <<Dir(<<"bin">>), File("bin", "ls"), File("bin", "sbush"),
                  Dir(<<"lib">>), File("lib", "libc")>>

TwoSlots == {2, 3}

\* The shell in slot 2 opens nothing; a command, two at a time.
ShellAndCommand == [t \in TwoSlots |-> IF t = 2 THEN 0 ELSE 2]

Path(abs, parts, slash) == [abs |-> abs, parts |-> parts, slash |-> slash]

\* "bin", "ls", "..", "../", "/"
SomePaths == {Path(FALSE, <<"bin">>, FALSE), Path(FALSE, <<"ls">>, FALSE),
              Path(FALSE, <<"..">>, FALSE), Path(FALSE, <<"..">>, TRUE),
              Path(TRUE, <<>>, TRUE)}

\* "ls", "./ls", "./libc", "zz"
SomeCommands == {[here |-> FALSE, name |-> "ls"], [here |-> TRUE, name |-> "ls"],
                 [here |-> TRUE, name |-> "libc"], [here |-> FALSE, name |-> "zz"]}

\* What the rest of a behaviour depends on: descriptors that no program
\* knows of, and the directory of a slot without a task, are never read.
Known == <<alive, [t \in alive |-> curr_dir[t]], fd_c, mine, overrun,
           [t \in alive |-> [f \in DOMAIN mine[t] |-> fd[t][f]]]>>
=============================================================================
