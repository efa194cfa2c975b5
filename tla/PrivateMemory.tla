---------------------------- MODULE PrivateMemory ----------------------------
(***************************************************************************)
(* What fork() promises about memory: every process has pages of its own.  *)
(* A child starts with a copy of its parent's pages, and from then on no   *)
(* process sees what another one writes, or loses what it wrote itself.    *)
(* Module Memory shows how far copying on the first write keeps this.      *)
(***************************************************************************)
EXTENDS Naturals

CONSTANTS Tasks, Pages, Values

Unmapped == "unmapped"     \* a page the process does not have

VARIABLES
  mem,       \* mem[t][p]: what page p of task t holds
  program,   \* the number of programs task t has executed, 0: no process
  taken      \* the memory handed out so far

vars == <<mem, program, taken>>

Images == [Pages -> Values \cup {Unmapped}]
Empty  == [p \in Pages |-> Unmapped]

(* One process, created by the kernel, with any pages. *)
Init == \E t \in Tasks : \E image \in Images :
  /\ mem = [u \in Tasks |-> IF u = t THEN image ELSE Empty]
  /\ program = [u \in Tasks |-> IF u = t THEN 1 ELSE 0]
  /\ taken \in Nat

Write(t, p, v) ==
  /\ mem[t][p] # Unmapped
  /\ mem' = [mem EXCEPT ![t][p] = v]
  /\ UNCHANGED <<program, taken>>

(* Any new pages for t, and for nobody else, out of fresh memory. *)
NewImage(t) ==
  /\ taken' \in Nat /\ taken' > taken
  /\ mem'[t] \in Images
  /\ mem' = [mem EXCEPT ![t] = mem'[t]]

(* malloc() and page faults take memory.  They may add pages, and they     *)
(* change nothing in the pages that are there.                             *)
Extend(t) ==
  /\ program[t] > 0
  /\ NewImage(t)
  /\ \A p \in Pages : mem[t][p] # Unmapped => mem'[t][p] = mem[t][p]
  /\ UNCHANGED program

Exec(t) ==
  /\ program[t] > 0
  /\ NewImage(t)
  /\ program' = [program EXCEPT ![t] = @ + 1]

Fork(t, c) ==
  /\ program[t] > 0 /\ program[c] = 0
  /\ mem' = [mem EXCEPT ![c] = mem[t]]
  /\ program' = [program EXCEPT ![c] = program[t]]
  /\ UNCHANGED taken

Remove(t) ==
  /\ program[t] > 0
  /\ mem' = [mem EXCEPT ![t] = Empty]
  /\ program' = [program EXCEPT ![t] = 0]
  /\ UNCHANGED taken

Next == \E t \in Tasks :
  \/ \E p \in Pages, v \in Values : Write(t, p, v)
  \/ Extend(t) \/ Exec(t) \/ Remove(t)
  \/ \E c \in Tasks : Fork(t, c)

Spec == Init /\ [][Next]_vars
=============================================================================
