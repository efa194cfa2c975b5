------------------------------- MODULE Memory --------------------------------
(***************************************************************************)
(* User memory of lateOS: physical frames (the free list and copytables()  *)
(* of sys/paging.c), the page tables and memory areas of every task        *)
(* (fork(), execvpe(), malloc(), exit(), removeProcess() of sys/process.c) *)
(* and the page fault handler isr14() of sys/idt.c with its three answers: *)
(* copy a shared page, grow the stack, or end the task.                    *)
(*                                                                         *)
(* The kernel is not interrupted, so every system call and every fault is  *)
(* one step.  Scheduling is module Process; here any live task may go on.  *)
(* An address is a number, PageSize addresses to a page: enough to tell an *)
(* area's first byte from the others.  Frames that hold page tables and    *)
(* the kernel's own lists are not counted.                                 *)
(***************************************************************************)
EXTENDS Integers, Sequences, FiniteSetsExt

CONSTANTS
  Tasks,                  \* slots of the task table
  NumFrames,              \* frames on the free list
  Values,                 \* what a page can hold
  Unused,                 \* what the frames on the free list hold
  Program,                \* what a program file puts into its segment
  DataPage,               \* the segment of the program file
  StackLimit, StackBase,  \* lowest and highest page of the stack
  HeapBegin, HeapEnd,     \* first page of the heap; HeapEnd is a bound
  MaxMalloc,              \* bound on the pages of one malloc()
  MaxPrograms,            \* bound on execvpe() in a task and its ancestors
  MaxReferences,          \* bound on ref_count, which is never decremented
  TouchEdges,             \* whether tasks use the first byte of an area
  KernelWrites            \* whether read() stores into shared pages

PageSize == 2

ASSUME ConstantsAssumption ==
  /\ IsFiniteSet(Tasks)
  /\ NumFrames \in Nat /\ NumFrames >= 2
  /\ "unmapped" \notin Values
  /\ Unused \in Values /\ Program \in Values
  /\ {DataPage, StackLimit, StackBase, HeapBegin, HeapEnd} \subseteq Nat
  /\ DataPage < StackLimit /\ StackLimit < StackBase
  /\ StackBase < HeapBegin /\ HeapBegin <= HeapEnd
  /\ MaxMalloc \in Nat /\ MaxPrograms \in Nat /\ MaxReferences \in Nat
  /\ TouchEdges \in BOOLEAN /\ KernelWrites \in BOOLEAN

Pages  == {DataPage} \cup StackLimit .. StackBase \cup HeapBegin .. HeapEnd
Frames == 1 .. NumFrames

Page(a)      == a \div PageSize
FirstByte(p) == p * PageSize
Addresses    == UNION {FirstByte(p) .. FirstByte(p + 1) - 1 : p \in Pages}

(* The bits of a page table entry that matter; frame 0 is "not present". *)
(* cow is bit 9, which the hardware leaves to the kernel.                *)
Entries == [frame : 0 .. NumFrames, writable : BOOLEAN, cow : BOOLEAN]
Absent  == [frame |-> 0, writable |-> FALSE, cow |-> FALSE]

(* What initTaskPagetables() writes: present, writable, user. *)
Mapping(f) == [frame |-> f, writable |-> TRUE, cow |-> FALSE]

Area(begin, last) == [begin |-> begin, last |-> last]
Limits == 0 .. FirstByte(HeapEnd + 1)

VARIABLES
  life,       \* "ready" (a free slot), "live" or "zombie"
  pte,        \* pte[t][p]: the page table entry of page p of task t
  vm,         \* the list of memory areas of a task, its head first
  content,    \* what a frame holds
  ref_count,  \* pagelist[f].ref_count
  used        \* frames taken off the free list; they come off in order

vars == <<life, pte, vm, content, ref_count, used>>

-----------------------------------------------------------------------------
(* Frames *)

Shares(t, p) == pte[t][p].frame # 0

(* Seeded fault: the end of the list is not noticed. *)
getFreeFrameUnchecked(n) ==
  /\ used' = used + n
  /\ ref_count' = [f \in Frames |-> IF f \in used + 1 .. used + n THEN 1 ELSE ref_count[f]]

(* getFreeFrame(), n times; nothing clears a frame. *)
getFreeFrame(n) ==
  /\ used + n <= NumFrames
  /\ used' = used + n
  /\ ref_count' = [f \in Frames |-> IF f \in used + 1 .. used + n THEN 1 ELSE ref_count[f]]

(* Memory areas *)

(* The areas execvpe() and createNewTask() push in front of the list. *)
ProgramAreas ==
  << Area(FirstByte(StackBase), FirstByte(StackLimit)),
     Area(FirstByte(HeapBegin), FirstByte(HeapBegin)),
     Area(FirstByte(DataPage), FirstByte(DataPage + 1)) >>

checkForVM(areas, a) ==
  \E i \in DOMAIN areas : areas[i].begin < a /\ a < areas[i].last

(* Seeded fault: the base page of the stack is forgotten. *)
checkValidBelowBase(t, a) ==
  \/ a < vm[t][1].begin /\ vm[t][1].last < a
  \/ checkForVM(vm[t], a)

(* The head of the list grows downwards, from its begin to its last. *)
checkValid(t, a) ==
  \/ a < vm[t][1].begin + PageSize /\ vm[t][1].last < a
  \/ checkForVM(vm[t], a)

StackGrows(t, a) == vm[t][1].last < a /\ a < vm[t][1].begin

(* The answers of isr14(). *)
Copies(t, a) == checkValid(t, a) /\ pte[t][Page(a)].cow
Grows(t, a)  == checkValid(t, a) /\ ~pte[t][Page(a)].cow /\ StackGrows(t, a)

(* Addresses the tasks use: with or without the boundaries of areas. *)
Edges(t)   == UNION {{vm[t][i].begin, vm[t][i].last} : i \in DOMAIN vm[t]}
Touched(t) == IF TouchEdges THEN Addresses ELSE Addresses \ Edges(t)

-----------------------------------------------------------------------------
(* The first task, as createNewTask() leaves it: one data page and the     *)
(* base page of the stack.                                                 *)
Init == \E t \in Tasks :
  /\ life = [u \in Tasks |-> IF u = t THEN "live" ELSE "ready"]
  /\ pte = [u \in Tasks |-> [p \in Pages |->
              IF u = t /\ p = DataPage THEN Mapping(1)
              ELSE IF u = t /\ p = StackBase THEN Mapping(2) ELSE Absent]]
  /\ vm = [u \in Tasks |-> IF u = t THEN ProgramAreas ELSE <<>>]
  /\ content = [f \in Frames |-> IF f = 1 THEN Program ELSE Unused]
  /\ ref_count = [f \in Frames |-> IF f <= 2 THEN 1 ELSE 0]
  /\ used = 2

-----------------------------------------------------------------------------
(* Accesses of a task in ring 3 *)

(* A store through a writable entry does not fault. *)
Write(t, a, v) ==
  /\ life[t] = "live"
  /\ pte[t][Page(a)].writable
  /\ content' = [content EXCEPT ![pte[t][Page(a)].frame] = v]
  /\ UNCHANGED <<life, pte, vm, ref_count, used>>

(* A load or store that faults: no entry, or a store to a read-only page.  *)
Faults(t, a) == life[t] = "live" /\ ~pte[t][Page(a)].writable

(* Seeded fault: the new frame is mapped without copying the old one. *)
NotCopied(t, a) == UNCHANGED content

Copied(t, a) ==
  content' = [content EXCEPT ![used + 1] = content[pte[t][Page(a)].frame]]

(* copyNewMemory(): the frame that was shared keeps its ref_count. *)
CopyFault(t, a) ==
  /\ Faults(t, a) /\ Copies(t, a)
  /\ getFreeFrame(1)
  /\ Copied(t, a)
  /\ pte' = [pte EXCEPT ![t][Page(a)] = Mapping(used + 1)]
  /\ UNCHANGED <<life, vm>>

(* copyFromPML4() *)
GrowFault(t, a) ==
  /\ Faults(t, a) /\ Grows(t, a)
  /\ getFreeFrame(1)
  /\ pte' = [pte EXCEPT ![t][Page(a)] = Mapping(used + 1)]
  /\ UNCHANGED <<life, vm, content>>

(* exit(), as far as memory is concerned; the pages stay until Reap. *)
Exit(t) ==
  /\ life[t] = "live"
  /\ life' = [life EXCEPT ![t] = "zombie"]
  /\ UNCHANGED <<pte, vm, content, ref_count, used>>

(* No area, or nothing to do for the page: "Segmentation Fault". *)
Segv(t, a) ==
  /\ Faults(t, a) /\ ~Copies(t, a) /\ ~Grows(t, a)
  /\ Exit(t)

(* getFreeFrame() on an empty list dereferences NULL: the fault in the     *)
(* kernel ends the task that made the call, whatever it had done already.  *)
OutOfFrames(t) == used = NumFrames /\ Exit(t)

-----------------------------------------------------------------------------
(* System calls *)

(* read() stores into the caller's buffer in ring 0.  Nothing ever sets    *)
(* CR0.WP, so the processor does not look at the writable bit.             *)
KernelWrite(t, a, v) ==
  /\ KernelWrites
  /\ life[t] = "live"
  /\ Shares(t, Page(a)) /\ ~pte[t][Page(a)].writable
  /\ content' = [content EXCEPT ![pte[t][Page(a)].frame] = v]
  /\ UNCHANGED <<life, pte, vm, ref_count, used>>

(* malloc(): n pages at the end of the second area. *)
Malloc(t, n) ==
  /\ life[t] = "live"
  /\ LET first == Page(vm[t][2].last)
     IN  /\ first + n - 1 <= HeapEnd
         /\ getFreeFrame(n)
         /\ pte' = [pte EXCEPT ![t] = [p \in Pages |->
                      IF p \in first .. first + n - 1
                      THEN Mapping(used + 1 + p - first) ELSE @[p]]]
  /\ vm' = [vm EXCEPT ![t][2].last = @ + n * PageSize]
  /\ UNCHANGED <<life, content>>

(* Seeded fault: the parent goes on with writable pages. *)
SharedByChild(entry) ==
  IF entry.frame = 0 THEN entry ELSE [entry EXCEPT !.cow = TRUE]

(* copytables() on one entry. *)
Shared(entry) ==
  IF entry.frame = 0 THEN entry
  ELSE [entry EXCEPT !.writable = FALSE, !.cow = TRUE]

(* Seeded fault: the references of the child are not counted. *)
NoReference(f, t) == ref_count[f]

(* One more reference for every entry of t that maps f. *)
Referenced(f, t) ==
  ref_count[f] + Cardinality({p \in Pages : pte[t][p].frame = f})

(* Seeded fault: each area is put in front of the ones copied before. *)
copyVMAReversed(areas) == [i \in DOMAIN areas |-> areas[Len(areas) + 1 - i]]

copyVMA(areas) == areas

(* fork(): both tasks share all pages, read-only. *)
Fork(t, c) ==
  /\ life[t] = "live" /\ life[c] = "ready"
  /\ LET shared == [p \in Pages |-> Shared(pte[t][p])]
     IN  pte' = [pte EXCEPT ![t] = shared, ![c] = shared]
  /\ vm' = [vm EXCEPT ![c] = copyVMA(vm[t])]
  /\ ref_count' = [f \in Frames |-> Referenced(f, t)]
  /\ \A f \in Frames : ref_count'[f] <= MaxReferences
  /\ life' = [life EXCEPT ![c] = "live"]
  /\ UNCHANGED <<content, used>>

(* execvpe(): new pages; the new areas go in front of the old ones, which  *)
(* stay on the list.                                                       *)
Exec(t) ==
  /\ life[t] = "live"
  /\ Len(vm[t]) < MaxPrograms * Len(ProgramAreas)
  /\ getFreeFrame(2)
  /\ content' = [content EXCEPT ![used + 1] = Program]
  /\ pte' = [pte EXCEPT ![t] = [p \in Pages |->
               IF p = DataPage THEN Mapping(used + 1)
               ELSE IF p = StackBase THEN Mapping(used + 2) ELSE Absent]]
  /\ vm' = [vm EXCEPT ![t] = ProgramAreas \o @]
  /\ UNCHANGED life

(* removeProcess(): the entries are zeroed.  free() of the frames does     *)
(* nothing; the slot's list is not used again before copyVMA().            *)
Reap(t) ==
  /\ life[t] = "zombie"
  /\ life' = [life EXCEPT ![t] = "ready"]
  /\ pte' = [pte EXCEPT ![t] = [p \in Pages |-> Absent]]
  /\ vm' = [vm EXCEPT ![t] = <<>>]
  /\ UNCHANGED <<content, ref_count, used>>

-----------------------------------------------------------------------------
Access(t, a) ==
  \/ \E v \in Values : Write(t, a, v) \/ KernelWrite(t, a, v)
  \/ CopyFault(t, a) \/ GrowFault(t, a) \/ Segv(t, a)

Next == \E t \in Tasks :
  \/ \E a \in Touched(t) : Access(t, a)
  \/ \E n \in 1 .. MaxMalloc : Malloc(t, n)
  \/ \E c \in Tasks : Fork(t, c)
  \/ Exec(t) \/ Exit(t) \/ OutOfFrames(t) \/ Reap(t)

Spec == Init /\ [][Next]_vars

-----------------------------------------------------------------------------
(* Properties *)

(* Type correctness; frame 0 is nobody's frame, and the parts of a page    *)
(* table entry are those of a mapping or of an empty entry.                *)
TypeOK ==
  /\ life \in [Tasks -> {"ready", "live", "zombie"}]
  /\ pte \in [Tasks -> [Pages -> Entries]]
  /\ vm \in [Tasks -> Seq([begin : Limits, last : Limits])]
  /\ content \in [Frames -> Values]
  /\ ref_count \in [Frames -> Nat]
  /\ used \in 2 .. NumFrames

(* A frame that two entries map is written through neither of them, and    *)
(* both will be copied: fork() leaves no way to write what is shared.      *)
SharedReadOnly ==
  \A t, u \in Tasks : \A p, q \in Pages :
     (<<t, p>> # <<u, q>> /\ Shares(t, p) /\ pte[t][p].frame = pte[u][q].frame)
       => ~pte[t][p].writable /\ pte[t][p].cow

(* The page descriptors never claim fewer references than the page tables  *)
(* hold, and no mapped frame is still on the free list: a free() that      *)
(* believed ref_count would not give away a page in use.                   *)
RefCountCovers ==
  \A f \in Frames :
     LET mappings == {m \in Tasks \X Pages : pte[m[1]][m[2]].frame = f}
     IN  /\ Cardinality(mappings) <= ref_count[f]
         /\ mappings # {} => f <= used

(* isr14() takes the head of the list for the stack and malloc() the       *)
(* second area for the heap: after any fork() and execvpe() they are, and  *)
(* the heap's mapped pages are exactly those below its last address.       *)
StackThenHeap ==
  \A t \in Tasks : life[t] = "live" =>
     /\ vm[t][1] = ProgramAreas[1]
     /\ vm[t][2].begin = FirstByte(HeapBegin)
     /\ \A p \in HeapBegin .. HeapEnd : Shares(t, p) <=> p < Page(vm[t][2].last)

(* A task is not killed for using a page it has: what a fork() made        *)
(* read-only, the fault handler makes writable again.                      *)
OwnMemoryUsable ==
  \A t \in Tasks : \A a \in Addresses :
     (life[t] = "live" /\ a \in Touched(t) /\ Shares(t, Page(a)))
       => pte[t][Page(a)].writable \/ Copies(t, a)

Private == INSTANCE PrivateMemory WITH
  mem <- [t \in Tasks |-> [p \in Pages |->
            IF Shares(t, p) THEN content[pte[t][p].frame] ELSE "unmapped"]],
  program <- [t \in Tasks |-> Len(vm[t]) \div Len(ProgramAreas)],
  taken <- used

(* Copy-on-write is invisible: what the tasks find in their pages is what  *)
(* they would find if fork() had copied every page.                        *)
ImplementsPrivateMemory == Private!Spec
=============================================================================
