----------------------------- MODULE PrivateProofs -----------------------------
(***************************************************************************)
(* Proof that memory shared by fork() and copied on the first write is     *)
(* what module PrivateMemory promises, as long as only the tasks           *)
(* themselves store into their pages: every step of module Memory is a     *)
(* step of PrivateMemory, or changes nothing that a task can see.          *)
(***************************************************************************)
EXTENDS MemoryProofs

(* The refinement mapping of module Memory, by name. *)
Mem == [t \in Tasks |-> [p \in Pages |->
          IF Shares(t, p) THEN content[pte[t][p].frame] ELSE "unmapped"]]
Prog == [t \in Tasks |-> Len(vm[t]) \div Len(ProgramAreas)]

Images == [Pages -> Values \cup {"unmapped"}]

(* The actions of PrivateMemory under the mapping.                         *)
LEMMA PrivateSteps ==
  ASSUME NEW t \in Tasks
  PROVE  /\ \A p \in Pages, v \in Values : Private!Write(t, p, v) <=>
              (/\ Mem[t][p] # "unmapped"
               /\ Mem' = [Mem EXCEPT ![t][p] = v]
               /\ UNCHANGED <<Prog, used>>)
         /\ Private!NewImage(t) <=>
              (/\ used' \in Nat /\ used' > used
               /\ Mem'[t] \in Images
               /\ Mem' = [Mem EXCEPT ![t] = Mem'[t]])
         /\ Private!Extend(t) <=>
              (/\ Prog[t] > 0
               /\ Private!NewImage(t)
               /\ \A p \in Pages : Mem[t][p] # "unmapped" => Mem'[t][p] = Mem[t][p]
               /\ UNCHANGED Prog)
         /\ Private!Exec(t) <=>
              (/\ Prog[t] > 0
               /\ Private!NewImage(t)
               /\ Prog' = [Prog EXCEPT ![t] = Prog[t] + 1])
         /\ \A c \in Tasks : Private!Fork(t, c) <=>
              (/\ Prog[t] > 0 /\ Prog[c] = 0
               /\ Mem' = [Mem EXCEPT ![c] = Mem[t]]
               /\ Prog' = [Prog EXCEPT ![c] = Prog[t]]
               /\ UNCHANGED used)
         /\ Private!Remove(t) <=>
              (/\ Prog[t] > 0
               /\ Mem' = [Mem EXCEPT ![t] = [p \in Pages |-> "unmapped"]]
               /\ Prog' = [Prog EXCEPT ![t] = 0]
               /\ UNCHANGED used)
BY DEF Private!Write, Private!NewImage, Private!Extend, Private!Exec, Private!Fork,
       Private!Remove, Private!Unmapped, Private!Images, Private!Empty,
       Mem, Prog, Images

(* What a task finds in its pages.                                         *)
LEMMA MemImage ==
  ASSUME MemoryInv
  PROVE  /\ Mem \in [Tasks -> Images]
         /\ \A t \in Tasks, p \in Pages :
              /\ pte[t][p].frame \in Nat
              /\ pte[t][p].frame = 0 => Mem[t][p] = "unmapped"
              /\ pte[t][p].frame # 0 =>
                   /\ pte[t][p].frame \in Frames /\ pte[t][p].frame <= used
                   /\ Mem[t][p] = content[pte[t][p].frame]
                   /\ Mem[t][p] \in Values
                   /\ Mem[t][p] # "unmapped"
<1>1. \A t \in Tasks, p \in Pages :
        /\ pte[t][p].frame \in Nat
        /\ pte[t][p].frame # 0 => pte[t][p].frame \in Frames /\ pte[t][p].frame <= used
  BY ConstantsAssumption DEF MemoryInv, EntryInv, EntriesSound, Entries, Frames
<1>2. \A t \in Tasks, p \in Pages :
        Mem[t][p] = IF pte[t][p].frame # 0 THEN content[pte[t][p].frame] ELSE "unmapped"
  BY DEF Mem, Shares
<1>3. \A t \in Tasks, p \in Pages :
        pte[t][p].frame # 0 => content[pte[t][p].frame] \in Values
  BY <1>1 DEF MemoryInv
<1>4. Mem \in [Tasks -> Images]
  BY <1>2, <1>3 DEF Mem, Images, Shares
<1> QED  BY <1>1, <1>2, <1>3, <1>4, ConstantsAssumption

(* The same, after a step.                                                 *)
LEMMA MemImageNext ==
  ASSUME MemoryInv'
  PROVE  /\ Mem' \in [Tasks -> Images]
         /\ \A t \in Tasks, p \in Pages :
              /\ pte'[t][p].frame = 0 => Mem'[t][p] = "unmapped"
              /\ pte'[t][p].frame # 0 => Mem'[t][p] = content'[pte'[t][p].frame]
<1>1. \A t \in Tasks, p \in Pages :
        /\ pte'[t][p].frame \in Nat
        /\ pte'[t][p].frame # 0 => pte'[t][p].frame \in Frames
  BY ConstantsAssumption DEF MemoryInv, EntryInv, EntriesSound, Entries, Frames
<1>2. \A t \in Tasks, p \in Pages :
        Mem'[t][p] = IF pte'[t][p].frame # 0 THEN content'[pte'[t][p].frame] ELSE "unmapped"
  BY DEF Mem, Shares
<1>3. \A t \in Tasks, p \in Pages :
        pte'[t][p].frame # 0 => content'[pte'[t][p].frame] \in Values
  BY <1>1 DEF MemoryInv
<1>4. Mem' \in [Tasks -> Images]
  BY <1>2, <1>3 DEF Mem, Images, Shares
<1> QED  BY <1>2, <1>4

(* A free slot runs no program; a task runs at least one.                  *)
LEMMA ProgCount ==
  ASSUME MemoryInv
  PROVE  /\ Prog \in [Tasks -> Nat]
         /\ \A t \in Tasks : /\ Prog[t] = Len(vm[t]) \div 3
                             /\ life[t] = "ready" => Prog[t] = 0
                             /\ life[t] # "ready" => Prog[t] > 0
<1>1. \A t \in Tasks : Len(vm[t]) \in Nat
  BY DEF MemoryInv, AreaInv
<1>2. Prog = [t \in Tasks |-> Len(vm[t]) \div 3]
  BY ProgramAreasShape DEF Prog
<1>3. \A n \in Nat : n \div 3 \in Nat /\ (n >= 3 => n \div 3 > 0)
  OBVIOUS
<1>4. \A t \in Tasks : life[t] = "ready" => Prog[t] = 0
  <2>1. Len(<<>>) = 0 /\ 0 \div 3 = 0
    OBVIOUS
  <2>2. \A t \in Tasks : life[t] = "ready" => vm[t] = <<>>
    BY DEF MemoryInv, AreaInv, NoMemory
  <2> QED  BY <1>2, <2>1, <2>2
<1>5. \A t \in Tasks : life[t] # "ready" => Prog[t] > 0
  BY <1>1, <1>2, <1>3 DEF MemoryInv, AreaInv, Layout
<1> QED  BY <1>1, <1>2, <1>3, <1>4, <1>5

(* Steps that leave all areas and all slots alone keep the program counts. *)
LEMMA SamePrograms ==
  ASSUME MemoryInv, NEW t \in Tasks, vm' \in [Tasks -> Seq(Areas)],
         \A u \in Tasks : u # t => vm'[u] = vm[u],
         Len(vm'[t]) = Len(vm[t])
  PROVE  UNCHANGED Prog
<1>1. \A u \in Tasks : Len(vm'[u]) = Len(vm[u])
  OBVIOUS
<1> QED  BY <1>1 DEF Prog

(* A task that gets fresh frames, while the frames in use keep what they   *)
(* hold, changes nothing in the pages of the others, nor in those of its   *)
(* own whose entries it keeps.                                             *)
LEMMA FreshIsPrivate ==
  ASSUME MemoryInv, MemoryInv', NEW t \in Tasks, FreshEntries(t), used' > used,
         \A f \in Frames : f <= used => content'[f] = content[f]
  PROVE  /\ Private!NewImage(t)
         /\ \A p \in Pages : pte'[t][p] = pte[t][p] => Mem'[t][p] = Mem[t][p]
<1>1. \A u \in Tasks, p \in Pages : pte'[u][p] = pte[u][p] => Mem'[u][p] = Mem[u][p]
  BY MemImage, MemImageNext
<1>2. \A u \in Tasks : u # t => \A p \in Pages : Mem'[u][p] = Mem[u][p]
  BY <1>1 DEF FreshEntries
<1>3. Mem \in [Tasks -> Images] /\ Mem' \in [Tasks -> Images]
  BY MemImage, MemImageNext
<1>4. \A u \in Tasks : u # t => Mem'[u] = Mem[u]
  BY <1>2, <1>3 DEF Images
<1>5. Mem' = [Mem EXCEPT ![t] = Mem'[t]] /\ Mem'[t] \in Images
  BY <1>3, <1>4
<1>6. used' \in Nat
  BY ConstantsAssumption DEF MemoryInv, EntryInv
<1> QED  BY <1>1, <1>5, <1>6, PrivateSteps

(* A store through a writable entry is seen by nobody else.                *)
LEMMA WriteIsPrivate ==
  ASSUME MemoryInv, MemoryInv', NEW t \in Tasks, NEW a \in Addresses,
         NEW v \in Values, Write(t, a, v)
  PROVE  Private!Write(t, Page(a), v)
<1> DEFINE p == Page(a)
<1> DEFINE f == pte[t][p].frame
<1>1. p \in Pages
  BY PageOfAddress
<1>2. pte[t][p].writable /\ content' = [content EXCEPT ![f] = v] /\ UNCHANGED <<vm, pte, used>>
  BY DEF Write
<1> HIDE DEF p
<1>3. f # 0 /\ f \in Frames
  <2>1. f # 0
    BY <1>1, <1>2 DEF MemoryInv, EntryInv, EntriesSound
  <2> QED  BY <1>1, <2>1, MemImage
<1>4. \A u \in Tasks, q \in Pages : <<u, q>> # <<t, p>> => pte[u][q].frame # f
  BY <1>1, <1>2, <1>3 DEF MemoryInv, EntryInv, SharedReadOnly, Shares
<1> HIDE DEF f
<1>5. Mem[t][p] # "unmapped"
  BY <1>1, <1>3, MemImage DEF f
<1>6. \A g \in Frames : content'[g] = IF g = f THEN v ELSE content[g]
  BY <1>2, <1>3 DEF MemoryInv
<1>7. Mem'[t][p] = v
  BY <1>1, <1>2, <1>3, <1>6, MemImageNext DEF f
<1>8. \A u \in Tasks, q \in Pages : <<u, q>> # <<t, p>> => Mem'[u][q] = Mem[u][q]
  <2> SUFFICES ASSUME NEW u \in Tasks, NEW q \in Pages, <<u, q>> # <<t, p>>
               PROVE  Mem'[u][q] = Mem[u][q]
    OBVIOUS
  <2>1. CASE pte[u][q].frame = 0
    BY <1>2, <2>1, MemImage, MemImageNext
  <2>2. CASE pte[u][q].frame # 0
    BY <1>2, <1>4, <1>6, <2>2, MemImage, MemImageNext
  <2> QED  BY <2>1, <2>2
<1>9. Mem' = [Mem EXCEPT ![t][p] = v]
  <2>1. Mem \in [Tasks -> Images] /\ Mem' \in [Tasks -> Images]
    BY MemImage, MemImageNext
  <2>2. [Mem EXCEPT ![t][p] = v] \in [Tasks -> Images]
    BY <1>1, <2>1 DEF Images
  <2>3. \A u \in Tasks, q \in Pages : Mem'[u][q] = [Mem EXCEPT ![t][p] = v][u][q]
    BY <1>1, <1>7, <1>8, <2>1 DEF Images
  <2>4. \A u \in Tasks : Mem'[u] = [Mem EXCEPT ![t][p] = v][u]
    BY <2>1, <2>2, <2>3 DEF Images
  <2> QED  BY <2>1, <2>2, <2>4
<1>10. UNCHANGED Prog
  BY <1>2 DEF Prog
<1> QED  BY <1>1, <1>2, <1>5, <1>9, <1>10, PrivateSteps DEF p

(* The fault handler adds a page, or copies one before it is written to.   *)
LEMMA FaultIsPrivate ==
  ASSUME MemoryInv, MemoryInv', NEW t \in Tasks, NEW a \in Addresses,
         CopyFault(t, a) \/ GrowFault(t, a)
  PROVE  Private!Extend(t)
<1> DEFINE p == Page(a)
<1>1. p \in Pages
  BY PageOfAddress
<1>2. /\ life[t] = "live" /\ UNCHANGED vm /\ getFreeFrame(1)
      /\ ~pte[t][p].writable
      /\ pte' = [pte EXCEPT ![t][p] = Mapping(used + 1)]
  BY DEF CopyFault, GrowFault, Faults
<1>3. \/ pte[t][p].cow /\ content' = [content EXCEPT ![used + 1] = content[pte[t][p].frame]]
      \/ ~pte[t][p].cow /\ UNCHANGED content
  BY DEF CopyFault, GrowFault, Copied, Copies, Grows
<1> HIDE DEF p
<1>4. FreshEntries(t)
  BY <1>1, <1>2, FaultMaps
<1>5. used \in Nat /\ used' = used + 1 /\ used + 1 \in Frames
  BY <1>2, ConstantsAssumption DEF MemoryInv, EntryInv, getFreeFrame, Frames
<1>6. \A f \in Frames : f <= used => content'[f] = content[f]
  BY <1>3, <1>5 DEF MemoryInv, Frames
<1>7. /\ Private!NewImage(t)
      /\ \A q \in Pages : pte'[t][q] = pte[t][q] => Mem'[t][q] = Mem[t][q]
  BY <1>4, <1>5, <1>6, FreshIsPrivate
<1>8. Mem[t][p] # "unmapped" => Mem'[t][p] = Mem[t][p]
  <2> SUFFICES ASSUME pte[t][p].frame # 0 PROVE Mem'[t][p] = Mem[t][p]
    BY <1>1, MemImage
  <2>1. pte[t][p].cow
    BY <1>1, <1>2 DEF MemoryInv, EntryInv, EntriesSound
  <2>2. content'[used + 1] = content[pte[t][p].frame]
    BY <1>3, <1>5, <2>1 DEF MemoryInv
  <2>3. pte'[t][p].frame = used + 1
    BY <1>1, <1>2 DEF MemoryInv, EntryInv, Mapping
  <2>4. Mem[t][p] = content[pte[t][p].frame]
    BY <1>1, MemImage
  <2>5. Mem'[t][p] = content'[used + 1]
    BY <1>1, <1>5, <2>3, MemImageNext
  <2> QED  BY <2>2, <2>4, <2>5
<1>9. \A q \in Pages : q # p => pte'[t][q] = pte[t][q]
  BY <1>1, <1>2 DEF MemoryInv, EntryInv
<1>10. Prog[t] > 0
  BY <1>2, ProgCount
<1>11. UNCHANGED Prog
  BY <1>2 DEF Prog
<1> QED  BY <1>7, <1>8, <1>9, <1>10, <1>11, PrivateSteps

(* malloc() adds pages where there were none.                              *)
LEMMA MallocIsPrivate ==
  ASSUME MemoryInv, MemoryInv', NEW t \in Tasks, NEW n \in 1 .. MaxMalloc, Malloc(t, n)
  PROVE  Private!Extend(t)
<1>1. n \in Nat /\ n >= 1 /\ used \in Nat
  BY ConstantsAssumption DEF MemoryInv, EntryInv
<1>2. /\ life[t] = "live" /\ UNCHANGED content /\ getFreeFrame(n)
      /\ vm' = [vm EXCEPT ![t] = [vm[t] EXCEPT ![2] =
                  [vm[t][2] EXCEPT !.last = vm[t][2].last + n * PageSize]]]
  BY DEF Malloc
<1>3. PICK m \in HeapBegin .. HeapEnd + 1 : HeapMapped(t, m)
  BY <1>2 DEF MemoryInv, AreaInv, Layout
<1>4. Page(vm[t][2].last) = m
  BY <1>3, ConstantsAssumption DEF HeapMapped, Page, PageSize
<1>5. /\ m + n - 1 <= HeapEnd
      /\ pte' = [pte EXCEPT ![t] = [p \in Pages |->
                   IF p \in m .. m + n - 1 THEN Mapping(used + 1 + p - m) ELSE @[p]]]
  BY <1>4 DEF Malloc
<1>6. FreshEntries(t)
  BY MallocMaps
<1>7. used' > used
  BY <1>1, <1>2 DEF getFreeFrame
<1>8. /\ Private!NewImage(t)
      /\ \A p \in Pages : pte'[t][p] = pte[t][p] => Mem'[t][p] = Mem[t][p]
  BY <1>2, <1>6, <1>7, FreshIsPrivate
<1>9. \A p \in Pages : Mem[t][p] # "unmapped" => pte'[t][p] = pte[t][p]
  <2> SUFFICES ASSUME NEW p \in Pages, pte[t][p].frame # 0
               PROVE  pte'[t][p] = pte[t][p]
    BY MemImage
  <2>1. p \notin m .. m + n - 1
    <3> SUFFICES ASSUME p \in m .. m + n - 1 PROVE FALSE
      OBVIOUS
    <3>1. p \in HeapPages /\ ~(p < m)
      BY <1>1, <1>3, <1>5, ConstantsAssumption DEF HeapPages
    <3> QED  BY <1>3, <3>1 DEF HeapMapped, Shares
  <2> QED  BY <1>5, <2>1 DEF MemoryInv, EntryInv
<1>10. UNCHANGED Prog
  <2>1. vm[t] \in Seq(Areas) /\ vm'[t] \in Seq(Areas)
        /\ vm' \in [Tasks -> Seq(Areas)]
    BY DEF MemoryInv, AreaInv
  <2>2. /\ DOMAIN vm'[t] = DOMAIN vm[t]
        /\ \A u \in Tasks : u # t => vm'[u] = vm[u]
    BY <1>2 DEF MemoryInv, AreaInv
  <2>3. Len(vm'[t]) = Len(vm[t])
    BY <2>1, <2>2, LenProperties
  <2> QED  BY <2>1, <2>2, <2>3, SamePrograms
<1>11. Prog[t] > 0
  BY <1>2, ProgCount
<1> QED  BY <1>8, <1>9, <1>10, <1>11, PrivateSteps

(* execvpe() gives the task a new image, and one more program.             *)
LEMMA ExecIsPrivate ==
  ASSUME MemoryInv, MemoryInv', NEW t \in Tasks, Exec(t)
  PROVE  Private!Exec(t)
<1>1. /\ life[t] = "live" /\ getFreeFrame(2)
      /\ content' = [content EXCEPT ![used + 1] = Program]
      /\ vm' = [vm EXCEPT ![t] = ProgramAreas \o vm[t]]
  BY DEF Exec
<1>2. used \in Nat /\ used' = used + 2 /\ used' > used
  BY <1>1, ConstantsAssumption DEF MemoryInv, EntryInv, getFreeFrame
<1>3. \A f \in Frames : f <= used => content'[f] = content[f]
  BY <1>1, <1>2 DEF MemoryInv, Frames
<1>4. FreshEntries(t)
  BY ExecMaps
<1>5. Private!NewImage(t)
  BY <1>2, <1>3, <1>4, FreshIsPrivate
<1>6. Prog' = [Prog EXCEPT ![t] = Prog[t] + 1]
  <2>1. Len(ProgramAreas \o vm[t]) = 3 + Len(vm[t]) /\ Len(vm[t]) \in Nat
    <3>1. vm[t] \in Seq(Areas) /\ ProgramAreas \in Seq(Areas) /\ Len(ProgramAreas) = 3
      BY ProgramAreasShape DEF MemoryInv, AreaInv
    <3> HIDE DEF ProgramAreas, Areas
    <3>2. Len(ProgramAreas \o vm[t]) = Len(ProgramAreas) + Len(vm[t])
      BY <3>1, ConcatProperties
    <3>3. Len(vm[t]) \in Nat
      BY <3>1, LenProperties
    <3> QED  BY <3>1, <3>2, <3>3
  <2>2. \A k \in Nat : (3 + k) \div 3 = k \div 3 + 1
    OBVIOUS
  <2>3. \A u \in Tasks : Len(vm'[u]) = IF u = t THEN 3 + Len(vm[t]) ELSE Len(vm[u])
    BY <1>1, <2>1 DEF MemoryInv, AreaInv
  <2>4. Prog' = [u \in Tasks |-> Len(vm'[u]) \div 3] /\ Prog = [u \in Tasks |-> Len(vm[u]) \div 3]
    BY ProgramAreasShape DEF Prog
  <2>5. \A u \in Tasks : Prog'[u] = IF u = t THEN Prog[t] + 1 ELSE Prog[u]
    BY <2>1, <2>2, <2>3, <2>4
  <2> QED  BY <2>4, <2>5
<1>7. Prog[t] > 0
  BY <1>1, ProgCount
<1> QED  BY <1>5, <1>6, <1>7, PrivateSteps

(* fork() gives the child what its parent has.                             *)
LEMMA ForkIsPrivate ==
  ASSUME MemoryInv, MemoryInv', NEW t \in Tasks, NEW c \in Tasks, Fork(t, c)
  PROVE  Private!Fork(t, c)
<1>1. /\ life[t] = "live" /\ life[c] = "ready" /\ t # c
      /\ pte' = [pte EXCEPT ![t] = [p \in Pages |-> Shared(pte[t][p])],
                            ![c] = [p \in Pages |-> Shared(pte[t][p])]]
      /\ vm' = [vm EXCEPT ![c] = vm[t]]
      /\ UNCHANGED <<content, used>>
  BY DEF Fork, copyVMA
<1>2. \A e \in Entries : Shared(e).frame = e.frame
  BY DEF Entries, Shared
<1> HIDE DEF Shared
<1>3. \A u \in Tasks, p \in Pages :
        pte'[u][p].frame = IF u = c THEN pte[t][p].frame ELSE pte[u][p].frame
  <2>1. \A u \in Tasks, p \in Pages : pte[u][p] \in Entries
    BY DEF MemoryInv, EntryInv
  <2>2. \A u \in Tasks, p \in Pages :
          pte'[u][p] = IF u \in {t, c} THEN Shared(pte[t][p]) ELSE pte[u][p]
    BY <1>1 DEF MemoryInv, EntryInv
  <2> HIDE DEF Entries
  <2>3. \A u \in Tasks, p \in Pages : Shared(pte[u][p]).frame = pte[u][p].frame
    BY <1>2, <2>1
  <2>4. \A u \in Tasks, p \in Pages :
          pte'[u][p].frame = IF u \in {t, c} THEN pte[t][p].frame ELSE pte[u][p].frame
    BY <2>2, <2>3
  <2> QED  BY <2>4
<1>4. \A u \in Tasks, p \in Pages : Mem'[u][p] = IF u = c THEN Mem[t][p] ELSE Mem[u][p]
  <2> SUFFICES ASSUME NEW u \in Tasks, NEW p \in Pages, NEW w \in Tasks,
                      w = IF u = c THEN t ELSE u
               PROVE  Mem'[u][p] = Mem[w][p]
    OBVIOUS
  <2>1. pte'[u][p].frame = pte[w][p].frame
    BY <1>3
  <2>2. CASE pte[w][p].frame = 0
    BY <2>1, <2>2, MemImage, MemImageNext
  <2>3. CASE pte[w][p].frame # 0
    <3>1. Mem[w][p] = content[pte[w][p].frame]
      BY <2>3, MemImage
    <3>2. Mem'[u][p] = content'[pte'[u][p].frame]
      BY <2>1, <2>3, MemImageNext
    <3> QED  BY <1>1, <2>1, <3>1, <3>2
  <2> QED  BY <2>2, <2>3
<1>5. Mem' = [Mem EXCEPT ![c] = Mem[t]]
  <2>1. Mem \in [Tasks -> Images] /\ Mem' \in [Tasks -> Images]
    BY MemImage, MemImageNext
  <2>2. \A u \in Tasks : Mem'[u] = IF u = c THEN Mem[t] ELSE Mem[u]
    BY <1>4, <2>1 DEF Images
  <2> QED  BY <2>1, <2>2
<1>6. Prog' = [Prog EXCEPT ![c] = Prog[t]]
  <2>1. \A u \in Tasks : Len(vm'[u]) = IF u = c THEN Len(vm[t]) ELSE Len(vm[u])
    BY <1>1 DEF MemoryInv, AreaInv
  <2>2. \A u \in Tasks : Prog'[u] = IF u = c THEN Prog[t] ELSE Prog[u]
    <3>1. \A u \in Tasks : /\ Prog'[u] = Len(vm'[u]) \div 3
                            /\ Prog[u] = Len(vm[u]) \div 3
      BY ProgramAreasShape DEF Prog
    <3> QED  BY <2>1, <3>1
  <2> QED  BY <2>2 DEF Prog
<1>7. Prog[t] > 0 /\ Prog[c] = 0
  BY <1>1, ProgCount
<1> QED  BY <1>1, <1>5, <1>6, <1>7, PrivateSteps

(* removeProcess() takes everything away.                                  *)
LEMMA ReapIsPrivate ==
  ASSUME MemoryInv, MemoryInv', NEW t \in Tasks, Reap(t)
  PROVE  Private!Remove(t)
<1>1. /\ life[t] = "zombie"
      /\ pte' = [pte EXCEPT ![t] = [p \in Pages |-> Absent]]
      /\ vm' = [vm EXCEPT ![t] = <<>>]
      /\ UNCHANGED <<content, used>>
  BY DEF Reap
<1>2. \A u \in Tasks, p \in Pages : Mem'[u][p] = IF u = t THEN "unmapped" ELSE Mem[u][p]
  <2>1. Absent.frame = 0
    BY DEF Absent
  <2> HIDE DEF Absent
  <2>2. \A u \in Tasks, p \in Pages : pte'[u][p] = IF u = t THEN Absent ELSE pte[u][p]
    BY <1>1 DEF MemoryInv, EntryInv
  <2> QED  BY <1>1, <2>1, <2>2, MemImage, MemImageNext
<1>3. Mem' = [Mem EXCEPT ![t] = [p \in Pages |-> "unmapped"]]
  <2>1. Mem \in [Tasks -> Images] /\ Mem' \in [Tasks -> Images]
    BY MemImage, MemImageNext
  <2>2. \A u \in Tasks : Mem'[u] = IF u = t THEN [p \in Pages |-> "unmapped"] ELSE Mem[u]
    BY <1>2, <2>1 DEF Images
  <2> QED  BY <2>1, <2>2
<1>4. Prog' = [Prog EXCEPT ![t] = 0]
  <2>1. Len(<<>>) = 0 /\ 0 \div 3 = 0
    OBVIOUS
  <2>2. \A u \in Tasks : vm'[u] = IF u = t THEN <<>> ELSE vm[u]
    BY <1>1 DEF MemoryInv, AreaInv
  <2>3. Prog' = [u \in Tasks |-> Len(vm'[u]) \div 3] /\ Prog = [u \in Tasks |-> Len(vm[u]) \div 3]
    BY ProgramAreasShape DEF Prog
  <2>4. \A u \in Tasks : Prog'[u] = IF u = t THEN 0 ELSE Prog[u]
    <3> SUFFICES ASSUME NEW u \in Tasks
                 PROVE  Prog'[u] = IF u = t THEN 0 ELSE Prog[u]
      OBVIOUS
    <3>1. Prog'[u] = Len(vm'[u]) \div 3 /\ Prog[u] = Len(vm[u]) \div 3
      BY <2>3
    <3>2. CASE u = t
      <4>1. Len(vm'[u]) = 0
        BY <2>1, <2>2, <3>2
      <4> QED  BY <2>1, <3>1, <3>2, <4>1
    <3>3. CASE u # t
      BY <2>2, <3>1, <3>3
    <3> QED  BY <3>2, <3>3
  <2> QED  BY <2>3, <2>4
<1>5. Prog[t] > 0
  BY <1>1, ProgCount
<1> QED  BY <1>1, <1>3, <1>4, <1>5, PrivateSteps

(* The first process.                                                      *)
LEMMA InitIsPrivate ==
  ASSUME Init
  PROVE  Private!Init
<1>1. MemoryInv
  BY InitMemory
<1>2. PICK t \in Tasks :
        /\ pte = [u \in Tasks |-> [p \in Pages |->
                    IF u = t /\ p = DataPage THEN Mapping(1)
                    ELSE IF u = t /\ p = StackBase THEN Mapping(2) ELSE Absent]]
        /\ vm = [u \in Tasks |-> IF u = t THEN ProgramAreas ELSE <<>>]
        /\ used = 2
  BY DEF Init
<1>3. Mem \in [Tasks -> Images] /\ Mem[t] \in Images
  BY <1>1, MemImage
<1>4. \A u \in Tasks : u # t => Mem[u] = [p \in Pages |-> "unmapped"]
  <2> SUFFICES ASSUME NEW u \in Tasks, u # t
               PROVE  Mem[u] = [p \in Pages |-> "unmapped"]
    OBVIOUS
  <2>1. \A p \in Pages : pte[u][p].frame = 0
    BY <1>2 DEF Absent
  <2>2. \A p \in Pages : Mem[u][p] = "unmapped"
    BY <1>1, <2>1, MemImage
  <2> QED  BY <1>3, <2>2 DEF Images
<1>5. Mem = [u \in Tasks |-> IF u = t THEN Mem[t] ELSE [p \in Pages |-> "unmapped"]]
  BY <1>3, <1>4
<1>6. Prog = [u \in Tasks |-> IF u = t THEN 1 ELSE 0]
  <2>1. Len(<<>>) \div 3 = 0 /\ Len(ProgramAreas) \div 3 = 1
    BY ProgramAreasShape
  <2>2. \A u \in Tasks : Prog[u] = IF u = t THEN 1 ELSE 0
    <3> SUFFICES ASSUME NEW u \in Tasks
                 PROVE  Prog[u] = IF u = t THEN 1 ELSE 0
      OBVIOUS
    <3>1. Prog[u] = Len(vm[u]) \div 3
      BY <1>1, ProgCount
    <3> QED  BY <1>2, <2>1, <3>1
  <2> QED  BY <2>2 DEF Prog
<1> QED  BY <1>2, <1>3, <1>5, <1>6 DEF Private!Init, Private!Images, Private!Empty,
            Private!Unmapped, Images, Mem, Prog

(* Every step, seen through the mapping.                                   *)
LEMMA StepIsPrivate ==
  ASSUME MemoryInv, MemoryInv', ~KernelWrites, [Next]_vars
  PROVE  [Private!Next]_(Private!vars)
<1>1. CASE UNCHANGED <<pte, vm, content, used>>
  BY <1>1 DEF Private!vars, Shares
<1>2. CASE Next
  <2>1. PICK t \in Tasks :
          \/ \E a \in Touched(t) : Access(t, a)
          \/ \E n \in 1 .. MaxMalloc : Malloc(t, n)
          \/ \E c \in Tasks : Fork(t, c)
          \/ Exec(t) \/ Exit(t) \/ OutOfFrames(t) \/ Reap(t)
    BY <1>2 DEF Next
  <2>2. CASE Exit(t) \/ OutOfFrames(t)
    BY <1>1, <2>2 DEF Exit, OutOfFrames
  <2>3. ASSUME NEW a \in Addresses, Access(t, a) PROVE [Private!Next]_(Private!vars)
    <3>1. Page(a) \in Pages
      BY PageOfAddress
    <3>2. CASE CopyFault(t, a) \/ GrowFault(t, a)
      BY <3>2, FaultIsPrivate DEF Private!Next
    <3>3. CASE \E v \in Values : Write(t, a, v)
      BY <3>1, <3>3, WriteIsPrivate DEF Private!Next
    <3>4. CASE Segv(t, a)
      BY <1>1, <3>4 DEF Segv, Exit
    <3> QED  BY <2>3, <3>2, <3>3, <3>4 DEF Access, KernelWrite
  <2>4. CASE \E n \in 1 .. MaxMalloc : Malloc(t, n)
    BY <2>4, MallocIsPrivate DEF Private!Next
  <2>5. CASE \E c \in Tasks : Fork(t, c)
    BY <2>5, ForkIsPrivate DEF Private!Next
  <2>6. CASE Exec(t)
    BY <2>6, ExecIsPrivate DEF Private!Next
  <2>7. CASE Reap(t)
    BY <2>7, ReapIsPrivate DEF Private!Next
  <2>8. Touched(t) \subseteq Addresses
    BY DEF Touched
  <2> QED  BY <2>1, <2>2, <2>3, <2>4, <2>5, <2>6, <2>7, <2>8
<1> QED  BY <1>1, <1>2 DEF vars

(* fork() that shares pages and copies them on the first write cannot be   *)
(* told from a fork() that copies all pages, unless the kernel itself      *)
(* stores into a task's pages.                                             *)
THEOREM CopyOnWriteInvisible == ~KernelWrites => (Spec => ImplementsPrivateMemory)
<1> SUFFICES ASSUME ~KernelWrites PROVE Spec => Private!Spec
  BY DEF ImplementsPrivateMemory
<1>1. Init => Private!Init
  BY InitIsPrivate
<1>2. MemoryInv /\ MemoryInv' /\ [Next]_vars => [Private!Next]_(Private!vars)
  BY StepIsPrivate
<1> QED  BY <1>1, <1>2, MemoryCorrect, PTL DEF Spec, Private!Spec
=============================================================================
