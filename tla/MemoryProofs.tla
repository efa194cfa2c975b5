----------------------------- MODULE MemoryProofs -----------------------------
(***************************************************************************)
(* Proofs about module Memory, for every number of tasks, frames and pages *)
(* and every layout of a program: what copy-on-write keeps true of the     *)
(* page tables, of the areas, and of what the tasks find in their pages.   *)
(***************************************************************************)
EXTENDS Memory, FiniteSetTheorems, SequenceTheorems, TLAPS

-----------------------------------------------------------------------------
(* Addresses and areas *)

(* Every address is in a page of the model, behind its first byte or at it.*)
LEMMA PageOfAddress ==
  ASSUME NEW a \in Addresses
  PROVE  /\ a \in Nat /\ Page(a) \in Pages
         /\ FirstByte(Page(a)) <= a /\ a <= FirstByte(Page(a)) + 1
<1>1. PICK p \in Pages : a \in FirstByte(p) .. FirstByte(p + 1) - 1
  BY DEF Addresses
<1>2. p \in Nat
  BY <1>1, ConstantsAssumption DEF Pages
<1>3. a \in Nat /\ 2 * p <= a /\ a <= 2 * p + 1
  BY <1>1, <1>2 DEF FirstByte, PageSize
<1>4. a \div 2 = p
  BY <1>2, <1>3
<1> QED  BY <1>1, <1>2, <1>3, <1>4 DEF Page, FirstByte, PageSize

Areas == [begin : Limits, last : Limits]

(* The three areas of a program, in the order in which they are listed.    *)
LEMMA ProgramAreasShape ==
  /\ ProgramAreas \in Seq(Areas) /\ Len(ProgramAreas) = 3
  /\ ProgramAreas[1] = Area(2 * StackBase, 2 * StackLimit)
  /\ ProgramAreas[2] = Area(2 * HeapBegin, 2 * HeapBegin)
  /\ ProgramAreas[3] = Area(2 * DataPage, 2 * DataPage + 2)
<1>1. /\ 2 * StackBase \in Limits /\ 2 * StackLimit \in Limits
      /\ 2 * HeapBegin \in Limits
      /\ 2 * DataPage \in Limits /\ 2 * DataPage + 2 \in Limits
  BY ConstantsAssumption DEF Limits, FirstByte, PageSize
<1>2. ProgramAreas = << Area(2 * StackBase, 2 * StackLimit),
                        Area(2 * HeapBegin, 2 * HeapBegin),
                        Area(2 * DataPage, 2 * DataPage + 2) >>
  <2>1. FirstByte(DataPage + 1) = 2 * DataPage + 2
    BY ConstantsAssumption DEF FirstByte, PageSize
  <2>2. \A n \in Nat : FirstByte(n) = 2 * n
    BY DEF FirstByte, PageSize
  <2> QED  BY <2>1, <2>2, ConstantsAssumption DEF ProgramAreas
<1>3. \A x \in Limits, y \in Limits : Area(x, y) \in Areas
  BY DEF Area, Areas
<1> QED  BY <1>1, <1>2, <1>3

-----------------------------------------------------------------------------
(* The page table entries *)

(* Mapped frames are off the free list; an entry is empty, or writable, or *)
(* will be copied when it is written to.                                   *)
EntriesSound ==
  \A t \in Tasks : \A p \in Pages :
     LET e == pte[t][p]
     IN  /\ e.frame <= used
         /\ e.frame = 0 => ~e.writable /\ ~e.cow
         /\ e.frame # 0 => (e.cow <=> ~e.writable)

EntryInv ==
  /\ pte \in [Tasks -> [Pages -> Entries]]
  /\ used \in 2 .. NumFrames
  /\ EntriesSound
  /\ SharedReadOnly

(* Steps that leave the page tables alone. *)
LEMMA EntriesUntouched ==
  ASSUME EntryInv, UNCHANGED <<pte, used>>
  PROVE  EntryInv'
BY DEF EntryInv, EntriesSound, SharedReadOnly, Shares

(* Task t gets new entries in some pages: each maps a frame of its own     *)
(* that comes fresh from the free list, or nothing.                        *)
FreshEntries(t) ==
  /\ pte' \in [Tasks -> [Pages -> Entries]]
  /\ used' \in used .. NumFrames
  /\ \A u \in Tasks : u # t => pte'[u] = pte[u]
  /\ \A p \in Pages :
        \/ pte'[t][p] = pte[t][p]
        \/ pte'[t][p] = Absent
        \/ /\ pte'[t][p].frame \in used + 1 .. used'
           /\ pte'[t][p] = Mapping(pte'[t][p].frame)
           /\ \A q \in Pages : pte'[t][q].frame = pte'[t][p].frame => q = p

(* Fresh frames are shared with nobody: faults, malloc() and execvpe() map *)
(* nothing else.                                                           *)
LEMMA FreshKeepsEntries ==
  ASSUME EntryInv, NEW t \in Tasks, FreshEntries(t)
  PROVE  EntryInv'
<1>1. /\ used \in Nat /\ used' \in Nat /\ used <= used' /\ used >= 2
      /\ used' \in 2 .. NumFrames
  BY ConstantsAssumption DEF EntryInv, FreshEntries
<1>2. /\ \A u \in Tasks, p \in Pages : pte[u][p].frame \in Nat
      /\ \A u \in Tasks, p \in Pages : pte'[u][p].frame \in Nat
  BY DEF EntryInv, FreshEntries, Entries
<1>3. EntriesSound'
  <2> SUFFICES ASSUME NEW u \in Tasks, NEW p \in Pages
               PROVE  LET e == pte'[u][p]
                      IN  /\ e.frame <= used'
                          /\ e.frame = 0 => ~e.writable /\ ~e.cow
                          /\ e.frame # 0 => (e.cow <=> ~e.writable)
    BY DEF EntriesSound
  <2>1. CASE pte'[u][p] = pte[u][p]
    BY <1>1, <1>2, <2>1 DEF EntryInv, EntriesSound
  <2>2. CASE pte'[u][p] = Absent
    BY <1>1, <2>2 DEF Absent
  <2>3. CASE /\ pte'[u][p].frame \in used + 1 .. used'
             /\ pte'[u][p] = Mapping(pte'[u][p].frame)
    <3>1. ~pte'[u][p].cow /\ pte'[u][p].writable
      BY <2>3 DEF Mapping
    <3> QED  BY <1>1, <2>3, <3>1
  <2> QED  BY <2>1, <2>2, <2>3 DEF FreshEntries
<1>4. SharedReadOnly'
  <2> SUFFICES ASSUME NEW u \in Tasks, NEW v \in Tasks, NEW p \in Pages, NEW q \in Pages,
                      <<u, p>> # <<v, q>>, pte'[u][p].frame # 0,
                      pte'[u][p].frame = pte'[v][q].frame
               PROVE  ~pte'[u][p].writable /\ pte'[u][p].cow
    BY DEF SharedReadOnly, Shares
  <2>1. pte'[u][p] # Absent /\ pte'[v][q] # Absent
    BY DEF Absent
  <2>2. CASE pte'[u][p] = pte[u][p] /\ pte'[v][q] = pte[v][q]
    BY <2>2 DEF EntryInv, SharedReadOnly, Shares
  <2>3. CASE pte'[u][p] # pte[u][p]
    <3>1. u = t /\ pte'[u][p].frame > used
      BY <1>1, <1>2, <2>1, <2>3 DEF FreshEntries
    <3>2. v # t
      BY <2>1, <2>3, <3>1 DEF FreshEntries
    <3>3. pte'[v][q].frame <= used
      BY <3>2 DEF FreshEntries, EntryInv, EntriesSound
    <3> QED  BY <1>1, <1>2, <3>1, <3>3
  <2>4. CASE pte'[v][q] # pte[v][q]
    <3>1. v = t /\ pte'[v][q].frame > used
      BY <1>1, <1>2, <2>1, <2>4 DEF FreshEntries
    <3>2. u # t
      BY <2>1, <2>4, <3>1 DEF FreshEntries
    <3>3. pte'[u][p].frame <= used
      BY <3>2 DEF FreshEntries, EntryInv, EntriesSound
    <3> QED  BY <1>1, <1>2, <3>1, <3>3
  <2> QED  BY <2>2, <2>3, <2>4
<1> QED  BY <1>1, <1>3, <1>4 DEF EntryInv, FreshEntries

(* fork(): all pages are shared and will be copied. *)
LEMMA ForkKeepsEntries ==
  ASSUME EntryInv, NEW t \in Tasks, NEW c \in Tasks, t # c, UNCHANGED used,
         pte' = [pte EXCEPT ![t] = [p \in Pages |-> Shared(pte[t][p])],
                            ![c] = [p \in Pages |-> Shared(pte[t][p])]]
  PROVE  EntryInv'
<1>1. /\ \A u \in Tasks \ {t, c} : pte'[u] = pte[u]
      /\ \A p \in Pages : /\ pte'[t][p] = Shared(pte[t][p])
                          /\ pte'[c][p] = Shared(pte[t][p])
      /\ \A u \in Tasks, p \in Pages : pte[u][p] \in Entries
  BY DEF EntryInv
<1>2. \A e \in Entries : /\ Shared(e) \in Entries
                         /\ Shared(e).frame = e.frame
                         /\ e.frame = 0 => Shared(e) = e
                         /\ e.frame # 0 => ~Shared(e).writable /\ Shared(e).cow
  BY DEF Entries, Shared
<1> HIDE DEF Entries, Shared
<1>3. pte' \in [Tasks -> [Pages -> Entries]]
  BY <1>1, <1>2 DEF EntryInv
<1>9. \A u \in {t, c}, p \in Pages :
         /\ pte'[u][p].frame = pte[t][p].frame
         /\ pte[t][p].frame = 0 => pte'[u][p] = pte[t][p]
         /\ pte[t][p].frame # 0 => ~pte'[u][p].writable /\ pte'[u][p].cow
  <2>1. TAKE u \in {t, c}, p \in Pages
  <2>2. pte[t][p] \in Entries /\ pte'[u][p] = Shared(pte[t][p])
    BY <1>1
  <2> QED  BY <1>2, <2>2
<1>4. EntriesSound'
  <2> SUFFICES ASSUME NEW u \in Tasks, NEW p \in Pages
               PROVE  LET e == pte'[u][p]
                      IN  /\ e.frame <= used'
                          /\ e.frame = 0 => ~e.writable /\ ~e.cow
                          /\ e.frame # 0 => (e.cow <=> ~e.writable)
    BY DEF EntriesSound
  <2>1. CASE u \in {t, c}
    BY <1>9, <2>1 DEF EntryInv, EntriesSound
  <2>2. CASE u \notin {t, c}
    BY <1>1, <2>2 DEF EntryInv, EntriesSound
  <2> QED  BY <2>1, <2>2
<1>5. SharedReadOnly'
  <2> SUFFICES ASSUME NEW u \in Tasks, NEW v \in Tasks, NEW p \in Pages, NEW q \in Pages,
                      <<u, p>> # <<v, q>>, pte'[u][p].frame # 0,
                      pte'[u][p].frame = pte'[v][q].frame
               PROVE  ~pte'[u][p].writable /\ pte'[u][p].cow
    BY DEF SharedReadOnly, Shares
  <2>1. CASE u \in {t, c}
    BY <1>9, <2>1
  <2>2. CASE u \notin {t, c} /\ v \in {t, c}
    <3>1. pte'[u][p] = pte[u][p] /\ pte'[v][q].frame = pte[t][q].frame
      BY <1>1, <1>9, <2>2
    <3>2. <<u, p>> # <<t, q>>
      BY <2>2
    <3> QED  BY <3>1, <3>2 DEF EntryInv, SharedReadOnly, Shares
  <2>3. CASE u \notin {t, c} /\ v \notin {t, c}
    BY <1>1, <2>3 DEF EntryInv, SharedReadOnly, Shares
  <2> QED  BY <2>1, <2>2, <2>3
<1> QED  BY <1>3, <1>4, <1>5 DEF EntryInv

-----------------------------------------------------------------------------
(* The areas *)

HeapPages == HeapBegin .. HeapEnd

(* The areas of the running program are the first three of the list, and   *)
(* the heap is mapped from its beginning to page n.                        *)
HeapMapped(t, n) ==
  /\ vm[t][2].last = 2 * n
  /\ \A p \in HeapPages : Shares(t, p) <=> p < n

Layout(t) ==
  /\ Len(vm[t]) >= 3
  /\ vm[t][1] = ProgramAreas[1] /\ vm[t][3] = ProgramAreas[3]
  /\ vm[t][2].begin = 2 * HeapBegin
  /\ \E n \in HeapBegin .. HeapEnd + 1 : HeapMapped(t, n)

NoMemory(t) == vm[t] = <<>> /\ \A p \in Pages : pte[t][p] = Absent

AreaInv ==
  /\ life \in [Tasks -> {"ready", "live", "zombie"}]
  /\ vm \in [Tasks -> Seq(Areas)]
  /\ \A t \in Tasks : IF life[t] = "ready" THEN NoMemory(t) ELSE Layout(t)

(* Heap pages are pages, behind those of the stack and of the program.     *)
LEMMA HeapPagesArePages ==
  /\ HeapPages \subseteq Pages /\ HeapPages \subseteq Nat
  /\ \A p \in HeapPages : p > StackBase /\ p # DataPage
BY ConstantsAssumption DEF HeapPages, Pages

(* Steps that keep all lists and map or unmap no heap page.                *)
LEMMA AreasUntouched ==
  ASSUME AreaInv, UNCHANGED vm,
         life' \in [Tasks -> {"ready", "live", "zombie"}],
         \A u \in Tasks : life'[u] = "ready" <=> life[u] = "ready",
         \A u \in Tasks : life[u] = "ready" => pte'[u] = pte[u],
         \A u \in Tasks, p \in HeapPages : pte'[u][p].frame = 0 <=> pte[u][p].frame = 0
  PROVE  AreaInv'
<1>1. \A u \in Tasks : IF life'[u] = "ready" THEN NoMemory(u)' ELSE Layout(u)'
  <2>1. TAKE u \in Tasks
  <2>2. CASE life[u] = "ready"
    BY <2>2 DEF AreaInv, NoMemory
  <2>3. CASE life[u] # "ready"
    <3>1. Layout(u)
      BY <2>3 DEF AreaInv
    <3>2. \A n : HeapMapped(u, n) => HeapMapped(u, n)'
      BY DEF HeapMapped, Shares
    <3>3. Layout(u)'
      BY <3>1, <3>2 DEF Layout
    <3> QED  BY <2>3, <3>3
  <2> QED  BY <2>2, <2>3
<1> QED  BY <1>1 DEF AreaInv

(* What a task that does not act keeps. *)
LEMMA OthersKeepAreas ==
  ASSUME AreaInv, NEW u \in Tasks,
         life'[u] = life[u], vm'[u] = vm[u], pte'[u] = pte[u]
  PROVE  IF life'[u] = "ready" THEN NoMemory(u)' ELSE Layout(u)'
<1>1. \A n : HeapMapped(u, n) => HeapMapped(u, n)'
  BY DEF HeapMapped, Shares
<1>2. Layout(u) => Layout(u)'
  BY <1>1 DEF Layout
<1>3. NoMemory(u) => NoMemory(u)'
  BY DEF NoMemory
<1> QED  BY <1>2, <1>3 DEF AreaInv

(* malloc() *)
LEMMA MallocKeepsAreas ==
  ASSUME AreaInv, EntryInv, NEW t \in Tasks, NEW n \in 1 .. MaxMalloc, Malloc(t, n)
  PROVE  AreaInv'
<1>1. PICK m \in HeapBegin .. HeapEnd + 1 : HeapMapped(t, m)
  BY DEF AreaInv, Layout, Malloc
<1>2. m \in Nat /\ n \in Nat /\ n >= 1 /\ used \in Nat
  BY ConstantsAssumption DEF EntryInv
<1>3. Page(vm[t][2].last) = m
  BY <1>1, <1>2 DEF HeapMapped, Page, PageSize
<1>4. /\ m + n - 1 <= HeapEnd
      /\ pte' = [pte EXCEPT ![t] = [p \in Pages |->
                   IF p \in m .. m + n - 1 THEN Mapping(used + 1 + p - m) ELSE @[p]]]
      /\ life' = life
  BY <1>3 DEF Malloc
<1>5. vm[t] \in Seq(Areas) /\ Len(vm[t]) >= 3 /\ 2 \in 1 .. Len(vm[t]) /\ vm[t][2] \in Areas
  <2>1. vm[t] \in Seq(Areas) /\ Len(vm[t]) >= 3
    BY DEF AreaInv, Layout, Malloc
  <2> QED  BY <2>1, ElementOfSeq
<1> DEFINE e == [vm[t][2] EXCEPT !.last = 2 * (m + n)]
<1>6. e \in Areas /\ e.last = 2 * (m + n) /\ e.begin = vm[t][2].begin
  <2>1. 2 * (m + n) \in Limits
    BY <1>1, <1>2, <1>4, ConstantsAssumption DEF Limits, FirstByte, PageSize
  <2> QED  BY <1>5, <2>1 DEF Areas
<1>7. vm' = [vm EXCEPT ![t] = [vm[t] EXCEPT ![2] = e]]
  <2>1. vm[t][2].last + n * PageSize = 2 * (m + n)
    BY <1>1, <1>2 DEF HeapMapped, PageSize
  <2>2. vm' = [vm EXCEPT ![t] = [vm[t] EXCEPT ![2] =
                 [vm[t][2] EXCEPT !.last = vm[t][2].last + n * PageSize]]]
    BY DEF Malloc
  <2> QED  BY <2>1, <2>2
<1> HIDE DEF e
<1>8. /\ [vm[t] EXCEPT ![2] = e] \in Seq(Areas)
      /\ Len([vm[t] EXCEPT ![2] = e]) = Len(vm[t])
      /\ \A j \in 1 .. Len(vm[t]) :
            [vm[t] EXCEPT ![2] = e][j] = IF j = 2 THEN e ELSE vm[t][j]
  BY <1>5, <1>6, ExceptSeq
<1>9. vm'[t] = [vm[t] EXCEPT ![2] = e] /\ \A u \in Tasks : u # t => vm'[u] = vm[u]
  BY <1>7 DEF AreaInv
<1>10. Layout(t)'
  <2>1. Layout(t)
    BY DEF AreaInv, Malloc
  <2>2. Len(vm'[t]) >= 3 /\ vm'[t][1] = vm[t][1] /\ vm'[t][3] = vm[t][3] /\ vm'[t][2] = e
    BY <1>5, <1>8, <1>9
  <2>3. \A p \in HeapPages : Shares(t, p)' <=> p < m + n
    <3>1. TAKE p \in HeapPages
    <3>2. p \in Pages /\ p \in Nat
      BY HeapPagesArePages
    <3>3. pte'[t][p] = IF p \in m .. m + n - 1 THEN Mapping(used + 1 + p - m) ELSE pte[t][p]
      BY <1>4, <3>2 DEF EntryInv
    <3>4. Shares(t, p) <=> p < m
      BY <1>1 DEF HeapMapped
    <3> QED  BY <1>2, <3>2, <3>3, <3>4 DEF Shares, Mapping
  <2>4. HeapMapped(t, m + n)'
    BY <1>6, <2>2, <2>3 DEF HeapMapped
  <2>5. m + n \in HeapBegin .. HeapEnd + 1
    BY <1>1, <1>2, <1>4, ConstantsAssumption
  <2> QED  BY <1>6, <2>1, <2>2, <2>4, <2>5 DEF Layout
<1>11. \A u \in Tasks : IF life'[u] = "ready" THEN NoMemory(u)' ELSE Layout(u)'
  <2>1. TAKE u \in Tasks
  <2>2. CASE u = t
    BY <1>4, <1>10, <2>2 DEF Malloc
  <2>3. CASE u # t
    <3>1. pte'[u] = pte[u]
      BY <1>4, <2>3 DEF EntryInv
    <3> QED  BY <1>4, <1>9, <2>3, <3>1, OthersKeepAreas
  <2> QED  BY <2>2, <2>3
<1>12. vm' \in [Tasks -> Seq(Areas)]
  BY <1>7, <1>8 DEF AreaInv
<1> QED  BY <1>4, <1>11, <1>12 DEF AreaInv

(* fork() gives the child the areas of its parent, and the same pages.     *)
LEMMA ForkKeepsAreas ==
  ASSUME AreaInv, EntryInv, NEW t \in Tasks, NEW c \in Tasks, Fork(t, c)
  PROVE  AreaInv'
<1>1. /\ t # c /\ life[t] # "ready"
      /\ life' = [life EXCEPT ![c] = "live"] /\ vm' = [vm EXCEPT ![c] = vm[t]]
  BY DEF Fork, copyVMA
<1>2. /\ \A u \in Tasks \ {t, c} : pte'[u] = pte[u]
      /\ \A u \in {t, c}, p \in Pages : pte'[u][p] = Shared(pte[t][p])
  BY <1>1 DEF Fork, EntryInv
<1>3. \A u \in {t, c}, p \in HeapPages : Shares(u, p)' <=> Shares(t, p)
  <2>1. TAKE u \in {t, c}, p \in HeapPages
  <2>2. p \in Pages /\ pte[t][p] \in Entries
    BY HeapPagesArePages DEF EntryInv
  <2>3. Shared(pte[t][p]).frame = pte[t][p].frame
    BY <2>2 DEF Shared, Entries
  <2> QED  BY <1>2, <2>2, <2>3 DEF Shares
<1>4. /\ vm'[t] = vm[t] /\ vm'[c] = vm[t]
      /\ \A u \in Tasks \ {t, c} : vm'[u] = vm[u] /\ life'[u] = life[u]
      /\ life'[t] # "ready" /\ life'[c] # "ready"
  BY <1>1 DEF AreaInv
<1>5. Layout(t)
  BY <1>1 DEF AreaInv
<1>6. \A u \in {t, c} : Layout(u)'
  <2>1. TAKE u \in {t, c}
  <2>2. \A n : HeapMapped(t, n) => HeapMapped(u, n)'
    BY <1>3, <1>4 DEF HeapMapped
  <2> QED  BY <1>4, <1>5, <2>2 DEF Layout
<1>7. \A u \in Tasks : IF life'[u] = "ready" THEN NoMemory(u)' ELSE Layout(u)'
  <2>1. TAKE u \in Tasks
  <2>2. CASE u \in {t, c}
    BY <1>4, <1>6, <2>2
  <2>3. CASE u \notin {t, c}
    BY <1>2, <1>4, <2>3, OthersKeepAreas
  <2> QED  BY <2>2, <2>3
<1> QED  BY <1>1, <1>7 DEF AreaInv

(* execvpe() puts the areas of the new program in front of the old ones.   *)
LEMMA ExecKeepsAreas ==
  ASSUME AreaInv, EntryInv, NEW t \in Tasks, Exec(t)
  PROVE  AreaInv'
<1>1. /\ life[t] # "ready" /\ life' = life
      /\ vm' = [vm EXCEPT ![t] = ProgramAreas \o vm[t]]
      /\ pte' = [pte EXCEPT ![t] = [p \in Pages |->
                   IF p = DataPage THEN Mapping(used + 1)
                   ELSE IF p = StackBase THEN Mapping(used + 2) ELSE Absent]]
  BY DEF Exec
<1>2. vm[t] \in Seq(Areas) /\ Len(vm[t]) \in Nat
  BY DEF AreaInv
<1>3. /\ ProgramAreas \o vm[t] \in Seq(Areas)
      /\ Len(ProgramAreas \o vm[t]) = 3 + Len(vm[t])
      /\ \A i \in 1 .. 3 : (ProgramAreas \o vm[t])[i] = ProgramAreas[i]
  <2>1. /\ ProgramAreas \o vm[t] \in Seq(Areas)
        /\ Len(ProgramAreas \o vm[t]) = Len(ProgramAreas) + Len(vm[t])
        /\ \A i \in 1 .. Len(ProgramAreas) + Len(vm[t]) :
             (ProgramAreas \o vm[t])[i] = IF i <= Len(ProgramAreas) THEN ProgramAreas[i]
                                          ELSE vm[t][i - Len(ProgramAreas)]
    BY <1>2, ProgramAreasShape, ConcatProperties
  <2>2. Len(ProgramAreas) = 3
    BY ProgramAreasShape
  <2> QED  BY <1>2, <2>1, <2>2
<1>4. vm'[t] = ProgramAreas \o vm[t] /\ \A u \in Tasks : u # t => vm'[u] = vm[u]
  BY <1>1 DEF AreaInv
<1>5. Layout(t)'
  <2>1. \A p \in HeapPages : ~Shares(t, p)'
    <3>1. TAKE p \in HeapPages
    <3>2. p \in Pages /\ p # DataPage /\ p # StackBase
      BY HeapPagesArePages, ConstantsAssumption
    <3>3. pte'[t][p] = Absent
      BY <1>1, <3>2 DEF EntryInv
    <3> QED  BY <3>3 DEF Shares, Absent
  <2>2. /\ Len(vm'[t]) >= 3
        /\ vm'[t][1] = ProgramAreas[1] /\ vm'[t][2] = ProgramAreas[2]
        /\ vm'[t][3] = ProgramAreas[3]
    BY <1>2, <1>3, <1>4
  <2>3. ProgramAreas[2].begin = 2 * HeapBegin /\ ProgramAreas[2].last = 2 * HeapBegin
    BY ProgramAreasShape DEF Area
  <2>4. \A p \in HeapPages : ~(p < HeapBegin)
    BY ConstantsAssumption DEF HeapPages
  <2>5. HeapMapped(t, HeapBegin)'
    BY <2>1, <2>2, <2>3, <2>4 DEF HeapMapped
  <2>6. HeapBegin \in HeapBegin .. HeapEnd + 1
    BY ConstantsAssumption
  <2> QED  BY <2>2, <2>3, <2>5, <2>6 DEF Layout
<1>6. \A u \in Tasks : IF life'[u] = "ready" THEN NoMemory(u)' ELSE Layout(u)'
  <2>1. TAKE u \in Tasks
  <2>2. CASE u = t
    BY <1>1, <1>5, <2>2
  <2>3. CASE u # t
    <3>1. pte'[u] = pte[u]
      BY <1>1, <2>3 DEF EntryInv
    <3> QED  BY <1>1, <1>4, <2>3, <3>1, OthersKeepAreas
  <2> QED  BY <2>2, <2>3
<1>7. vm' \in [Tasks -> Seq(Areas)]
  BY <1>1, <1>3 DEF AreaInv
<1> QED  BY <1>1, <1>6, <1>7 DEF AreaInv

(* removeProcess() *)
LEMMA ReapKeepsAreas ==
  ASSUME AreaInv, EntryInv, NEW t \in Tasks, Reap(t)
  PROVE  AreaInv'
<1>1. /\ life' = [life EXCEPT ![t] = "ready"] /\ vm' = [vm EXCEPT ![t] = <<>>]
      /\ pte' = [pte EXCEPT ![t] = [p \in Pages |-> Absent]]
  BY DEF Reap
<1>2. \A u \in Tasks : IF life'[u] = "ready" THEN NoMemory(u)' ELSE Layout(u)'
  <2>1. TAKE u \in Tasks
  <2>2. CASE u = t
    BY <1>1, <2>2 DEF AreaInv, EntryInv, NoMemory
  <2>3. CASE u # t
    <3>1. life'[u] = life[u] /\ vm'[u] = vm[u] /\ pte'[u] = pte[u]
      BY <1>1, <2>3 DEF AreaInv, EntryInv
    <3> QED  BY <3>1, OthersKeepAreas
  <2> QED  BY <2>2, <2>3
<1>3. <<>> \in Seq(Areas)
  BY EmptySeq
<1> QED  BY <1>1, <1>2, <1>3 DEF AreaInv

-----------------------------------------------------------------------------
(* All of the memory *)

MemoryInv ==
  /\ EntryInv /\ AreaInv
  /\ content \in [Frames -> Values]
  /\ ref_count \in [Frames -> Nat]

(* The invariant has the types of the module in it.                        *)
LEMMA MemoryInvTyped == MemoryInv => TypeOK
BY DEF MemoryInv, EntryInv, AreaInv, Areas, TypeOK

(* Entries of frames that come from the free list. *)
LEMMA MappingTypes ==
  ASSUME NEW f \in Frames
  PROVE  Mapping(f) \in Entries /\ Mapping(f).frame = f
BY ConstantsAssumption DEF Mapping, Entries, Frames

(* An entry without a frame is an entry.                                   *)
LEMMA AbsentTyped == Absent \in Entries
BY ConstantsAssumption DEF Absent, Entries

(* What getFreeFrame() leaves of the page descriptors. *)
LEMMA FreeFrames ==
  ASSUME MemoryInv, NEW n \in 1 .. NumFrames, getFreeFrame(n)
  PROVE  /\ ref_count' \in [Frames -> Nat]
         /\ used' = used + n /\ used' \in used .. NumFrames
         /\ used + 1 .. used' \subseteq Frames
BY ConstantsAssumption DEF MemoryInv, EntryInv, getFreeFrame, Frames

(* A fault maps one fresh frame. *)
LEMMA FaultMaps ==
  ASSUME MemoryInv, NEW t \in Tasks, NEW p \in Pages, getFreeFrame(1),
         pte' = [pte EXCEPT ![t][p] = Mapping(used + 1)]
  PROVE  FreshEntries(t)
<1>1. used' = used + 1 /\ used' \in used .. NumFrames /\ used + 1 \in Frames /\ used \in Nat
  BY FreeFrames, ConstantsAssumption DEF MemoryInv, EntryInv
<1>2. Mapping(used + 1) \in Entries /\ Mapping(used + 1).frame = used + 1
  BY <1>1, MappingTypes
<1> HIDE DEF Mapping
<1>3. /\ pte' \in [Tasks -> [Pages -> Entries]]
      /\ \A u \in Tasks : u # t => pte'[u] = pte[u]
      /\ pte'[t][p] = Mapping(used + 1)
      /\ \A q \in Pages : q # p => pte'[t][q] = pte[t][q]
  BY <1>2 DEF MemoryInv, EntryInv
<1>4. \A q \in Pages : q # p => pte'[t][q].frame # used + 1
  <2>1. \A q \in Pages : pte[t][q].frame <= used /\ pte[t][q].frame \in Nat
    BY DEF MemoryInv, EntryInv, EntriesSound, Entries
  <2> QED  BY <1>1, <1>3, <2>1
<1>5. used + 1 \in used + 1 .. used'
  BY <1>1
<1> QED  BY <1>1, <1>2, <1>3, <1>4, <1>5 DEF FreshEntries

(* malloc() maps n fresh frames, one to a page. *)
LEMMA MallocMaps ==
  ASSUME MemoryInv, NEW t \in Tasks, NEW n \in 1 .. MaxMalloc, Malloc(t, n)
  PROVE  FreshEntries(t) /\ ref_count' \in [Frames -> Nat]
<1>1. PICK m \in HeapBegin .. HeapEnd + 1 : HeapMapped(t, m)
  BY DEF MemoryInv, AreaInv, Layout, Malloc
<1>2. m \in Nat /\ n \in Nat /\ n >= 1 /\ used \in Nat
  BY ConstantsAssumption DEF MemoryInv, EntryInv
<1>3. Page(vm[t][2].last) = m
  BY <1>1, <1>2 DEF HeapMapped, Page, PageSize
<1>4. /\ pte' = [pte EXCEPT ![t] = [p \in Pages |->
                   IF p \in m .. m + n - 1 THEN Mapping(used + 1 + p - m) ELSE @[p]]]
      /\ getFreeFrame(n)
  BY <1>3 DEF Malloc
<1>5. /\ used' = used + n /\ used' \in used .. NumFrames
      /\ used + 1 .. used' \subseteq Frames
      /\ ref_count' \in [Frames -> Nat]
  <2>1. n \in 1 .. NumFrames
    BY <1>2, <1>4, ConstantsAssumption DEF getFreeFrame
  <2> QED  BY <1>4, <2>1, FreeFrames
<1>6. \A p \in m .. m + n - 1 :
         /\ used + 1 + p - m \in used + 1 .. used'
         /\ used + 1 + p - m \in Frames
  BY <1>2, <1>5
<1>7. \A p \in m .. m + n - 1 : /\ Mapping(used + 1 + p - m) \in Entries
                                /\ Mapping(used + 1 + p - m).frame = used + 1 + p - m
  BY <1>6, MappingTypes
<1> HIDE DEF Mapping
<1>8. /\ pte' \in [Tasks -> [Pages -> Entries]]
      /\ \A u \in Tasks : u # t => pte'[u] = pte[u]
      /\ \A p \in Pages : pte'[t][p] = IF p \in m .. m + n - 1
                                       THEN Mapping(used + 1 + p - m) ELSE pte[t][p]
  BY <1>4, <1>7 DEF MemoryInv, EntryInv
<1>9. \A q \in Pages : pte[t][q].frame <= used /\ pte[t][q].frame \in Nat
  BY DEF MemoryInv, EntryInv, EntriesSound, Entries
<1>10. \A p \in Pages :
         p \in m .. m + n - 1 =>
           /\ pte'[t][p].frame \in used + 1 .. used'
           /\ pte'[t][p] = Mapping(pte'[t][p].frame)
           /\ \A q \in Pages : pte'[t][q].frame = pte'[t][p].frame => q = p
  <2> SUFFICES ASSUME NEW p \in Pages, p \in m .. m + n - 1
               PROVE  /\ pte'[t][p].frame \in used + 1 .. used'
                      /\ pte'[t][p] = Mapping(pte'[t][p].frame)
                      /\ \A q \in Pages : pte'[t][q].frame = pte'[t][p].frame => q = p
    OBVIOUS
  <2>1. pte'[t][p].frame = used + 1 + p - m
    BY <1>7, <1>8
  <2>2. \A q \in Pages : pte'[t][q].frame = pte'[t][p].frame => q = p
    <3>1. TAKE q \in Pages
    <3>2. CASE q \in m .. m + n - 1
      <4>1. pte'[t][q].frame = used + 1 + q - m
        BY <1>7, <1>8, <3>2
      <4> QED  BY <1>2, <2>1, <3>2, <4>1
    <3>3. CASE q \notin m .. m + n - 1
      BY <1>2, <1>8, <1>9, <2>1, <3>3
    <3> QED  BY <3>2, <3>3
  <2> QED  BY <1>6, <1>7, <1>8, <2>1, <2>2
<1>11. \A p \in Pages : p \notin m .. m + n - 1 => pte'[t][p] = pte[t][p]
  BY <1>8
<1> QED  BY <1>5, <1>8, <1>10, <1>11 DEF FreshEntries

(* execvpe() maps two fresh frames and nothing else. *)
LEMMA ExecMaps ==
  ASSUME MemoryInv, NEW t \in Tasks, Exec(t)
  PROVE  FreshEntries(t) /\ ref_count' \in [Frames -> Nat]
<1>1. /\ pte' = [pte EXCEPT ![t] = [p \in Pages |->
                   IF p = DataPage THEN Mapping(used + 1)
                   ELSE IF p = StackBase THEN Mapping(used + 2) ELSE Absent]]
      /\ getFreeFrame(2)
  BY DEF Exec
<1>2. /\ used' = used + 2 /\ used' \in used .. NumFrames
      /\ used + 1 .. used' \subseteq Frames /\ used \in Nat
      /\ ref_count' \in [Frames -> Nat]
  <2>1. 2 \in 1 .. NumFrames
    BY ConstantsAssumption
  <2> QED  BY <1>1, <2>1, FreeFrames, ConstantsAssumption DEF MemoryInv, EntryInv
<1>3. used + 1 \in Frames /\ used + 2 \in Frames
  BY <1>2
<1>4. /\ Mapping(used + 1) \in Entries /\ Mapping(used + 1).frame = used + 1
      /\ Mapping(used + 2) \in Entries /\ Mapping(used + 2).frame = used + 2
      /\ Absent \in Entries /\ Absent.frame = 0
  BY <1>3, MappingTypes, AbsentTyped DEF Absent
<1> HIDE DEF Mapping, Absent
<1>5. /\ pte' \in [Tasks -> [Pages -> Entries]]
      /\ \A u \in Tasks : u # t => pte'[u] = pte[u]
      /\ \A p \in Pages : pte'[t][p] = IF p = DataPage THEN Mapping(used + 1)
                                       ELSE IF p = StackBase THEN Mapping(used + 2)
                                       ELSE Absent
  BY <1>1, <1>4 DEF MemoryInv, EntryInv
<1>6. \A p \in Pages : pte'[t][p].frame = IF p = DataPage THEN used + 1
                                          ELSE IF p = StackBase THEN used + 2 ELSE 0
  BY <1>4, <1>5
<1>7. DataPage # StackBase /\ used + 1 # used + 2 /\ used + 1 # 0 /\ used + 2 # 0
      /\ used + 1 \in used + 1 .. used' /\ used + 2 \in used + 1 .. used'
  BY <1>2, ConstantsAssumption
<1> QED  BY <1>2, <1>5, <1>6, <1>7 DEF FreshEntries

(* removeProcess() maps nothing. *)
LEMMA ReapMaps ==
  ASSUME MemoryInv, NEW t \in Tasks, Reap(t)
  PROVE  FreshEntries(t)
<1>1. pte' = [pte EXCEPT ![t] = [p \in Pages |-> Absent]] /\ used' = used
  BY DEF Reap
<1>2. used \in used .. NumFrames
  BY ConstantsAssumption DEF MemoryInv, EntryInv
<1> HIDE DEF Absent
<1> QED  BY <1>1, <1>2, AbsentTyped DEF MemoryInv, EntryInv, FreshEntries

(* A fault changes no heap page from unmapped to mapped or back, and hits  *)
(* no free slot.                                                           *)
LEMMA FaultKeepsAreas ==
  ASSUME MemoryInv, NEW t \in Tasks, NEW a \in Addresses,
         CopyFault(t, a) \/ GrowFault(t, a)
  PROVE  AreaInv'
<1>1. /\ Page(a) \in Pages /\ Page(a) \in Nat /\ a \in Nat /\ 2 * Page(a) <= a
  BY PageOfAddress, ConstantsAssumption DEF Pages, FirstByte, PageSize
<1>2. /\ life[t] = "live" /\ UNCHANGED <<life, vm>>
      /\ pte' = [pte EXCEPT ![t][Page(a)] = Mapping(used + 1)]
  BY DEF CopyFault, GrowFault, Faults
<1>3. Layout(t)
  BY <1>2 DEF MemoryInv, AreaInv
<1>4. Page(a) \in HeapPages => pte[t][Page(a)].frame # 0
  <2>1. CASE CopyFault(t, a)
    <3>1. pte[t][Page(a)].cow
      BY <2>1 DEF CopyFault, Copies
    <3> QED  BY <1>1, <3>1 DEF MemoryInv, EntryInv, EntriesSound
  <2>2. CASE GrowFault(t, a)
    <3>1. a < vm[t][1].begin
      BY <2>2 DEF GrowFault, Grows, StackGrows
    <3>2. vm[t][1].begin = 2 * StackBase
      BY <1>3, ProgramAreasShape DEF Layout, Area
    <3>3. Page(a) < StackBase
      BY <1>1, <3>1, <3>2, ConstantsAssumption
    <3> QED  BY <1>1, <3>3, HeapPagesArePages, ConstantsAssumption
  <2> QED  BY <2>1, <2>2
<1>5. used + 1 # 0 /\ Mapping(used + 1).frame = used + 1
  BY ConstantsAssumption DEF MemoryInv, EntryInv, Mapping
<1> HIDE DEF Mapping
<1>6. \A u \in Tasks, p \in HeapPages : pte'[u][p].frame = 0 <=> pte[u][p].frame = 0
  BY <1>1, <1>2, <1>4, <1>5, HeapPagesArePages DEF MemoryInv, EntryInv
<1>7. \A u \in Tasks : life[u] = "ready" => pte'[u] = pte[u]
  BY <1>2 DEF MemoryInv, EntryInv
<1> QED  BY <1>2, <1>6, <1>7, AreasUntouched DEF MemoryInv, AreaInv

(* What the first task has. *)
LEMMA InitMemory ==
  ASSUME Init
  PROVE  MemoryInv
<1>1. PICK t \in Tasks :
        /\ life = [u \in Tasks |-> IF u = t THEN "live" ELSE "ready"]
        /\ pte = [u \in Tasks |-> [p \in Pages |->
                    IF u = t /\ p = DataPage THEN Mapping(1)
                    ELSE IF u = t /\ p = StackBase THEN Mapping(2) ELSE Absent]]
        /\ vm = [u \in Tasks |-> IF u = t THEN ProgramAreas ELSE <<>>]
        /\ content = [f \in Frames |-> IF f = 1 THEN Program ELSE Unused]
        /\ ref_count = [f \in Frames |-> IF f <= 2 THEN 1 ELSE 0]
        /\ used = 2
  BY DEF Init
<1>2. content \in [Frames -> Values] /\ ref_count \in [Frames -> Nat]
  BY <1>1, ConstantsAssumption DEF Frames
<1>3. /\ 1 \in Frames /\ 2 \in Frames /\ used \in 2 .. NumFrames
      /\ DataPage # StackBase
  BY <1>1, ConstantsAssumption DEF Frames
<1>4. /\ Mapping(1) \in Entries /\ Mapping(1).frame = 1
      /\ Mapping(1).writable /\ ~Mapping(1).cow
      /\ Mapping(2) \in Entries /\ Mapping(2).frame = 2
      /\ Mapping(2).writable /\ ~Mapping(2).cow
      /\ Absent \in Entries /\ Absent.frame = 0 /\ ~Absent.writable /\ ~Absent.cow
  BY <1>3, MappingTypes, AbsentTyped DEF Mapping, Absent
<1>5. EntryInv
  <2> HIDE DEF Mapping, Absent
  <2>1. pte \in [Tasks -> [Pages -> Entries]]
    BY <1>1, <1>4
  <2>2. EntriesSound
    BY <1>1, <1>4 DEF EntriesSound
  <2>3. \A u \in Tasks, p \in Pages :
           pte[u][p].frame = IF u = t /\ p = DataPage THEN 1
                             ELSE IF u = t /\ p = StackBase THEN 2 ELSE 0
    BY <1>1, <1>4
  <2>4. SharedReadOnly
    BY <1>3, <2>3 DEF SharedReadOnly, Shares
  <2> QED  BY <1>3, <2>1, <2>2, <2>4 DEF EntryInv
<1>6. AreaInv
  <2>1. \A u \in Tasks \ {t} : NoMemory(u)
    BY <1>1 DEF NoMemory
  <2>2. Layout(t)
    <3>1. \A p \in HeapPages : ~Shares(t, p) /\ ~(p < HeapBegin)
      <4>1. TAKE p \in HeapPages
      <4>2. p \in Pages /\ p # DataPage /\ p # StackBase /\ p \in Nat
        BY HeapPagesArePages, ConstantsAssumption
      <4> QED  BY <1>1, <4>2, ConstantsAssumption DEF Shares, Absent, HeapPages
    <3>2. vm[t] = ProgramAreas
      BY <1>1
    <3>3. HeapMapped(t, HeapBegin)
      BY <3>1, <3>2, ProgramAreasShape DEF HeapMapped, Area
    <3>4. HeapBegin \in HeapBegin .. HeapEnd + 1
      BY ConstantsAssumption
    <3> QED  BY <3>2, <3>3, <3>4, ProgramAreasShape DEF Layout, Area
  <2>3. <<>> \in Seq(Areas) /\ ProgramAreas \in Seq(Areas)
    BY EmptySeq, ProgramAreasShape
  <2>4. vm \in [Tasks -> Seq(Areas)]
    BY <1>1, <2>3
  <2>5. \A u \in Tasks : IF life[u] = "ready" THEN NoMemory(u) ELSE Layout(u)
    BY <1>1, <2>1, <2>2
  <2> QED  BY <1>1, <2>4, <2>5 DEF AreaInv
<1> QED  BY <1>2, <1>5, <1>6 DEF MemoryInv

(* Steps that change neither page tables nor areas. *)
LEMMA QuietStep ==
  ASSUME MemoryInv, UNCHANGED <<pte, vm, ref_count, used>>,
         content' \in [Frames -> Values],
         life' \in [Tasks -> {"ready", "live", "zombie"}],
         \A u \in Tasks : life'[u] = "ready" <=> life[u] = "ready"
  PROVE  MemoryInv'
<1>1. EntryInv'
  BY EntriesUntouched DEF MemoryInv
<1>2. AreaInv'
  BY AreasUntouched DEF MemoryInv
<1> QED  BY <1>1, <1>2 DEF MemoryInv

(* Every access, fault and system call keeps the invariant.                *)
LEMMA StepMemory ==
  ASSUME MemoryInv, [Next]_vars
  PROVE  MemoryInv'
<1>1. CASE UNCHANGED vars
  BY <1>1, QuietStep DEF vars, MemoryInv, AreaInv
<1>2. CASE Next
  <2>1. PICK t \in Tasks :
          \/ \E a \in Touched(t) : Access(t, a)
          \/ \E n \in 1 .. MaxMalloc : Malloc(t, n)
          \/ \E c \in Tasks : Fork(t, c)
          \/ Exec(t) \/ Exit(t) \/ OutOfFrames(t) \/ Reap(t)
    BY <1>2 DEF Next
  <2>2. CASE Exit(t)
    <3>1. \A u \in Tasks : life'[u] = "ready" <=> life[u] = "ready"
      BY <2>2 DEF Exit, MemoryInv, AreaInv
    <3> QED  BY <2>2, <3>1, QuietStep DEF Exit, MemoryInv, AreaInv
  <2>3. ASSUME NEW a \in Addresses, Access(t, a) PROVE MemoryInv'
    <3>1. Page(a) \in Pages
      BY PageOfAddress
    <3>2. CASE \E v \in Values : Write(t, a, v) \/ KernelWrite(t, a, v)
      BY <3>2, QuietStep DEF Write, KernelWrite, MemoryInv, AreaInv
    <3>3. CASE CopyFault(t, a) \/ GrowFault(t, a)
      <4>1. /\ getFreeFrame(1) /\ pte' = [pte EXCEPT ![t][Page(a)] = Mapping(used + 1)]
        BY <3>3 DEF CopyFault, GrowFault
      <4>2. EntryInv'
        BY <3>1, <4>1, FaultMaps, FreshKeepsEntries DEF MemoryInv
      <4>3. AreaInv'
        BY <3>3, FaultKeepsAreas
      <4>4. ref_count' \in [Frames -> Nat]
        BY <4>1, FreeFrames, ConstantsAssumption
      <4>5. content' \in [Frames -> Values]
        <5>1. CASE GrowFault(t, a)
          BY <5>1 DEF GrowFault, MemoryInv
        <5>2. CASE CopyFault(t, a)
          <6>1. pte[t][Page(a)].frame \in Frames
            <7>1. pte[t][Page(a)].frame # 0
              BY <3>1, <5>2 DEF CopyFault, Copies, MemoryInv, EntryInv, EntriesSound
            <7> QED  BY <3>1, <7>1, ConstantsAssumption DEF MemoryInv, EntryInv, Entries, Frames
          <6> QED  BY <5>2, <6>1 DEF CopyFault, Copied, MemoryInv
        <5> QED  BY <3>3, <5>1, <5>2
      <4> QED  BY <4>2, <4>3, <4>4, <4>5 DEF MemoryInv
    <3>4. CASE Segv(t, a)
      BY <2>2, <3>4 DEF Segv
    <3> QED  BY <2>3, <3>2, <3>3, <3>4 DEF Access
  <2>4. CASE \E n \in 1 .. MaxMalloc : Malloc(t, n)
    <3>1. PICK n \in 1 .. MaxMalloc : Malloc(t, n)
      BY <2>4
    <3> QED
      BY <3>1, MallocMaps, FreshKeepsEntries, MallocKeepsAreas DEF Malloc, MemoryInv
  <2>5. CASE \E c \in Tasks : Fork(t, c)
    <3>1. PICK c \in Tasks : Fork(t, c)
      BY <2>5
    <3>2. EntryInv'
      BY <3>1, ForkKeepsEntries DEF Fork, MemoryInv
    <3>3. ref_count' \in [Frames -> Nat]
      <4>1. \A f \in Frames : IsFiniteSet({p \in Pages : pte[t][p].frame = f})
        <5>1. IsFiniteSet(Pages)
          <6>1. IsFiniteSet(StackLimit .. StackBase) /\ IsFiniteSet(HeapBegin .. HeapEnd)
            BY FS_Interval, ConstantsAssumption
          <6>2. IsFiniteSet({DataPage})
            BY FS_Singleton
          <6> QED  BY <6>1, <6>2, FS_Union DEF Pages
        <5> QED  BY <5>1, FS_Subset
      <4>2. \A f \in Frames : Referenced(f, t) \in Nat
        BY <4>1, FS_CardinalityType DEF Referenced, MemoryInv
      <4> QED  BY <3>1, <4>2 DEF Fork
    <3>4. AreaInv'
      BY <3>1, ForkKeepsAreas DEF MemoryInv
    <3> QED  BY <3>1, <3>2, <3>3, <3>4 DEF Fork, MemoryInv
  <2>6. CASE Exec(t)
    <3>1. content' \in [Frames -> Values]
      BY <2>6, ConstantsAssumption DEF Exec, MemoryInv
    <3> QED  BY <2>6, <3>1, ExecMaps, FreshKeepsEntries, ExecKeepsAreas DEF MemoryInv
  <2>7. CASE Reap(t)
    BY <2>7, ReapMaps, FreshKeepsEntries, ReapKeepsAreas DEF Reap, MemoryInv
  <2>8. Touched(t) \subseteq Addresses
    BY DEF Touched
  <2> QED  BY <2>1, <2>2, <2>3, <2>4, <2>5, <2>6, <2>7, <2>8 DEF OutOfFrames
<1> QED  BY <1>1, <1>2

(* The invariant of memory, in every reachable state.                      *)
LEMMA MemoryCorrect == Spec => []MemoryInv
<1>1. Init => MemoryInv
  BY InitMemory
<1>2. MemoryInv /\ [Next]_vars => MemoryInv'
  BY StepMemory
<1> QED  BY <1>1, <1>2, PTL DEF Spec

(* Page tables, areas, frames and page descriptors keep their types.       *)
THEOREM MemoryTyped == Spec => []TypeOK
BY MemoryCorrect, MemoryInvTyped, PTL

(* fork(), execvpe(), malloc() and the fault handler never leave a frame   *)
(* that two page table entries map writable through one of them.           *)
THEOREM SharedStaysReadOnly == Spec => []SharedReadOnly
<1>1. MemoryInv => SharedReadOnly
  BY DEF MemoryInv, EntryInv
<1> QED  BY <1>1, MemoryCorrect, PTL

(* The head of a task's list is the stack of the program it runs, the      *)
(* second area its heap, with exactly the pages below its last address.    *)
THEOREM AreasInOrder == Spec => []StackThenHeap
<1>1. ASSUME MemoryInv PROVE StackThenHeap
  <2> SUFFICES ASSUME NEW t \in Tasks, life[t] = "live"
               PROVE  /\ vm[t][1] = ProgramAreas[1]
                      /\ vm[t][2].begin = FirstByte(HeapBegin)
                      /\ \A p \in HeapBegin .. HeapEnd :
                            Shares(t, p) <=> p < Page(vm[t][2].last)
    BY DEF StackThenHeap
  <2>1. Layout(t)
    BY <1>1 DEF MemoryInv, AreaInv
  <2>2. PICK n \in HeapBegin .. HeapEnd + 1 : HeapMapped(t, n)
    BY <2>1 DEF Layout
  <2>3. Page(vm[t][2].last) = n
    BY <2>2, ConstantsAssumption DEF HeapMapped, Page, PageSize
  <2>4. FirstByte(HeapBegin) = 2 * HeapBegin
    BY ConstantsAssumption DEF FirstByte, PageSize
  <2> QED  BY <2>1, <2>2, <2>3, <2>4 DEF Layout, HeapMapped, HeapPages
<1> QED  BY <1>1, MemoryCorrect, PTL

(* A task that keeps off the boundaries of its areas is never ended for    *)
(* using a page it has: what fork() made read-only, isr14() finds valid.   *)
THEOREM OwnPagesUsable == ~TouchEdges => (Spec => []OwnMemoryUsable)
<1> SUFFICES ASSUME ~TouchEdges PROVE Spec => []OwnMemoryUsable
  OBVIOUS
<1>1. ASSUME MemoryInv PROVE OwnMemoryUsable
  <2> SUFFICES ASSUME NEW t \in Tasks, NEW a \in Addresses, life[t] = "live",
                      a \in Touched(t), Shares(t, Page(a)), ~pte[t][Page(a)].writable
               PROVE  Copies(t, a)
    BY DEF OwnMemoryUsable
  <2>1. /\ Page(a) \in Pages /\ Page(a) \in Nat /\ a \in Nat
        /\ 2 * Page(a) <= a /\ a <= 2 * Page(a) + 1
    BY PageOfAddress, ConstantsAssumption DEF Pages, FirstByte, PageSize
  <2>2. pte[t][Page(a)].cow
    BY <1>1, <2>1 DEF MemoryInv, EntryInv, EntriesSound, Shares
  <2>3. Layout(t) /\ Len(vm[t]) \in Nat /\ DOMAIN vm[t] = 1 .. Len(vm[t])
    BY <1>1 DEF MemoryInv, AreaInv
  <2>4. 1 \in DOMAIN vm[t] /\ 2 \in DOMAIN vm[t] /\ 3 \in DOMAIN vm[t]
    BY <2>3 DEF Layout
  <2>5. PICK n \in HeapBegin .. HeapEnd + 1 : HeapMapped(t, n)
    BY <2>3 DEF Layout
  <2>6. /\ vm[t][1].begin = 2 * StackBase /\ vm[t][1].last = 2 * StackLimit
        /\ vm[t][2].begin = 2 * HeapBegin /\ vm[t][2].last = 2 * n
        /\ vm[t][3].begin = 2 * DataPage /\ vm[t][3].last = 2 * DataPage + 2
    BY <2>3, <2>5, ProgramAreasShape DEF Layout, HeapMapped, Area
  <2>7. a # vm[t][1].last /\ a # vm[t][2].begin /\ a # vm[t][3].begin
    <3>1. \A i \in DOMAIN vm[t] : a # vm[t][i].begin /\ a # vm[t][i].last
      BY DEF Touched, Edges
    <3> QED  BY <2>4, <3>1
  <2>8. checkValid(t, a)
    <3>1. CASE Page(a) = DataPage
      <4>1. vm[t][3].begin < a /\ a < vm[t][3].last
        BY <2>1, <2>6, <2>7, <3>1
      <4> QED  BY <2>4, <4>1 DEF checkValid, checkForVM
    <3>2. CASE Page(a) \in StackLimit .. StackBase
      BY <2>1, <2>6, <2>7, <3>2, ConstantsAssumption DEF checkValid, PageSize
    <3>3. CASE Page(a) \in HeapPages
      <4>1. Page(a) < n
        BY <2>5, <3>3 DEF HeapMapped
      <4>2. vm[t][2].begin < a /\ a < vm[t][2].last
        BY <2>1, <2>6, <2>7, <3>3, <4>1, ConstantsAssumption DEF HeapPages
      <4> QED  BY <2>4, <4>2 DEF checkValid, checkForVM
    <3> QED  BY <2>1, <3>1, <3>2, <3>3 DEF Pages, HeapPages
  <2> QED  BY <2>2, <2>8 DEF Copies
<1> QED  BY <1>1, MemoryCorrect, PTL

-----------------------------------------------------------------------------
(* The references to a frame *)

(* The entries that map frame f. *)
Mappings(f) == {m \in Tasks \X Pages : pte[m[1]][m[2]].frame = f}

ReferencesCounted == \A f \in Frames : Cardinality(Mappings(f)) <= ref_count[f]

(* Finitely many entries map a frame.                                      *)
LEMMA MappingsFinite ==
  /\ IsFiniteSet(Pages)
  /\ \A f : IsFiniteSet(Mappings(f)) /\ Cardinality(Mappings(f)) \in Nat
<1>1. IsFiniteSet(Pages)
  <2>1. IsFiniteSet(StackLimit .. StackBase) /\ IsFiniteSet(HeapBegin .. HeapEnd)
    BY FS_Interval, ConstantsAssumption
  <2>2. IsFiniteSet({DataPage})
    BY FS_Singleton
  <2> QED  BY <2>1, <2>2, FS_Union DEF Pages
<1>2. IsFiniteSet(Tasks \X Pages)
  BY <1>1, FS_Product, ConstantsAssumption
<1>3. \A f : Mappings(f) \in SUBSET (Tasks \X Pages)
  BY DEF Mappings
<1>4. \A f : IsFiniteSet(Mappings(f))
  BY <1>2, <1>3, FS_Subset
<1> QED  BY <1>1, <1>4, FS_CardinalityType

(* A fresh frame is mapped once and counted once.                          *)
LEMMA FreshKeepsCounts ==
  ASSUME MemoryInv, MemoryInv', ReferencesCounted, NEW t \in Tasks, FreshEntries(t),
         \A f \in Frames : ref_count'[f] = IF f \in used + 1 .. used' THEN 1
                                           ELSE ref_count[f]
  PROVE  ReferencesCounted'
<1> SUFFICES ASSUME NEW f \in Frames
             PROVE  Cardinality(Mappings(f)') <= ref_count'[f]
  BY DEF ReferencesCounted
<1>1. f # 0 /\ f \in Nat /\ used \in Nat
  BY ConstantsAssumption DEF Frames, MemoryInv, EntryInv
<1>2. Mappings(f)' = {m \in Tasks \X Pages : pte'[m[1]][m[2]].frame = f}
  BY DEF Mappings
<1>3. CASE f \notin used + 1 .. used'
  <2>1. Mappings(f)' \in SUBSET Mappings(f)
    <3> SUFFICES ASSUME NEW u \in Tasks, NEW p \in Pages, pte'[u][p].frame = f
                 PROVE  pte[u][p].frame = f
      BY <1>2 DEF Mappings
    <3>1. pte'[u][p] # Absent
      BY <1>1 DEF Absent
    <3> QED  BY <1>3, <3>1 DEF FreshEntries
  <2>2. Cardinality(Mappings(f)') <= Cardinality(Mappings(f))
    BY <2>1, MappingsFinite, FS_Subset
  <2>3. Cardinality(Mappings(f)') \in Nat /\ ref_count[f] \in Nat
    BY <2>1, MappingsFinite, FS_Subset, FS_CardinalityType DEF MemoryInv
  <2> QED  BY <1>3, <2>2, <2>3, MappingsFinite DEF ReferencesCounted
<1>4. CASE f \in used + 1 .. used'
  <2>1. \A u \in Tasks, p \in Pages : pte'[u][p].frame = f => u = t
    <3>1. \A u \in Tasks, p \in Pages : pte[u][p].frame <= used /\ pte[u][p].frame \in Nat
      BY DEF MemoryInv, EntryInv, EntriesSound, Entries
    <3> QED  BY <1>1, <1>4, <3>1 DEF FreshEntries
  <2>2. \A p, q \in Pages : pte'[t][p].frame = f /\ pte'[t][q].frame = f => p = q
    <3>1. \A p \in Pages : pte[t][p].frame <= used /\ pte[t][p].frame \in Nat
      BY DEF MemoryInv, EntryInv, EntriesSound, Entries
    <3>2. Absent.frame = 0
      BY DEF Absent
    <3> QED  BY <1>1, <1>4, <3>1, <3>2 DEF FreshEntries
  <2>3. Mappings(f)' = {} \/ \E m : Mappings(f)' = {m}
    BY <1>2, <2>1, <2>2
  <2>4. Cardinality(Mappings(f)') \in {0, 1}
    <3>1. CASE Mappings(f)' = {}
      BY <3>1, FS_EmptySet
    <3>2. ASSUME NEW m, Mappings(f)' = {m} PROVE Cardinality(Mappings(f)') = 1
      BY <3>2, FS_Singleton
    <3> QED  BY <2>3, <3>1, <3>2
  <2> QED  BY <1>4, <2>4
<1> QED  BY <1>3, <1>4

(* fork() counts every entry of the child. *)
LEMMA ForkKeepsCounts ==
  ASSUME MemoryInv, ReferencesCounted, NEW t \in Tasks, NEW c \in Tasks, Fork(t, c)
  PROVE  ReferencesCounted'
<1> SUFFICES ASSUME NEW f \in Frames
             PROVE  Cardinality(Mappings(f)') <= ref_count'[f]
  BY DEF ReferencesCounted
<1> DEFINE P == {p \in Pages : pte[t][p].frame = f}
<1>1. /\ t # c
      /\ \A u \in Tasks \ {t, c} : pte'[u] = pte[u]
      /\ \A u \in {t, c}, p \in Pages : pte'[u][p] = Shared(pte[t][p])
  BY DEF Fork, MemoryInv, EntryInv
<1>2. \A u \in {t, c}, p \in Pages : pte'[u][p].frame = pte[t][p].frame
  <2>1. \A e \in Entries : Shared(e).frame = e.frame
    BY DEF Shared, Entries
  <2>2. \A p \in Pages : pte[t][p] \in Entries
    BY DEF MemoryInv, EntryInv
  <2> QED  BY <1>1, <2>1, <2>2
<1>3. Mappings(f)' \in SUBSET (Mappings(f) \cup {c} \X P)
  <2>1. Mappings(f)' = {m \in Tasks \X Pages : pte'[m[1]][m[2]].frame = f}
    BY DEF Mappings
  <2> SUFFICES ASSUME NEW u \in Tasks, NEW p \in Pages, pte'[u][p].frame = f
               PROVE  <<u, p>> \in Mappings(f) \cup {c} \X P
    BY <2>1
  <2> QED  BY <1>1, <1>2 DEF Mappings
<1>4. IsFiniteSet(P) /\ Cardinality(P) \in Nat
  BY MappingsFinite, FS_Subset, FS_CardinalityType
<1> HIDE DEF P
<1>5. IsFiniteSet({c} \X P) /\ Cardinality({c} \X P) = Cardinality(P)
  <2>1. IsFiniteSet({c}) /\ Cardinality({c}) = 1
    BY FS_Singleton
  <2>2. IsFiniteSet({c} \X P) /\ Cardinality({c} \X P) = Cardinality({c}) * Cardinality(P)
    BY <1>4, <2>1, FS_Product
  <2> QED  BY <1>4, <2>1, <2>2
<1>6. IsFiniteSet(Mappings(f)) /\ Cardinality(Mappings(f)) \in Nat
  BY MappingsFinite
<1> DEFINE both == Mappings(f) \cup {c} \X P
<1>7. IsFiniteSet(both) /\ Cardinality(both) <= Cardinality(Mappings(f)) + Cardinality(P)
  <2>1. /\ IsFiniteSet(both)
        /\ Cardinality(both) = Cardinality(Mappings(f)) + Cardinality({c} \X P)
                               - Cardinality(Mappings(f) \cap ({c} \X P))
    BY <1>5, <1>6, FS_Union
  <2>2. Cardinality(Mappings(f) \cap ({c} \X P)) \in Nat
    BY <1>6, FS_Intersection, FS_CardinalityType
  <2> QED  BY <1>4, <1>5, <1>6, <2>1, <2>2
<1> HIDE DEF both
<1>8. /\ Cardinality(Mappings(f)') <= Cardinality(both)
      /\ Cardinality(Mappings(f)') \in Nat /\ Cardinality(both) \in Nat
  BY <1>3, <1>7, FS_Subset, FS_CardinalityType DEF both
<1>9. ref_count'[f] = ref_count[f] + Cardinality(P) /\ ref_count[f] \in Nat
  BY DEF Fork, Referenced, P, MemoryInv
<1> QED  BY <1>4, <1>6, <1>7, <1>8, <1>9 DEF ReferencesCounted

(* No step loses count of a reference. *)
LEMMA StepCounts ==
  ASSUME MemoryInv, ReferencesCounted, [Next]_vars
  PROVE  ReferencesCounted'
<1>0. MemoryInv'
  BY StepMemory
<1>1. CASE UNCHANGED <<pte, ref_count>>
  BY <1>1 DEF ReferencesCounted, Mappings
<1>2. ASSUME NEW t \in Tasks, NEW n \in Nat, getFreeFrame(n), FreshEntries(t)
      PROVE  ReferencesCounted'
  BY <1>0, <1>2, FreshKeepsCounts DEF getFreeFrame
<1>3. CASE Next
  <2>1. PICK t \in Tasks :
          \/ \E a \in Touched(t) : Access(t, a)
          \/ \E n \in 1 .. MaxMalloc : Malloc(t, n)
          \/ \E c \in Tasks : Fork(t, c)
          \/ Exec(t) \/ Exit(t) \/ OutOfFrames(t) \/ Reap(t)
    BY <1>3 DEF Next
  <2>2. CASE Exit(t) \/ OutOfFrames(t)
    BY <1>1, <2>2 DEF Exit, OutOfFrames
  <2>3. ASSUME NEW a \in Addresses, Access(t, a) PROVE ReferencesCounted'
    <3>1. Page(a) \in Pages
      BY PageOfAddress
    <3>2. CASE CopyFault(t, a) \/ GrowFault(t, a)
      BY <1>2, <3>1, <3>2, FaultMaps DEF CopyFault, GrowFault
    <3>3. CASE Segv(t, a) \/ \E v \in Values : Write(t, a, v) \/ KernelWrite(t, a, v)
      BY <1>1, <3>3 DEF Segv, Exit, Write, KernelWrite
    <3> QED  BY <2>3, <3>2, <3>3 DEF Access
  <2>4. CASE \E n \in 1 .. MaxMalloc : Malloc(t, n)
    <3>1. PICK n \in 1 .. MaxMalloc : Malloc(t, n)
      BY <2>4
    <3>2. n \in Nat /\ getFreeFrame(n)
      BY <3>1, ConstantsAssumption DEF Malloc
    <3> QED  BY <1>2, <3>1, <3>2, MallocMaps
  <2>5. CASE \E c \in Tasks : Fork(t, c)
    BY <2>5, ForkKeepsCounts
  <2>6. CASE Exec(t)
    BY <1>2, <2>6, ExecMaps DEF Exec
  <2>7. CASE Reap(t)
    <3>1. FreshEntries(t)
      BY <2>7, ReapMaps
    <3>2. UNCHANGED <<used, ref_count>> /\ used \in Nat
      BY <2>7, ConstantsAssumption DEF Reap, MemoryInv, EntryInv
    <3> QED  BY <1>0, <3>1, <3>2, FreshKeepsCounts
  <2>8. Touched(t) \subseteq Addresses
    BY DEF Touched
  <2> QED  BY <2>1, <2>2, <2>3, <2>4, <2>5, <2>6, <2>7, <2>8
<1> QED  BY <1>1, <1>3 DEF vars

(* ref_count never falls below the number of entries that map the frame,   *)
(* and a mapped frame is off the free list.                                *)
THEOREM CountsCover == Spec => []RefCountCovers
<1>1. ASSUME Init PROVE ReferencesCounted
  <2>1. MemoryInv
    BY <1>1, InitMemory
  <2>2. PICK t \in Tasks :
          /\ pte = [u \in Tasks |-> [p \in Pages |->
                      IF u = t /\ p = DataPage THEN Mapping(1)
                      ELSE IF u = t /\ p = StackBase THEN Mapping(2) ELSE Absent]]
          /\ ref_count = [f \in Frames |-> IF f <= 2 THEN 1 ELSE 0]
    BY <1>1 DEF Init
  <2>3. \A u \in Tasks, p \in Pages :
           pte[u][p].frame = IF u = t /\ p = DataPage THEN 1
                             ELSE IF u = t /\ p = StackBase THEN 2 ELSE 0
    BY <2>2 DEF Mapping, Absent
  <2> SUFFICES ASSUME NEW f \in Frames
               PROVE  Cardinality(Mappings(f)) <= ref_count[f]
    BY DEF ReferencesCounted
  <2>4. f \in Nat /\ f # 0
    BY ConstantsAssumption DEF Frames
  <2>5. Mappings(f) \in SUBSET (IF f = 1 THEN {<<t, DataPage>>}
                                ELSE IF f = 2 THEN {<<t, StackBase>>} ELSE {})
    BY <2>3, <2>4 DEF Mappings
  <2>6. \A x : IsFiniteSet({x}) /\ Cardinality({x}) = 1
    BY FS_Singleton
  <2>7. CASE f <= 2
    <3>1. \E x : Mappings(f) \in SUBSET {x}
      <4>1. CASE f = 1
        <5>1. Mappings(f) \in SUBSET {<<t, DataPage>>}
          BY <2>5, <4>1
        <5> QED  BY <5>1
      <4>2. CASE f = 2
        <5>1. Mappings(f) \in SUBSET {<<t, StackBase>>}
          BY <2>5, <4>2
        <5> QED  BY <5>1
      <4>3. f = 1 \/ f = 2
        BY <2>4, <2>7
      <4> QED  BY <4>1, <4>2, <4>3
    <3>2. PICK x : Mappings(f) \in SUBSET {x}
      BY <3>1
    <3>3. IsFiniteSet({x}) /\ Cardinality({x}) = 1
      BY <2>6
    <3>4. Cardinality(Mappings(f)) <= 1
      <4> HIDE DEF Mappings
      <4>1. Cardinality(Mappings(f)) <= Cardinality({x})
        BY <3>2, <3>3, FS_Subset
      <4> QED  BY <3>3, <4>1
    <3> QED  BY <2>2, <2>7, <3>4
  <2>8. CASE ~(f <= 2)
    <3>1. Mappings(f) = {}
      BY <2>4, <2>5, <2>8
    <3> QED  BY <2>2, <2>8, <3>1, FS_EmptySet
  <2> QED  BY <2>7, <2>8
<1>2. Init => MemoryInv
  BY InitMemory
<1>3. (MemoryInv /\ ReferencesCounted) /\ [Next]_vars => (MemoryInv /\ ReferencesCounted)'
  BY StepMemory, StepCounts
<1>4. MemoryInv /\ ReferencesCounted => RefCountCovers
  BY DEF MemoryInv, EntryInv, EntriesSound, ReferencesCounted, Mappings, RefCountCovers
<1> QED  BY <1>1, <1>2, <1>3, <1>4, PTL DEF Spec
=============================================================================
