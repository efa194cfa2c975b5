--------------------------------- MODULE Heap ---------------------------------
(***************************************************************************)
(* malloc() and free() of libc/util_sys.c: a circular list of free blocks  *)
(* in the order of their addresses, first fit, with memory from sbrk().    *)
(* Addresses count units of one Header.  The list begins at the static     *)
(* header base, which lies below the heap and has no units to give.        *)
(***************************************************************************)
EXTENDS Integers, FiniteSetsExt

CONSTANTS
  UnitBytes,     \* sizeof(Header), 16
  NALLOC,        \* units that morecore() asks for at least, 1024
  PageUnits,     \* units of a page, 256
  HeapBegin,     \* where the kernel's heap area of the program begins
  HeapEnd,       \* bound on where it ends
  Requests       \* sizes in bytes the program asks for

ASSUME HeapAssumption ==
  /\ UnitBytes \in Nat \ {0} /\ NALLOC \in Nat \ {0}
  /\ PageUnits \in Nat \ {0} /\ HeapBegin \in Nat \ {0}
  /\ HeapEnd \in Nat /\ HeapBegin <= HeapEnd
  /\ Requests \subseteq Nat

base  == 0
NULL  == -1

VARIABLES
  freep,         \* where the next search begins, NULL before the first
  ptr, size,     \* the headers: next free block, length with the header
  brk,           \* vm->lastAddress of the heap area
  arenas,        \* what sbrk() was asked for: first unit -> units
  held           \* blocks of the program: user pointer -> bytes asked for

vars == <<freep, ptr, size, brk, arenas, held>>

Addresses == base .. HeapEnd

Init ==
  /\ freep = NULL
  /\ ptr = [a \in Addresses |-> NULL]
  /\ size = [a \in Addresses |-> 0]
  /\ brk = HeapBegin
  /\ arenas = << >>
  /\ held = << >>

Put(f, a, v)  == [x \in DOMAIN f \cup {a} |-> IF x = a THEN v ELSE f[x]]
Without(f, a) == [x \in DOMAIN f \ {a} |-> f[x]]

-----------------------------------------------------------------------------
(* The headers as a record h, which malloc() and free() work on. *)
Headers == [freep |-> freep, ptr |-> ptr, size |-> size]

(* The list from freep on: freep itself, its successor, and so on round. *)
Nth(h) == LET nth[k \in Nat] == IF k = 0 THEN h.freep ELSE h.ptr[nth[k - 1]]
          IN  nth

(* More turns than a loop through the list takes. *)
Turns == 0 .. HeapEnd + 1

(* Seeded faults: the end of the list is not looked for; a block is only   *)
(* joined with the block behind it.                                        *)
FitsAnywhere(bp, p, next) == TRUE
JoinUpOnly(h, p, bp) ==
  [h EXCEPT !.size[bp] = IF bp + @ = h.ptr[p] THEN @ + h.size[h.ptr[p]] ELSE @,
            !.ptr[bp]  = IF bp + h.size[bp] = h.ptr[p] THEN h.ptr[h.ptr[p]] ELSE h.ptr[p],
            !.ptr[p]   = bp]

(* bp belongs between p and p's successor: between them, or outside both   *)
(* where the list turns round.                                             *)
Between(bp, p, next) == \/ bp > p /\ bp < next
                        \/ p >= next /\ (bp > p \/ bp < next)

(* A header that is no longer one: nothing reads it, so the model keeps    *)
(* nothing of it.                                                          *)
Forget(h, a) == [h EXCEPT !.size[a] = 0, !.ptr[a] = NULL]

(* bp goes behind p, joined with its upper and with its lower neighbour.   *)
Joined(h, p, bp) ==
  LET next == h.ptr[p]
      up   == IF bp + h.size[bp] = next
              THEN [Forget(h, next) EXCEPT !.size[bp] = @ + h.size[next],
                                           !.ptr[bp] = h.ptr[next]]
              ELSE [h EXCEPT !.ptr[bp] = next]
  IN  IF p + up.size[p] = bp
      THEN [Forget(up, bp) EXCEPT !.size[p] = @ + up.size[bp],
                                  !.ptr[p] = up.ptr[bp]]
      ELSE [up EXCEPT !.ptr[p] = bp]

free(h, bp) ==
  LET nth == Nth(h)
      p   == nth[Min({k \in Turns : Between(bp, nth[k], h.ptr[nth[k]])})]
  IN  [Joined(h, p, bp) EXCEPT !.freep = p]

(* Seeded fault: the size of a request is rounded down. *)
RoundDown(nbytes) == nbytes \div UnitBytes + 1

nunits(nbytes) == (nbytes + UnitBytes - 1) \div UnitBytes + 1

(* Pages the kernel's malloc() maps: one more than fit into the request.   *)
PagesFor(units) == units \div PageUnits + 1

(* Seeded fault: the rest of a block that is longer is not kept. *)
TakeAll(h, prevp, p, n) ==
  [h EXCEPT !.ptr[prevp] = h.ptr[p], !.size[p + h.size[p] - n] = n, !.freep = prevp]

(* The block is taken out of the list, or its upper end is cut off.        *)
Taken(h, prevp, p, n) ==
  IF h.size[p] = n
  THEN [h EXCEPT !.ptr = [@ EXCEPT ![prevp] = h.ptr[p], ![p] = NULL],
                 !.freep = prevp]
  ELSE [h EXCEPT !.size[p] = @ - n, !.size[p + h.size[p] - n] = n, !.freep = prevp]

TakenAt(h, p, n) == IF h.size[p] = n THEN p ELSE p + h.size[p] - n

(* The first call makes the list of base alone. *)
Started(h) == IF h.freep # NULL THEN h
              ELSE [h EXCEPT !.ptr[base] = base, !.size[base] = 0, !.freep = base]

OnceRound(h) == LET nth == Nth(h)
                IN  1 .. Min({k \in Turns \ {0} : nth[k] = h.freep})

(* Seeded fault: the length of a block is not looked at. *)
FitsAny(h, n) == {k \in OnceRound(h) : Nth(h)[k] # base}

Fits(h, n) == {k \in OnceRound(h) : h.size[Nth(h)[k]] >= n}

(* morecore(): at least NALLOC units, from where the heap area ended.      *)
MoreUnits(n)   == IF n < NALLOC THEN NALLOC ELSE n
MoreCore(h, n) == free([h EXCEPT !.size[brk] = MoreUnits(n)], brk)

(* Hands out the first block that is long enough.                          *)
HandOut(h, n, nbytes) ==
  LET nth == Nth(h)
      k   == Min(Fits(h, n))
      new == Taken(h, nth[k - 1], nth[k], n)
  IN  /\ freep' = new.freep /\ ptr' = new.ptr /\ size' = new.size
      /\ held' = Put(held, TakenAt(h, nth[k], n) + 1, nbytes)

MallocFromList(nbytes) ==
  LET h == Started(Headers)
      n == nunits(nbytes)
  IN  /\ Fits(h, n) # {}
      /\ HandOut(h, n, nbytes)
      /\ UNCHANGED <<brk, arenas>>

MallocMoreCore(nbytes) ==
  LET h == Started(Headers)
      n == nunits(nbytes)
  IN  /\ Fits(h, n) = {}
      /\ brk' = brk + PagesFor(MoreUnits(n)) * PageUnits
      /\ brk' <= HeapEnd
      /\ arenas' = Put(arenas, brk, MoreUnits(n))
      /\ HandOut(MoreCore(h, n), n, nbytes)

(* The program frees blocks it holds, once. *)
Free(a) ==
  LET new == free(Headers, a - 1)
  IN  /\ freep' = new.freep /\ ptr' = new.ptr /\ size' = new.size
      /\ held' = Without(held, a)
      /\ UNCHANGED <<brk, arenas>>

Next == \/ \E nbytes \in Requests : MallocFromList(nbytes) \/ MallocMoreCore(nbytes)
        \/ \E a \in DOMAIN held : Free(a)

Spec == Init /\ [][Next]_vars

-----------------------------------------------------------------------------
(* Properties *)

FreeBlocks == IF freep = NULL THEN {}
              ELSE {Nth(Headers)[k] : k \in OnceRound(Headers)}
HeldBlocks == {a - 1 : a \in DOMAIN held}
UnitsOf(b) == b .. b + size[b] - 1
ArenaUnits == UNION {a .. a + arenas[a] - 1 : a \in DOMAIN arenas}

TypeOK ==
  /\ freep \in Addresses \cup {NULL}
  /\ ptr \in [Addresses -> Addresses \cup {NULL}]
  /\ size \in [Addresses -> 0 .. HeapEnd]
  /\ brk \in HeapBegin .. HeapEnd
  /\ DOMAIN arenas \subseteq HeapBegin .. HeapEnd
  /\ DOMAIN held \subseteq HeapBegin .. HeapEnd
  /\ \A a \in DOMAIN held : held[a] \in Requests

(* Nothing is lost and nothing is given twice: every unit that came from   *)
(* sbrk() is in exactly one block, free or held.                           *)
UnitsPartitioned ==
  LET blocks == (FreeBlocks \cup HeldBlocks) \ {base}
  IN  /\ FreeBlocks \cap HeldBlocks = {}
      /\ UNION {UnitsOf(b) : b \in blocks} = ArenaUnits
      /\ \A b, c \in blocks : b # c => UnitsOf(b) \cap UnitsOf(c) = {}

(* The free list is a circle in the order of the addresses, with one turn, *)
(* and no two of its blocks lie side by side: free() joins what it can.    *)
ListInOrder ==
  \A b \in FreeBlocks :
     /\ \A c \in FreeBlocks : ~(b < c /\ c < ptr[b])
     /\ ptr[b] <= b => \A c \in FreeBlocks : ptr[b] <= c /\ c <= b
     /\ b # base => b + size[b] \notin FreeBlocks

(* When everything has been freed, every piece that came from sbrk() is    *)
(* one free block again.                                                   *)
WholeAgain ==
  (held = << >> /\ freep # NULL) =>
     /\ FreeBlocks = DOMAIN arenas \cup {base}
     /\ \A a \in DOMAIN arenas : size[a] = arenas[a]

(* The list implements the promise of malloc(). *)
Promise == INSTANCE Allocator WITH mapped <- HeapBegin .. brk - 1
ImplementsAllocator == Promise!Spec
=============================================================================
