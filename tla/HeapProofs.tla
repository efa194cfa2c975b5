------------------------------ MODULE HeapProofs ------------------------------
(***************************************************************************)
(* Proofs about module Heap, for every size of a unit, a page and the heap *)
(* area and for all requests: the free list is a circle in the order of    *)
(* the addresses, its blocks and the blocks of the program make up what    *)
(* came from sbrk(), and malloc() and free() keep what they promise.       *)
(***************************************************************************)
EXTENDS Heap, AscendingProofs

(* The search of a loop stops at the first of the turns that qualify.      *)
LEMMA LeastExists ==
  ASSUME NEW S, S \subseteq Nat, S # {}
  PROVE  Min(S) \in S /\ \A j \in S : Min(S) <= j
BY FirstExists DEF Min

(* Where a loop that begins at a and follows next is after k turns.        *)
IsWalk(f, a, next) == f = [k \in Nat |-> IF k = 0 THEN a ELSE next[f[k - 1]]]

(* A loop that follows the pointers of the list can be stated as a         *)
(* function of the number of its turns.                                    *)
LEMMA WalkExists ==
  ASSUME NEW a, NEW next
  PROVE  \E f : IsWalk(f, a, next)
<1> DEFINE Part(f, n) == f = [k \in 0 .. n |-> IF k = 0 THEN a ELSE next[f[k - 1]]]
<1>1. \A n \in Nat : \E f : Part(f, n)
  <2> DEFINE S == {n \in Nat : \E f : Part(f, n)}
  <2>1. 0 \in S
    <3>1. Part([k \in 0 .. 0 |-> a], 0)
      OBVIOUS
    <3> QED  BY <3>1
  <2>2. ASSUME NEW n \in S  PROVE n + 1 \in S
    <3>1. PICK f : Part(f, n)
      OBVIOUS
    <3>2. PICK g : g = [k \in 0 .. n + 1 |-> IF k = 0 THEN a ELSE next[f[k - 1]]]
      OBVIOUS
    <3>3. \A k \in 0 .. n : f[k] = IF k = 0 THEN a ELSE next[f[k - 1]]
      BY <3>1
    <3>4. \A k \in 0 .. n : g[k] = f[k]
      BY <3>2, <3>3
    <3>5. \A k \in 0 .. n + 1 : k # 0 => k - 1 \in 0 .. n
      OBVIOUS
    <3>6. Part(g, n + 1)
      BY <3>2, <3>4, <3>5
    <3> QED  BY <3>6
  <2> HIDE DEF S
  <2>3. S \subseteq Nat
    BY DEF S
  <2>4. \A n \in Nat : n \in S
    BY <2>1, <2>2, <2>3, AllNumbers
  <2> QED  BY <2>4 DEF S
<1>2. ASSUME NEW m \in Nat, NEW n \in Nat, n <= m,
             NEW f, NEW g, Part(f, m), Part(g, n)
      PROVE  \A k \in 0 .. n : f[k] = g[k]
  <2>1. \A k \in 0 .. m : f[k] = IF k = 0 THEN a ELSE next[f[k - 1]]
    BY <1>2
  <2>2. \A k \in 0 .. n : g[k] = IF k = 0 THEN a ELSE next[g[k - 1]]
    BY <1>2
  <2> DEFINE S == {k \in Nat : k <= n => f[k] = g[k]}
  <2> HIDE DEF Part
  <2>3. 0 \in S
    BY <2>1, <2>2
  <2>4. ASSUME NEW k \in S  PROVE k + 1 \in S
    <3>1. k + 1 \in Nat /\ k + 1 # 0 /\ (k + 1) - 1 = k /\ (k + 1 <= n => k <= n)
      OBVIOUS
    <3>2. k + 1 <= n => f[k + 1] = next[f[k]] /\ g[k + 1] = next[g[k]]
      BY <1>2, <2>1, <2>2, <3>1
    <3> QED  BY <3>1, <3>2
  <2> HIDE DEF S
  <2>5. S \subseteq Nat
    BY DEF S
  <2>6. \A k \in Nat : k \in S
    BY <2>3, <2>4, <2>5, AllNumbers
  <2> QED  BY <2>6 DEF S
<1> DEFINE Last(n) == CHOOSE f : Part(f, n)
<1>3. \A n \in Nat : Part(Last(n), n)
  BY <1>1
<1>4. PICK w : w = [n \in Nat |-> Last(n)[n]]
  OBVIOUS
<1>5. w[0] = a
  <2>1. Part(Last(0), 0)
    BY <1>3
  <2>2. Last(0)[0] = a
    <3> HIDE DEF Last
    <3> QED  BY <2>1
  <2> HIDE DEF Last, Part
  <2> QED  BY <1>4, <2>2
<1>6. ASSUME NEW n \in Nat \ {0}  PROVE w[n] = next[w[n - 1]]
  <2>1. /\ Part(Last(n), n) /\ Part(Last(n - 1), n - 1)
        /\ n - 1 \in Nat /\ n - 1 <= n /\ n - 1 \in 0 .. n - 1
    <3>1. n \in Nat /\ n - 1 \in Nat /\ n - 1 <= n /\ n - 1 \in 0 .. n - 1
      OBVIOUS
    <3> HIDE DEF Last, Part
    <3> QED  BY <1>3, <3>1
  <2>2. Last(n)[n - 1] = Last(n - 1)[n - 1]
    <3> HIDE DEF Last, Part
    <3>1. PICK l, k, f, g : l = n /\ k = n - 1 /\ f = Last(n) /\ g = Last(n - 1)
      OBVIOUS
    <3>2. /\ l \in Nat /\ k \in Nat /\ k <= l /\ k \in 0 .. k
          /\ Part(f, l) /\ Part(g, k)
      BY <2>1, <3>1
    <3>3. \A i \in 0 .. k : f[i] = g[i]
      BY ONLY <1>2, <3>2
    <3>4. f[k] = g[k]
      BY ONLY <3>2, <3>3
    <3> QED  BY ONLY <3>1, <3>4
  <2>3. Last(n)[n] = next[Last(n)[n - 1]]
    <3> HIDE DEF Last
    <3> QED  BY <2>1
  <2> QED  BY <1>4, <2>2, <2>3
<1>7. IsWalk(w, a, next)
  <2> HIDE DEF Last
  <2> QED  BY <1>4, <1>5, <1>6 DEF IsWalk
<1> QED  BY <1>7

(* The list as malloc() and free() walk it. *)
LEMMA NthStep ==
  ASSUME NEW h
  PROVE  /\ Nth(h)[0] = h.freep
         /\ \A k \in Nat : Nth(h)[k + 1] = h.ptr[Nth(h)[k]]
<1>1. \E f : IsWalk(f, h.freep, h.ptr)
  BY WalkExists
<1>2. PICK f : IsWalk(f, h.freep, h.ptr) /\ f = Nth(h)
  BY <1>1 DEF Nth, IsWalk
<1>3. f[0] = h.freep
  BY <1>2 DEF IsWalk
<1>4. ASSUME NEW k \in Nat  PROVE f[k + 1] = h.ptr[f[k]]
  <2>1. k + 1 \in Nat /\ k + 1 # 0 /\ (k + 1) - 1 = k
    OBVIOUS
  <2> QED  BY <1>2, <2>1 DEF IsWalk
<1> QED  BY <1>2, <1>3, <1>4

-----------------------------------------------------------------------------
(* The circle of the free blocks. *)

(* next leads from each block of F to the next higher one, and from the    *)
(* highest back to base, the lowest.                                       *)
Circle(next, F) ==
  /\ F \subseteq Addresses /\ base \in F
  /\ \A b \in F : next[b] \in F
  /\ \A b, c \in F : ~(b < c /\ c < next[b])
  /\ \A b \in F : next[b] <= b => \A c \in F : next[b] <= c /\ c <= b

(* What the circle says, in numbers.                                       *)
LEMMA CircleFacts ==
  ASSUME NEW next, NEW F, Circle(next, F)
  PROVE  /\ base = 0 /\ 0 \in F /\ HeapEnd \in Nat /\ Addresses = 0 .. HeapEnd
         /\ \A b \in F : b \in Addresses /\ b \in Nat /\ b <= HeapEnd
         /\ \A b \in F : next[b] \in F /\ next[b] \in Nat
         /\ \A b, c \in F : ~(b < c /\ c < next[b])
         /\ \A b, c \in F : next[b] <= b => next[b] = 0 /\ c <= b
<1>1. base = 0 /\ 0 \in F /\ HeapEnd \in Nat /\ Addresses = 0 .. HeapEnd
  BY HeapAssumption DEF Circle, Addresses, base
<1>2. \A b \in F : b \in Addresses /\ b \in Nat /\ b <= HeapEnd
  BY <1>1 DEF Circle
<1>3. \A b \in F : next[b] \in F /\ next[b] \in Nat
  BY <1>2 DEF Circle
<1>4. \A b, c \in F : ~(b < c /\ c < next[b])
  BY DEF Circle
<1>5. ASSUME NEW b \in F, next[b] <= b, NEW c \in F  PROVE next[b] = 0 /\ c <= b
  <2>1. next[b] <= 0 /\ c <= b
    BY <1>1, <1>5 DEF Circle
  <2> QED  BY <1>3, <2>1
<1> QED  BY <1>1, <1>2, <1>3, <1>4, <1>5

(* From any block the way to block c is never longer than once round, and  *)
(* every step shortens it.                                                 *)
Way(b, c) == IF b < c THEN c - b ELSE HeapEnd + 1 - b + c

(* A step of a loop through the list.                                      *)
LEMMA WayShortens ==
  ASSUME NEW next, NEW F, Circle(next, F), NEW b \in F, NEW c \in F
  PROVE  /\ Way(b, c) \in 1 .. HeapEnd + 1
         /\ next[b] = c \/ Way(next[b], c) < Way(b, c)
<1>1. b \in 0 .. HeapEnd /\ c \in 0 .. HeapEnd /\ next[b] \in F /\ next[b] \in 0 .. HeapEnd
  BY DEF Circle, Addresses, base
<1>2. Way(b, c) \in 1 .. HeapEnd + 1
  BY <1>1, HeapAssumption DEF Way
<1>3. CASE next[b] <= b
  <2>1. next[b] = 0 /\ c <= b
    BY <1>1, <1>3 DEF Circle, base
  <2> QED  BY <1>1, <1>2, <2>1, HeapAssumption DEF Way
<1>4. CASE next[b] > b
  <2>1. ~(b < c /\ c < next[b])
    BY DEF Circle
  <2> QED  BY <1>1, <1>2, <1>4, <2>1, HeapAssumption DEF Way
<1> QED  BY <1>1, <1>3, <1>4, HeapAssumption

(* The list that a header record describes is the circle of F.             *)
Listed(h, F) == Circle(h.ptr, F) /\ h.freep \in F

(* A loop through the list stays in it.                                    *)
LEMMA WalkStays ==
  ASSUME NEW h, NEW F, Listed(h, F)
  PROVE  \A k \in Nat : Nth(h)[k] \in F
<1> DEFINE S == {k \in Nat : Nth(h)[k] \in F}
<1>1. 0 \in S
  BY NthStep DEF Listed
<1>2. ASSUME NEW k \in S  PROVE k + 1 \in S
  BY NthStep DEF Listed, Circle
<1> HIDE DEF S
<1>3. \A k \in Nat : k \in S
  <2>1. S \subseteq Nat
    BY DEF S
  <2> QED  BY <1>1, <1>2, <2>1, AllNumbers
<1> QED  BY <1>3 DEF S

(* It comes by every block of the list, freep's too, on its first round.   *)
LEMMA WalkReaches ==
  ASSUME NEW h, NEW F, Listed(h, F), NEW c \in F
  PROVE  \E k \in Turns \ {0} : Nth(h)[k] = c
<1> DEFINE S == {k \in Nat : \/ \E j \in 1 .. k : Nth(h)[j] = c
                            \/ Way(Nth(h)[k], c) <= HeapEnd + 1 - k}
<1>1. 0 \in S
  <2>1. Nth(h)[0] \in F
    BY WalkStays
  <2>2. Way(Nth(h)[0], c) \in 1 .. HeapEnd + 1
    BY <2>1, WayShortens DEF Listed
  <2> QED  BY <2>2, HeapAssumption
<1>2. ASSUME NEW k \in S  PROVE k + 1 \in S
  <2>1. k \in Nat /\ k + 1 \in Nat /\ k + 1 \in 1 .. k + 1 /\ 1 .. k \subseteq 1 .. k + 1
    OBVIOUS
  <2>2. CASE \E j \in 1 .. k : Nth(h)[j] = c
    BY <2>1, <2>2
  <2>3. CASE Way(Nth(h)[k], c) <= HeapEnd + 1 - k
    <3>1. Nth(h)[k] \in F /\ Nth(h)[k + 1] \in F /\ Nth(h)[k + 1] = h.ptr[Nth(h)[k]]
      BY <2>1, WalkStays, NthStep
    <3>2. /\ Way(Nth(h)[k], c) \in 1 .. HeapEnd + 1
          /\ Way(Nth(h)[k + 1], c) \in 1 .. HeapEnd + 1
          /\ Nth(h)[k + 1] = c \/ Way(Nth(h)[k + 1], c) < Way(Nth(h)[k], c)
      BY <3>1, WayShortens DEF Listed
    <3>3. Nth(h)[k + 1] = c \/ Way(Nth(h)[k + 1], c) <= HeapEnd + 1 - (k + 1)
      BY <2>1, <2>3, <3>2, HeapAssumption
    <3> QED  BY <2>1, <3>3
  <2> QED  BY <2>2, <2>3
<1> HIDE DEF S
<1>3. HeapEnd + 1 \in S
  <2>1. S \subseteq Nat
    BY DEF S
  <2>2. \A k \in Nat : k \in S
    BY <1>1, <1>2, <2>1, AllNumbers
  <2> QED  BY <2>2, HeapAssumption
<1>4. Nth(h)[HeapEnd + 1] \in F
  BY WalkStays, HeapAssumption
<1>5. Way(Nth(h)[HeapEnd + 1], c) \in 1 .. HeapEnd + 1
  BY <1>4, WayShortens DEF Listed
<1>6. \E j \in 1 .. HeapEnd + 1 : Nth(h)[j] = c
  BY <1>3, <1>5, HeapAssumption DEF S
<1> QED  BY <1>6, HeapAssumption DEF Turns

(* One round of the list is all of it. *)
LEMMA OnceRoundIsAll ==
  ASSUME NEW h, NEW F, Listed(h, F)
  PROVE  /\ OnceRound(h) \subseteq Nat \ {0}
         /\ {Nth(h)[k] : k \in OnceRound(h)} = F
<1> DEFINE Home == {k \in Turns \ {0} : Nth(h)[k] = h.freep}
<1>1. Home \subseteq Nat /\ Home # {}
  <2>1. Turns \subseteq Nat
    BY HeapAssumption DEF Turns
  <2> QED  BY <2>1, WalkReaches DEF Listed
<1>2. PICK len : len = Min(Home)
  OBVIOUS
<1>3. len \in Nat \ {0} /\ Nth(h)[len] = h.freep
  <2> HIDE DEF Home
  <2>1. len \in Home
    BY <1>1, <1>2, LeastExists
  <2> QED  BY <1>1, <2>1 DEF Home
<1>4. OnceRound(h) = 1 .. len
  BY <1>2 DEF OnceRound
<1>5. \A k \in Nat : Nth(h)[len + k] = Nth(h)[k]
  <2> DEFINE S == {k \in Nat : Nth(h)[len + k] = Nth(h)[k]}
  <2>1. 0 \in S
    BY <1>3, NthStep
  <2>2. ASSUME NEW k \in S  PROVE k + 1 \in S
    <3>1. k \in Nat /\ len + k \in Nat /\ len + (k + 1) = (len + k) + 1
      BY <1>3
    <3>2. /\ Nth(h)[k + 1] = h.ptr[Nth(h)[k]]
          /\ Nth(h)[(len + k) + 1] = h.ptr[Nth(h)[len + k]]
      BY <3>1, NthStep
    <3> QED  BY <3>1, <3>2
  <2> HIDE DEF S
  <2>3. S \subseteq Nat
    BY DEF S
  <2>4. \A k \in Nat : k \in S
    BY <2>1, <2>2, <2>3, AllNumbers
  <2> QED  BY <2>4 DEF S
<1>6. ASSUME NEW c \in F  PROVE \E k \in 1 .. len : Nth(h)[k] = c
  <2> DEFINE At == {k \in Nat \ {0} : Nth(h)[k] = c}
  <2>1. At \subseteq Nat /\ At # {}
    <3>1. Turns \ {0} \subseteq Nat \ {0}
      BY HeapAssumption DEF Turns
    <3> QED  BY <3>1, WalkReaches
  <2>2. PICK k : k = Min(At)
    OBVIOUS
  <2>3. k \in At /\ \A j \in At : k <= j
    <3> HIDE DEF At
    <3> QED  BY <2>1, <2>2, LeastExists
  <2>4. k > len => k - len \in At
    <3>1. k > len => k - len \in Nat \ {0} /\ len + (k - len) = k
      BY <1>3, <2>3
    <3> QED  BY <1>5, <2>3, <3>1
  <2> QED  BY <1>3, <2>3, <2>4
<1> QED  BY <1>3, <1>4, <1>6, WalkStays

(* The block of the list behind which bp belongs is found, and it is the   *)
(* highest one below bp.                                                   *)
LEMMA PlaceFound ==
  ASSUME NEW h, NEW F, Listed(h, F), NEW bp \in Addresses, bp \notin F,
         NEW p, p = Nth(h)[Min({k \in Turns : Between(bp, Nth(h)[k], h.ptr[Nth(h)[k]])})]
  PROVE  /\ p \in F /\ p < bp
         /\ bp < h.ptr[p] \/ h.ptr[p] = base
         /\ \A c \in F : c < bp => c <= p
         /\ \A c \in F : c > p => h.ptr[p] <= c /\ h.ptr[p] > p
<1> PICK next : next = h.ptr
  OBVIOUS
<1>0. Circle(next, F)
  BY DEF Listed
<1>1. /\ base = 0 /\ 0 \in F /\ HeapEnd \in Nat
      /\ \A b \in F : b \in Nat /\ b <= HeapEnd
      /\ \A b \in F : next[b] \in F /\ next[b] \in Nat
      /\ \A b, c \in F : ~(b < c /\ c < next[b])
      /\ \A b, c \in F : next[b] <= b => next[b] = 0 /\ c <= b
  BY <1>0, CircleFacts
<1>1a. bp \in Nat /\ bp # 0 /\ bp <= HeapEnd
  BY <1>0, <1>1, CircleFacts
<1> DEFINE Below == {HeapEnd - c : c \in {c \in F : c < bp}}
           Places == {k \in Turns : Between(bp, Nth(h)[k], next[Nth(h)[k]])}
<1>2. \E q \in F : q < bp /\ \A c \in F : c < bp => c <= q
  <2>1. Below \subseteq Nat /\ Below # {}
    BY <1>1, <1>1a, HeapAssumption
  <2>2. PICK d : d = Min(Below)
    OBVIOUS
  <2>3. d \in Below /\ \A e \in Below : d <= e
    <3> HIDE DEF Below
    <3> QED  BY <2>1, <2>2, LeastExists
  <2>4. PICK q \in F : q < bp /\ d = HeapEnd - q
    BY <2>3
  <2>5. ASSUME NEW c \in F, c < bp  PROVE c <= q
    <3>1. c \in Nat /\ q \in Nat /\ HeapEnd \in Nat /\ HeapEnd - c \in Below
      BY <1>1, <2>4, <2>5
    <3>2. HeapEnd - q <= HeapEnd - c
      BY <2>3, <2>4, <3>1
    <3> QED  BY <3>1, <3>2
  <2> QED  BY <2>4, <2>5
<1>3. Places # {} /\ Places \subseteq Nat
  <2>1. PICK q \in F : q < bp /\ \A c \in F : c < bp => c <= q
    BY <1>2
  <2>2. PICK k \in Turns \ {0} : Nth(h)[k] = q
    BY WalkReaches
  <2>3. Between(bp, q, next[q])
    <3>1. next[q] \in F /\ next[q] # bp
      BY <1>1
    <3>2. next[q] > q => bp < next[q]
      BY <1>1, <1>1a, <2>1, <3>1
    <3> QED  BY <1>1, <1>1a, <2>1, <3>1, <3>2 DEF Between
  <2>4. Turns \subseteq Nat
    BY HeapAssumption DEF Turns
  <2> QED  BY <2>2, <2>3, <2>4
<1>4. PICK k : k = Min(Places)
  OBVIOUS
<1>5. k \in Places
  <2> HIDE DEF Places
  <2> QED  BY <1>3, <1>4, LeastExists
<1>6. p = Nth(h)[k] /\ k \in Nat /\ Between(bp, p, next[p])
  BY <1>3, <1>4, <1>5
<1>7. p \in F
  BY <1>6, WalkStays
<1>8. p < bp /\ (bp < next[p] \/ next[p] <= p)
  BY <1>1, <1>1a, <1>6, <1>7 DEF Between
<1>9. next[p] <= p => next[p] = base
  BY <1>1, <1>1a, <1>7
<1>10. ASSUME NEW c \in F, c < bp  PROVE c <= p
  <2>1. c \in Nat /\ p \in Nat /\ next[p] \in Nat
    BY <1>1, <1>7
  <2>2. ~(p < c /\ c < next[p]) /\ (next[p] <= p => c <= p)
    BY <1>1, <1>7
  <2>3. bp < next[p] => ~(p < c)
    BY <1>1a, <1>10, <2>1, <2>2
  <2>4. next[p] <= p => c <= p
    BY <2>2
  <2> QED  BY <1>8, <2>1, <2>3, <2>4
<1>11. ASSUME NEW c \in F, c > p  PROVE next[p] <= c /\ next[p] > p
  <2>1. c \in Nat /\ p \in Nat /\ next[p] \in Nat
    BY <1>1, <1>7
  <2>2. ~(p < c /\ c < next[p]) /\ (next[p] <= p => c <= p)
    BY <1>1, <1>7
  <2> QED  BY <1>11, <2>1, <2>2
<1> QED  BY <1>1, <1>1a, <1>7, <1>8, <1>9, <1>10, <1>11

(* A block is put into the circle behind p.                                *)
Linked(next, p, bp) == [next EXCEPT ![bp] = next[p], ![p] = bp]

(* Behind the block that precedes it, that leaves a circle.                *)
LEMMA CircleInsert ==
  ASSUME NEW next \in [Addresses -> Addresses \cup {NULL}], NEW F, Circle(next, F),
         NEW p \in F, NEW bp \in Addresses, bp \notin F, p < bp,
         \A c \in F : c < bp => c <= p,
         NEW new, new = Linked(next, p, bp)
  PROVE  /\ new \in [Addresses -> Addresses \cup {NULL}]
         /\ Circle(new, F \cup {bp})
<1>1. /\ base = 0 /\ 0 \in F /\ HeapEnd \in Nat /\ Addresses = 0 .. HeapEnd
      /\ \A b \in F : b \in Addresses /\ b \in Nat
      /\ \A b \in F : next[b] \in F /\ next[b] \in Nat
      /\ \A b, c \in F : ~(b < c /\ c < next[b])
      /\ \A b, c \in F : next[b] <= b => next[b] = 0 /\ c <= b
  BY CircleFacts
<1>2. /\ new[bp] = next[p] /\ new[p] = bp
      /\ \A b \in F : b # p => new[b] = next[b]
  BY <1>1 DEF Linked
<1>3. new \in [Addresses -> Addresses \cup {NULL}]
  BY <1>1 DEF Linked
<1>4. ASSUME NEW b \in F \cup {bp}, NEW c \in F \cup {bp}
      PROVE  /\ new[b] \in F \cup {bp}
             /\ ~(b < c /\ c < new[b])
             /\ new[b] <= b => new[b] <= c /\ c <= b
  <2>0. /\ b \in Nat /\ c \in Nat /\ bp \in Nat /\ p \in Nat /\ next[p] \in F
        /\ next[p] \in Nat /\ (c # bp => c \in F)
        /\ (c \in F /\ c < bp => c <= p) /\ (c \in F => ~(p < c /\ c < next[p]))
        /\ (c \in F /\ next[p] <= p => next[p] = 0 /\ c <= p)
    <3>1. b \in Nat /\ c \in Nat /\ bp \in Nat /\ p \in Nat
      <4>1. p \in Nat /\ bp \in Nat /\ \A x \in F : x \in Nat
        BY <1>1
      <4>2. b \in F \/ b = bp
        OBVIOUS
      <4>3. c \in F \/ c = bp
        OBVIOUS
      <4> QED  BY ONLY <4>1, <4>2, <4>3
    <3>2. next[p] \in F /\ next[p] \in Nat /\ (c # bp => c \in F)
      BY <1>1
    <3>3. (c \in F /\ c < bp => c <= p) /\ (c \in F => ~(p < c /\ c < next[p]))
      BY <1>1
    <3>4. c \in F /\ next[p] <= p => next[p] = 0 /\ c <= p
      BY <1>1
    <3> QED  BY ONLY <3>1, <3>2, <3>3, <3>4
  <2>1. CASE b = p
    <3>1. new[b] = bp /\ b < bp /\ bp \in F \cup {bp}
      BY <1>2, <2>1
    <3>2. ~(b < c /\ c < bp)
      BY <2>0, <2>1
    <3> QED  BY <2>0, <3>1, <3>2
  <2>2. CASE b = bp
    <3>1. new[b] = next[p]
      BY <1>2, <2>2
    <3>2. ~(bp < c /\ c < next[p])
      BY <2>0
    <3>3. next[p] <= bp => next[p] <= p
      <4>1. next[p] # bp
        BY <2>0
      <4>2. next[p] < bp => next[p] <= p
        BY <1>1
      <4> QED  BY <2>0, <4>1, <4>2
    <3>4. next[p] <= bp => next[p] <= c /\ c <= bp
      <4>1. next[p] <= p => next[p] = 0 /\ (c # bp => c <= p)
        BY <2>0, <1>1
      <4> QED  BY <2>0, <3>3, <4>1
    <3> QED  BY <2>0, <2>2, <3>1, <3>2, <3>4
  <2>3. CASE b \in F \ {p}
    <3>1. new[b] = next[b] /\ next[b] \in F
      BY <1>1, <1>2, <2>3
    <3>2. ~(b < bp /\ bp < next[b])
      <4>1. /\ b \in Nat /\ p \in Nat /\ bp \in Nat /\ next[b] \in Nat /\ b # p
            /\ ~(b < p /\ p < next[b])
        BY <1>1, <2>3
      <4>2. b < bp => b <= p
        BY <2>3
      <4> QED  BY <4>1, <4>2
    <3>3. next[b] <= b => bp < b
      <4>1. b \in Nat /\ p \in Nat /\ bp \in Nat /\ b # p /\ b # bp
        BY <1>1, <2>3
      <4>2. next[b] <= b => p <= b
        BY <1>1, <2>3
      <4>3. b < bp => b <= p
        BY <2>3
      <4> QED  BY <4>1, <4>2, <4>3
    <3>4. c \in F => ~(b < c /\ c < next[b])
      BY <1>1, <2>3
    <3>5. c \in F /\ next[b] <= b => next[b] <= c /\ c <= b
      <4> SUFFICES ASSUME c \in F, next[b] <= b  PROVE next[b] <= c /\ c <= b
        OBVIOUS
      <4>1. c \in Nat /\ next[b] = 0 /\ c <= b
        BY <1>1, <2>3
      <4> QED  BY <4>1
    <3>6. next[b] <= b => next[b] <= bp
      <4>1. next[b] <= b => next[b] = 0
        BY <1>1, <2>3
      <4> QED  BY <1>1, <4>1
    <3>7. CASE c = bp
      BY <1>1, <2>3, <3>1, <3>2, <3>3, <3>6, <3>7
    <3> QED  BY <3>1, <3>4, <3>5, <3>7
  <2> QED  BY <2>1, <2>2, <2>3
<1> QED  BY <1>1, <1>3, <1>4 DEF Circle

(* A block is taken out of the circle; its predecessor takes its pointer.  *)
Unlinked(next, p, x) == [next EXCEPT ![p] = next[x], ![x] = NULL]

(* That leaves a circle, without the block.                                *)
LEMMA CircleRemove ==
  ASSUME NEW next \in [Addresses -> Addresses \cup {NULL}], NEW F, Circle(next, F),
         NEW p \in F, NEW x \in F, next[p] = x, x # base,
         NEW new, new = Unlinked(next, p, x)
  PROVE  /\ new \in [Addresses -> Addresses \cup {NULL}]
         /\ Circle(new, F \ {x}) /\ p \in F \ {x} /\ p < x
<1>1. /\ base = 0 /\ 0 \in F /\ HeapEnd \in Nat /\ Addresses = 0 .. HeapEnd
      /\ \A b \in F : b \in Addresses /\ b \in Nat
      /\ \A b \in F : next[b] \in F /\ next[b] \in Nat
      /\ \A b, c \in F : ~(b < c /\ c < next[b])
      /\ \A b, c \in F : next[b] <= b => next[b] = 0 /\ c <= b
  BY CircleFacts
<1>2. p < x /\ next[x] # x
  BY <1>1
<1>3. \A b \in F : next[b] = x => b = p
  BY <1>1, <1>2
<1>4. /\ new[p] = next[x]
      /\ \A b \in F : b # p /\ b # x => new[b] = next[b]
  BY <1>1, <1>2 DEF Unlinked
<1>5. new \in [Addresses -> Addresses \cup {NULL}]
  BY <1>1 DEF Unlinked
<1>6. ASSUME NEW b \in F \ {x}, NEW c \in F \ {x}
      PROVE  /\ new[b] \in F \ {x}
             /\ ~(b < c /\ c < new[b])
             /\ new[b] <= b => new[b] <= c /\ c <= b
  <2>1. CASE b = p
    <3>1. new[b] = next[x] /\ next[x] \in F /\ next[x] # x
      BY <1>1, <1>2, <1>4, <2>1
    <3>2. c < x => c <= p
      BY <1>1, <1>2
    <3>3. c > x => ~(c < next[x])
      BY <1>1
    <3>4. ~(p < c /\ c < next[x])
      BY <1>1, <1>2, <3>2, <3>3
    <3>5. next[x] <= p => next[x] = 0 /\ c <= x
      <4>1. x \in Nat /\ p \in Nat /\ next[x] \in Nat
        BY <1>1
      <4>2. next[x] <= x => next[x] = 0 /\ c <= x
        BY <1>1
      <4> QED  BY <1>2, <4>1, <4>2
    <3>6. next[x] <= p => next[x] <= c /\ c <= p
      BY <1>1, <1>2, <3>2, <3>5
    <3> QED  BY <2>1, <3>1, <3>4, <3>6
  <2>2. CASE b # p
    <3>1. new[b] = next[b] /\ next[b] \in F \ {x}
      BY <1>1, <1>3, <1>4, <2>2
    <3>2. ~(b < c /\ c < next[b])
      BY <1>1
    <3>3. next[b] <= b => next[b] <= c /\ c <= b
      BY <1>1
    <3> QED  BY <3>1, <3>2, <3>3
  <2> QED  BY <2>1, <2>2
<1> QED  BY <1>1, <1>2, <1>5, <1>6 DEF Circle

-----------------------------------------------------------------------------
(* The blocks, free and held, and the arenas they are made of. *)

Within(u, a, n) == a <= u /\ u < a + n

(* The blocks B, of the lengths len, do not overlap and cover exactly what *)
(* the arenas ar cover, below top.                                         *)
Laid(len, B, ar, top) ==
  /\ \A b \in B : /\ b \in Nat /\ HeapBegin <= b
                  /\ len[b] \in Nat \ {0} /\ b + len[b] <= top
  /\ \A b, c \in B : b < c => b + len[b] <= c
  /\ \A u \in Nat : (\E b \in B : Within(u, b, len[b]))
                      <=> (\E a \in DOMAIN ar : Within(u, a, ar[a]))

(* No two arenas touch: the kernel maps more than morecore() asked for.    *)
Apart(ar, top) ==
  /\ \A a \in DOMAIN ar : /\ a \in Nat /\ HeapBegin <= a
                          /\ ar[a] \in Nat \ {0} /\ a + ar[a] < top
  /\ \A a, c \in DOMAIN ar : a < c => a + ar[a] < c

Lengths  == [Addresses -> 0 .. HeapEnd]
Pointers == [Addresses -> Addresses \cup {NULL}]

(* Two blocks side by side become one.                                     *)
Merged(len, x, y) == [len EXCEPT ![x] = len[x] + len[y], ![y] = 0]

(* They cover what they covered.                                           *)
LEMMA LaidJoin ==
  ASSUME NEW len \in Lengths, NEW B, NEW ar, NEW top \in 0 .. HeapEnd, Laid(len, B, ar, top),
         NEW x \in B, NEW y \in B, x + len[x] = y,
         NEW new, new = Merged(len, x, y)
  PROVE  new \in Lengths /\ Laid(new, B \ {y}, ar, top)
<1>1. HeapEnd \in Nat /\ Addresses = 0 .. HeapEnd
  BY HeapAssumption DEF Addresses, base
<1>2. /\ \A b \in B : b \in Nat /\ HeapBegin <= b /\ len[b] \in Nat \ {0} /\ b + len[b] <= top
      /\ \A b, c \in B : b < c => b + len[b] <= c
      /\ HeapBegin \in Nat \ {0}
  BY HeapAssumption DEF Laid
<1>3. \A b \in B : b \in Addresses
  BY <1>1, <1>2
<1>4. /\ x \in Nat /\ y \in Nat /\ len[x] \in Nat \ {0} /\ len[y] \in Nat \ {0}
      /\ x \in Addresses /\ y \in Addresses /\ x # y /\ y + len[y] <= top
  BY <1>2, <1>3
<1>5. /\ new[x] = len[x] + len[y] /\ new[y] = 0
      /\ \A b \in Addresses \ {x, y} : new[b] = len[b]
      /\ \A b \in B \ {x, y} : new[b] = len[b]
  <2>1. DOMAIN len = Addresses
    BY DEF Lengths
  <2> QED  BY <1>3, <1>4, <2>1 DEF Merged
<1>6. new \in Lengths
  <2>1. len[x] + len[y] \in 0 .. HeapEnd /\ 0 \in 0 .. HeapEnd
    BY <1>1, <1>4
  <2> HIDE DEF Addresses
  <2> QED  BY <2>1 DEF Lengths, Merged
<1>7. ASSUME NEW b \in B \ {y}
      PROVE  /\ b \in Nat /\ HeapBegin <= b
             /\ new[b] \in Nat \ {0} /\ b + new[b] <= top
  <2>1. CASE b = x
    BY <1>2, <1>4, <1>5, <2>1
  <2>2. CASE b # x
    BY <1>2, <1>5, <2>2
  <2> QED  BY <2>1, <2>2
<1>8. ASSUME NEW b \in B \ {y}, NEW c \in B \ {y}, b < c
      PROVE  b + new[b] <= c
  <2>1. /\ b \in Nat /\ c \in Nat /\ len[b] \in Nat /\ len[c] \in Nat
        /\ b + len[b] <= c /\ (y < c => y + len[y] <= c) /\ (c < y => c + len[c] <= y)
    BY <1>2, <1>8
  <2>2. CASE b = x
    BY <1>2, <1>4, <1>5, <2>1, <2>2
  <2>3. CASE b # x
    BY <1>5, <2>1, <2>3
  <2> QED  BY <2>2, <2>3
<1>9. ASSUME NEW u \in Nat
      PROVE  (\E b \in B \ {y} : Within(u, b, new[b])) <=> (\E b \in B : Within(u, b, len[b]))
  <2>1. Within(u, x, new[x]) <=> Within(u, x, len[x]) \/ Within(u, y, len[y])
    BY <1>4, <1>5 DEF Within
  <2>2. \A b \in B \ {x, y} : Within(u, b, new[b]) <=> Within(u, b, len[b])
    BY <1>5
  <2> QED  BY <1>4, <2>1, <2>2
<1>10. \A u \in Nat : (\E b \in B \ {y} : Within(u, b, new[b]))
                        <=> (\E a \in DOMAIN ar : Within(u, a, ar[a]))
  BY <1>9 DEF Laid
<1> QED  BY <1>6, <1>7, <1>8, <1>10 DEF Laid

(* The upper end of a block, from y on, becomes a block of its own.        *)
Cut(len, x, y, n) == [len EXCEPT ![x] = len[x] - n, ![y] = n]

(* Both cover what the block covered.                                      *)
LEMMA LaidSplit ==
  ASSUME NEW len \in Lengths, NEW B, NEW ar, NEW top \in 0 .. HeapEnd, Laid(len, B, ar, top),
         NEW x \in B, NEW n \in Nat \ {0}, n < len[x], NEW y, y = x + len[x] - n,
         NEW new, new = Cut(len, x, y, n)
  PROVE  new \in Lengths /\ Laid(new, B \cup {y}, ar, top) /\ y \notin B /\ y \in Addresses
<1>1. HeapEnd \in Nat /\ Addresses = 0 .. HeapEnd
  BY HeapAssumption DEF Addresses, base
<1>2. /\ \A b \in B : b \in Nat /\ HeapBegin <= b /\ len[b] \in Nat \ {0} /\ b + len[b] <= top
      /\ \A b, c \in B : b < c => b + len[b] <= c
      /\ HeapBegin \in Nat \ {0}
  BY HeapAssumption DEF Laid
<1>3. \A b \in B : b \in Addresses
  BY <1>1, <1>2
<1>4. /\ x \in Nat /\ y \in Nat /\ len[x] \in Nat \ {0} /\ x < y /\ HeapBegin <= y
      /\ x \in Addresses /\ y \in Addresses /\ y + n = x + len[x] /\ x + len[x] <= top
      /\ len[x] - n \in Nat \ {0}
  <2>1. PICK l : l = len[x]
    OBVIOUS
  <2>2. /\ x \in Nat /\ l \in Nat \ {0} /\ HeapBegin <= x /\ HeapBegin \in Nat
        /\ x + l <= top /\ top \in Nat /\ top <= HeapEnd /\ x \in Addresses
    BY <1>1, <1>2, <1>3, <2>1
  <2>3. n \in Nat \ {0} /\ n < l /\ y = x + l - n
    BY <2>1
  <2>4. /\ y \in Nat /\ x < y /\ HeapBegin <= y /\ y <= HeapEnd /\ y + n = x + l
        /\ l - n \in Nat \ {0}
    BY ONLY <1>1, <2>2, <2>3
  <2>5. y \in Addresses
    BY ONLY <1>1, <2>4
  <2> QED  BY ONLY <2>1, <2>2, <2>4, <2>5
<1>5. ASSUME NEW b \in B, b # x
      PROVE  /\ b # y /\ b \in Nat /\ len[b] \in Nat \ {0}
             /\ (b < x /\ b + len[b] <= x) \/ (x < b /\ y + n <= b)
  BY <1>2, <1>4, <1>5
<1>6. y \notin B
  BY <1>4, <1>5
<1>7. /\ new[x] = len[x] - n /\ new[y] = n
      /\ \A b \in B \ {x} : new[b] = len[b]
  <2>1. DOMAIN len = Addresses
    BY DEF Lengths
  <2> QED  BY <1>3, <1>4, <1>6, <2>1 DEF Cut
<1>8. new \in Lengths
  <2>1. len[x] - n \in 0 .. HeapEnd /\ n \in 0 .. HeapEnd
    BY <1>1, <1>4
  <2> HIDE DEF Addresses
  <2> QED  BY <2>1 DEF Lengths, Cut
<1>9. ASSUME NEW b \in B \cup {y}
      PROVE  /\ b \in Nat /\ HeapBegin <= b
             /\ new[b] \in Nat \ {0} /\ b + new[b] <= top
  <2>1. CASE b = x
    BY <1>2, <1>4, <1>7, <2>1
  <2>2. CASE b \in B \ {x}
    BY <1>2, <1>7, <2>2
  <2>3. CASE b = y
    BY <1>4, <1>7, <2>3
  <2> QED  BY <2>1, <2>2, <2>3
<1>10. ASSUME NEW b \in B \cup {y}, NEW c \in B \cup {y}, b < c
       PROVE  b + new[b] <= c
  <2>1. CASE b \in B \ {x} /\ c \in B
    BY <1>2, <1>7, <1>10, <2>1
  <2>2. CASE b \in B \ {x} /\ c = y
    <3>1. /\ b \in Nat /\ len[b] \in Nat /\ new[b] = len[b]
          /\ (b + len[b] <= x) \/ (y + n <= b)
      BY <1>5, <1>7, <2>2
    <3> QED  BY <1>4, <1>10, <2>2, <3>1
  <2>3. CASE b = x /\ c \in B
    <3>1. y + n <= c
      BY <1>4, <1>5, <1>10, <2>3
    <3> QED  BY <1>4, <1>5, <1>7, <2>3, <3>1
  <2>4. CASE b = x /\ c = y
    BY <1>4, <1>7, <2>4
  <2>5. CASE b = y
    <3>1. c \in B \ {x} /\ c > y
      BY <1>4, <1>10, <2>5
    <3>2. y + n <= c
      BY <1>4, <1>5, <3>1
    <3> QED  BY <1>7, <2>5, <3>2
  <2> QED  BY <2>1, <2>2, <2>3, <2>4, <2>5
<1>11. ASSUME NEW u \in Nat
       PROVE  (\E b \in B \cup {y} : Within(u, b, new[b])) <=> (\E b \in B : Within(u, b, len[b]))
  <2>1. Within(u, x, len[x]) <=> Within(u, x, new[x]) \/ Within(u, y, new[y])
    BY <1>4, <1>7 DEF Within
  <2>2. \A b \in B \ {x} : Within(u, b, new[b]) <=> Within(u, b, len[b])
    BY <1>7
  <2> QED  BY <1>4, <1>6, <2>1, <2>2
<1>12. \A u \in Nat : (\E b \in B \cup {y} : Within(u, b, new[b]))
                        <=> (\E a \in DOMAIN ar : Within(u, a, ar[a]))
  BY <1>11 DEF Laid
<1> QED  BY <1>4, <1>6, <1>8, <1>9, <1>10, <1>12 DEF Laid

(* What is so when an arena of m units has been laid at top.               *)
Grown(len, new, B, ar, top, m, end) ==
  /\ new \in Lengths /\ top \in Addresses /\ top # base
  /\ Laid(new, B \cup {top}, Put(ar, top, m), end)
  /\ Apart(Put(ar, top, m), end)
  /\ \A b \in B : b # top /\ new[b] = len[b]

(* sbrk() adds an arena that ends below the new end of the heap area.      *)
LEMMA LaidGrow ==
  ASSUME NEW len \in Lengths, NEW B, NEW ar, NEW top \in HeapBegin .. HeapEnd,
         Laid(len, B, ar, top), Apart(ar, top),
         NEW m \in Nat \ {0}, NEW end \in 0 .. HeapEnd, top + m < end,
         NEW new, new = [len EXCEPT ![top] = m]
  PROVE  Grown(len, new, B, ar, top, m, end)
<1>1. /\ HeapEnd \in Nat /\ Addresses = 0 .. HeapEnd /\ base = 0 /\ HeapBegin \in Nat \ {0}
      /\ top \in Nat /\ end \in Nat /\ HeapBegin <= top /\ top <= HeapEnd
  BY HeapAssumption DEF Addresses, base
<1>2. \A b \in B : b \in Nat /\ HeapBegin <= b /\ len[b] \in Nat \ {0} /\ b + len[b] <= top
  BY DEF Laid
<1>3. top \in Addresses /\ top # base /\ \A b \in B : b # top /\ b < top /\ b \in Addresses
  BY <1>1, <1>2
<1>4. /\ new[top] = m /\ new \in [Addresses -> Nat]
      /\ \A b \in B : new[b] = len[b]
  <2>1. len \in [Addresses -> 0 .. HeapEnd] /\ 0 .. HeapEnd \subseteq Nat
    BY <1>1 DEF Lengths
  <2>2. len \in [Addresses -> Nat]
    BY <2>1
  <2>3. new[top] = m /\ new \in [Addresses -> Nat]
    BY <1>3, <2>2
  <2> QED  BY <1>3, <2>2, <2>3
<1>5. new \in Lengths
  <2>1. len \in [Addresses -> 0 .. HeapEnd]
    BY DEF Lengths
  <2>2. m \in 0 .. HeapEnd
    BY <1>1
  <2>3. new \in [Addresses -> 0 .. HeapEnd]
    BY <2>1, <2>2
  <2> QED  BY <2>3 DEF Lengths
<1>6. PICK more : more = Put(ar, top, m)
  OBVIOUS
<1>7. /\ DOMAIN more = DOMAIN ar \cup {top} /\ more[top] = m
      /\ \A a \in DOMAIN ar : a # top => more[a] = ar[a]
  BY <1>6 DEF Put
<1>8. \A a \in DOMAIN ar : a \in Nat /\ HeapBegin <= a /\ ar[a] \in Nat \ {0} /\ a + ar[a] < top
  BY DEF Apart
<1>9. \A a \in DOMAIN ar : a < top /\ a # top /\ more[a] = ar[a]
  BY <1>1, <1>7, <1>8
<1>10. Apart(more, end)
  <2>1. ASSUME NEW a \in DOMAIN more
        PROVE  a \in Nat /\ HeapBegin <= a /\ more[a] \in Nat \ {0} /\ a + more[a] < end
    <3>1. CASE a = top
      BY <1>1, <1>7, <3>1
    <3>2. CASE a \in DOMAIN ar
      BY <1>1, <1>8, <1>9, <3>2
    <3> QED  BY <1>7, <3>1, <3>2
  <2>2. ASSUME NEW a \in DOMAIN more, NEW c \in DOMAIN more, a < c
        PROVE  a + more[a] < c
    <3>1. CASE a = top
      BY <1>1, <1>7, <1>8, <1>9, <2>2, <3>1
    <3>2. CASE a \in DOMAIN ar /\ c = top
      BY <1>8, <1>9, <3>2
    <3>3. CASE a \in DOMAIN ar /\ c \in DOMAIN ar
      BY <1>9, <2>2, <3>3 DEF Apart
    <3> QED  BY <1>7, <3>1, <3>2, <3>3
  <2> QED  BY <2>1, <2>2 DEF Apart
<1>11. Laid(new, B \cup {top}, more, end)
  <2>1. ASSUME NEW b \in B \cup {top}
        PROVE  /\ b \in Nat /\ HeapBegin <= b
               /\ new[b] \in Nat \ {0} /\ b + new[b] <= end
    <3>1. CASE b = top
      BY <1>1, <1>4, <3>1
    <3>2. CASE b \in B
      BY <1>1, <1>2, <1>4, <3>2
    <3> QED  BY <3>1, <3>2
  <2>2. ASSUME NEW b \in B \cup {top}, NEW c \in B \cup {top}, b < c
        PROVE  b + new[b] <= c
    <3>1. CASE b = top
      BY <1>1, <1>3, <2>2, <3>1
    <3>2. CASE b \in B /\ c = top
      BY <1>2, <1>4, <3>2
    <3>3. CASE b \in B /\ c \in B
      BY <1>4, <2>2, <3>3 DEF Laid
    <3> QED  BY <3>1, <3>2, <3>3
  <2>3. ASSUME NEW u \in Nat
        PROVE  (\E b \in B \cup {top} : Within(u, b, new[b]))
                 <=> (\E a \in DOMAIN more : Within(u, a, more[a]))
    <3>1. (\E b \in B : Within(u, b, len[b])) <=> (\E a \in DOMAIN ar : Within(u, a, ar[a]))
      BY DEF Laid
    <3>2. (\E b \in B : Within(u, b, len[b])) <=> (\E b \in B : Within(u, b, new[b]))
      BY <1>4
    <3>3. (\E a \in DOMAIN ar : Within(u, a, ar[a])) <=> (\E a \in DOMAIN ar : Within(u, a, more[a]))
      BY <1>9
    <3>4. Within(u, top, new[top]) <=> Within(u, top, more[top])
      BY <1>4, <1>7
    <3> QED  BY <1>7, <3>1, <3>2, <3>3, <3>4
  <2> QED  BY <2>1, <2>2, <2>3 DEF Laid
<1> QED  BY <1>3, <1>4, <1>5, <1>6, <1>10, <1>11 DEF Grown

-----------------------------------------------------------------------------
(* What malloc() and free() keep. *)

(* F are the free blocks with base, H the blocks the program holds.        *)
Kept(next, len, F, H, ar, top) ==
  /\ next \in Pointers /\ len \in Lengths /\ top \in HeapBegin .. HeapEnd
  /\ Circle(next, F) /\ len[base] = 0
  /\ F \cap H = {} /\ base \notin H
  /\ Laid(len, (F \ {base}) \cup H, ar, top)
  /\ Apart(ar, top)

(* No free block ends where a free block begins; one may be excepted.      *)
Settled(len, F, but) == \A b \in F \ ({base} \cup but) : b + len[b] \notin F

(* The blocks are where there are headers.                                 *)
LEMMA BlocksAreAddresses ==
  ASSUME NEW next, NEW len, NEW F, NEW H, NEW ar, NEW top, Kept(next, len, F, H, ar, top)
  PROVE  /\ base = 0 /\ DOMAIN len = Addresses /\ DOMAIN next = Addresses
         /\ \A b \in F : b \in Addresses /\ b \in Nat
         /\ \A b \in H : b \in Addresses /\ b \in Nat /\ b # base /\ len[b] \in Nat \ {0}
         /\ \A b \in F \ {base} : len[b] \in Nat \ {0}
<1>1. /\ Circle(next, F) /\ Laid(len, (F \ {base}) \cup H, ar, top) /\ base = 0
      /\ top \in HeapBegin .. HeapEnd /\ Addresses = 0 .. HeapEnd
      /\ DOMAIN len = Addresses /\ DOMAIN next = Addresses
  BY DEF Kept, base, Lengths, Pointers, Addresses
<1>2. \A b \in F : b \in Addresses /\ b \in Nat
  BY <1>1, CircleFacts
<1>3. \A b \in (F \ {base}) \cup H : /\ b \in Nat /\ HeapBegin <= b
                                     /\ len[b] \in Nat \ {0} /\ b + len[b] <= top
  BY <1>1 DEF Laid
<1>4. ASSUME NEW b \in H
      PROVE  b \in Addresses /\ b \in Nat /\ b # base /\ len[b] \in Nat \ {0}
  <2>1. b \in Nat /\ HeapBegin <= b /\ len[b] \in Nat \ {0} /\ b + len[b] <= top
    BY <1>3
  <2> QED  BY <1>1, <2>1, HeapAssumption
<1> QED  BY <1>1, <1>2, <1>3, <1>4

(* The free block that begins where a free block ends is its successor.    *)
LEMMA NextDoor ==
  ASSUME NEW next, NEW len, NEW F, NEW H, NEW ar, NEW top, Kept(next, len, F, H, ar, top),
         NEW b \in F \ {base}, b + len[b] \in F
  PROVE  b + len[b] = next[b] /\ next[b] \in F \ {base} /\ b < next[b]
<1>1. Circle(next, F) /\ Laid(len, (F \ {base}) \cup H, ar, top) /\ base = 0
  BY DEF Kept, base
<1>2. PICK c : c = b + len[b]
  OBVIOUS
<1>3. b \in Nat /\ len[b] \in Nat \ {0} /\ c \in F /\ c \in Nat /\ b < c
  <2>1. b \in Nat /\ len[b] \in Nat \ {0}
    BY <1>1 DEF Laid
  <2> QED  BY <1>2, <2>1
<1>4. next[b] \in F /\ next[b] \in Nat /\ ~(b < c /\ c < next[b]) /\ (next[b] <= b => c <= b)
  BY <1>1, <1>3, CircleFacts
<1>5. b < next[b] /\ next[b] <= c
  BY <1>3, <1>4
<1>6. next[b] \in F \ {base}
  BY <1>1, <1>3, <1>4, <1>5
<1>7. c <= next[b]
  BY <1>1, <1>2, <1>5, <1>6 DEF Laid
<1> QED  BY <1>2, <1>3, <1>4, <1>5, <1>6, <1>7

(* What changes when a free block takes in the one behind it.              *)
LEMMA JoinFacts ==
  ASSUME NEW next, NEW len, NEW F, NEW H, NEW ar, NEW top, Kept(next, len, F, H, ar, top),
         NEW x \in F \ {base}, x + len[x] = next[x]
  PROVE  LET y    == next[x]
             len2 == Merged(len, x, y)
         IN  /\ x \in F \ {y} /\ x < y /\ y \in F \ {base}
             /\ len2[base] = 0 /\ len2[x] = len[x] + len[y]
             /\ \A b \in (F \cup H) \ {x, y} : len2[b] = len[b]
<1>1. PICK y, len2 : y = next[x] /\ x + len[x] = y /\ len2 = Merged(len, x, y)
  OBVIOUS
<1>2. y \in F
  BY <1>1 DEF Kept, Circle
<1>3. y \in F \ {base} /\ x < y /\ x \in F \ {y}
  <2>1. y \in F \ {base} /\ x < y
    BY <1>1, <1>2, NextDoor
  <2> QED  BY <2>1, BlocksAreAddresses
<1>4. /\ DOMAIN len = Addresses /\ \A b \in F \cup H : b \in Addresses
      /\ base \in F /\ len[base] = 0
  BY BlocksAreAddresses DEF Kept, Circle
<1>5. /\ len2[base] = 0 /\ len2[x] = len[x] + len[y]
      /\ \A b \in (F \cup H) \ {x, y} : len2[b] = len[b]
  BY <1>1, <1>3, <1>4 DEF Merged
<1> QED  BY <1>1, <1>3, <1>5

(* A free block takes in the one that begins where it ends.                *)
LEMMA JoinKept ==
  ASSUME NEW next, NEW len, NEW F, NEW H, NEW ar, NEW top, Kept(next, len, F, H, ar, top),
         NEW x \in F \ {base}, x + len[x] = next[x]
  PROVE  LET y == next[x]
         IN  Kept(Unlinked(next, x, y), Merged(len, x, y), F \ {y}, H, ar, top)
<1>1. PICK y, next2, len2 : /\ y = next[x] /\ x + len[x] = y
                           /\ next2 = Unlinked(next, x, y) /\ len2 = Merged(len, x, y)
  OBVIOUS
<1>2. /\ Circle(next, F) /\ Laid(len, (F \ {base}) \cup H, ar, top)
      /\ next \in Pointers /\ len \in Lengths /\ top \in HeapBegin .. HeapEnd
      /\ HeapBegin \in Nat \ {0}
  BY HeapAssumption DEF Kept
<1>3. y \in F \ {base} /\ len2[base] = 0
  BY <1>1, JoinFacts
<1>4. next2 \in Pointers /\ Circle(next2, F \ {y})
  <2>1. next \in [Addresses -> Addresses \cup {NULL}]
    BY <1>2 DEF Pointers
  <2>2. x \in F /\ y \in F /\ next[x] = y /\ y # base
    BY <1>1, <1>3
  <2>3. /\ next2 \in [Addresses -> Addresses \cup {NULL}]
        /\ Circle(next2, F \ {y})
    <3>1. Circle(next, F) /\ next2 = Unlinked(next, x, y)
      BY <1>1, <1>2
    <3> QED  BY ONLY <2>1, <2>2, <3>1, CircleRemove
  <2> QED  BY <2>3 DEF Pointers
<1>5. /\ len2 \in Lengths
      /\ Laid(len2, ((F \ {base}) \cup H) \ {y}, ar, top)
  <2>1. top \in 0 .. HeapEnd
    BY <1>2
  <2>2. x \in (F \ {base}) \cup H /\ y \in (F \ {base}) \cup H
    BY <1>3
  <2> QED  BY <1>1, <1>2, <2>1, <2>2, LaidJoin
<1>6. ((F \ {base}) \cup H) \ {y} = ((F \ {y}) \ {base}) \cup H
  BY <1>3 DEF Kept
<1>7. Kept(next2, len2, F \ {y}, H, ar, top)
  BY <1>2, <1>3, <1>4, <1>5, <1>6 DEF Kept
<1> QED  BY <1>1, <1>7

(* A block that was held goes into the list, not yet joined with others.   *)
LEMMA InsertKept ==
  ASSUME NEW next, NEW len, NEW F, NEW H, NEW ar, NEW top, Kept(next, len, F, H, ar, top),
         NEW bp \in H, NEW p \in F, p < bp, \A c \in F : c < bp => c <= p,
         NEW next2, next2 = Linked(next, p, bp)
  PROVE  Kept(next2, len, F \cup {bp}, H \ {bp}, ar, top)
<1>1. bp \in Addresses /\ bp \notin F /\ bp # base
  <2>1. bp \in (F \ {base}) \cup H /\ len \in Lengths /\ top \in HeapBegin .. HeapEnd
    BY DEF Kept
  <2>2. bp \in Nat /\ HeapBegin <= bp /\ len[bp] \in Nat \ {0} /\ bp + len[bp] <= top
    BY <2>1 DEF Kept, Laid
  <2> QED  BY <2>1, <2>2, HeapAssumption DEF Kept, Addresses, base
<1>2. next2 \in Pointers /\ Circle(next2, F \cup {bp})
  BY <1>1, CircleInsert DEF Kept, Pointers
<1>3. ((F \cup {bp}) \ {base}) \cup (H \ {bp}) = (F \ {base}) \cup H
  BY <1>1
<1> QED  BY <1>1, <1>2, <1>3 DEF Kept

(* x takes in y if y begins where x ends.                                  *)
JoinedIfNext(next, len, x, y, next2, len2) ==
  IF x + len[x] = y
  THEN next2 = Unlinked(next, x, y) /\ len2 = Merged(len, x, y)
  ELSE next2 = next /\ len2 = len

(* The fields of a header record. *)
Fields == {"freep", "ptr", "size"}

(* free() joins in three steps: bp goes behind p, takes in its successor   *)
(* if that begins where bp ends, and is taken in by p if it begins where   *)
(* p ends.                                                                 *)
LEMMA JoinedInSteps ==
  ASSUME NEW h, DOMAIN h = Fields, h.ptr \in Pointers, h.size \in Lengths,
         NEW p \in Addresses, NEW bp \in Addresses, p # bp,
         NEW next \in Addresses, next = h.ptr[p], next # bp,
         bp + h.size[bp] = next => next # p,
         NEW ptr1, ptr1 = Linked(h.ptr, p, bp),
         NEW ptr2, NEW len2,
         JoinedIfNext(ptr1, h.size, bp, next, ptr2, len2),
         NEW ptr3, NEW len3,
         JoinedIfNext(ptr2, len2, p, bp, ptr3, len3),
         NEW new, new = Joined(h, p, bp)
  PROVE  /\ DOMAIN new = Fields /\ new.freep = h.freep
         /\ new.ptr = ptr3 /\ new.size = len3
<1> DEFINE up == IF bp + h.size[bp] = next
                 THEN [Forget(h, next) EXCEPT !.size[bp] = @ + h.size[next],
                                              !.ptr[bp] = h.ptr[next]]
                 ELSE [h EXCEPT !.ptr[bp] = next]
<1>0. /\ IF bp + h.size[bp] = next
         THEN ptr2 = Unlinked(ptr1, bp, next) /\ len2 = Merged(h.size, bp, next)
         ELSE ptr2 = ptr1 /\ len2 = h.size
      /\ IF p + len2[p] = bp
         THEN ptr3 = Unlinked(ptr2, p, bp) /\ len3 = Merged(len2, p, bp)
         ELSE ptr3 = ptr2 /\ len3 = len2
  BY DEF JoinedIfNext
<1>1. PICK u : u = up
  <2> HIDE DEF up
  <2> QED  OBVIOUS
<1>2. /\ DOMAIN u = Fields /\ u.freep = h.freep /\ u.size = len2
      /\ u.ptr \in Pointers
      /\ ptr2 = [u.ptr EXCEPT ![p] = bp]
  <2>1. CASE bp + h.size[bp] = next
    <3>1. PICK f : f = Forget(h, next)
      OBVIOUS
    <3>2. /\ DOMAIN f = Fields /\ f.freep = h.freep
          /\ f.ptr = [h.ptr EXCEPT ![next] = NULL]
          /\ f.size = [h.size EXCEPT ![next] = 0]
      <4>1. DOMAIN f = Fields /\ f.freep = h.freep
        BY <3>1 DEF Forget, Fields
      <4>2. f.ptr = [h.ptr EXCEPT ![next] = NULL]
        BY <3>1 DEF Forget, Fields
      <4>3. f.size = [h.size EXCEPT ![next] = 0]
        BY <3>1 DEF Forget, Fields
      <4> QED  BY <4>1, <4>2, <4>3
    <3>3. u = [f EXCEPT !.size[bp] = @ + h.size[next], !.ptr[bp] = h.ptr[next]]
      BY <1>1, <2>1, <3>1
    <3> HIDE DEF up
    <3>4. DOMAIN u = Fields /\ u.freep = h.freep
      BY <3>2, <3>3 DEF Fields
    <3>5. u.size = [f.size EXCEPT ![bp] = f.size[bp] + h.size[next]]
      BY <3>2, <3>3 DEF Fields
    <3>6. u.ptr = [f.ptr EXCEPT ![bp] = h.ptr[next]]
      BY <3>2, <3>3 DEF Fields
    <3>7. u.size = len2
      BY <1>0, <2>1, <3>2, <3>5 DEF Lengths, Merged
    <3>8. u.ptr \in Pointers
      BY <3>2, <3>6 DEF Pointers
    <3>9. ptr2 = [u.ptr EXCEPT ![p] = bp]
      BY <1>0, <2>1, <3>2, <3>6 DEF Pointers, Linked, Unlinked
    <3> QED  BY <3>4, <3>7, <3>8, <3>9
  <2>2. CASE bp + h.size[bp] # next
    <3>1. u = [h EXCEPT !.ptr[bp] = next]
      BY <1>1, <2>2
    <3> HIDE DEF up
    <3>2. DOMAIN u = Fields /\ u.freep = h.freep /\ u.size = h.size
      BY <3>1 DEF Fields
    <3>3. u.ptr = [h.ptr EXCEPT ![bp] = next]
      BY <3>1 DEF Fields
    <3>4. u.ptr \in Pointers
      BY <3>3 DEF Pointers
    <3>5. ptr2 = [u.ptr EXCEPT ![p] = bp]
      BY <1>0, <2>2, <3>3 DEF Pointers, Linked
    <3> QED  BY <1>0, <2>2, <3>2, <3>4, <3>5
  <2> QED  BY <2>1, <2>2
<1>3. new = IF p + u.size[p] = bp
            THEN [Forget(u, bp) EXCEPT !.size[p] = @ + u.size[bp], !.ptr[p] = u.ptr[bp]]
            ELSE [u EXCEPT !.ptr[p] = bp]
  BY <1>1 DEF Joined
<1> HIDE DEF up
<1>4. CASE p + len2[p] = bp
  <2>1. PICK f : f = Forget(u, bp)
    OBVIOUS
  <2>2. /\ DOMAIN f = Fields /\ f.freep = u.freep
        /\ f.ptr = [u.ptr EXCEPT ![bp] = NULL]
        /\ f.size = [u.size EXCEPT ![bp] = 0]
    <3>1. DOMAIN f = Fields /\ f.freep = u.freep
      BY <1>2, <2>1 DEF Forget, Fields
    <3>2. f.ptr = [u.ptr EXCEPT ![bp] = NULL]
      BY <1>2, <2>1 DEF Forget, Fields
    <3>3. f.size = [u.size EXCEPT ![bp] = 0]
      BY <1>2, <2>1 DEF Forget, Fields
    <3> QED  BY <3>1, <3>2, <3>3
  <2>3. new = [f EXCEPT !.size[p] = @ + u.size[bp], !.ptr[p] = u.ptr[bp]]
    BY <1>0, <1>2, <1>3, <1>4, <2>1
  <2>4. DOMAIN new = Fields /\ new.freep = h.freep
    BY <1>2, <2>2, <2>3 DEF Fields
  <2>5. new.size = [f.size EXCEPT ![p] = f.size[p] + u.size[bp]]
    BY <2>2, <2>3 DEF Fields
  <2>6. new.ptr = [f.ptr EXCEPT ![p] = u.ptr[bp]]
    BY <2>2, <2>3 DEF Fields
  <2>7. DOMAIN len2 = Addresses
    BY <1>0 DEF Merged, Lengths
  <2>8. new.size = len3
    BY <1>0, <1>2, <1>4, <2>2, <2>5, <2>7 DEF Merged
  <2>9. new.ptr = ptr3
    BY <1>0, <1>2, <1>4, <2>2, <2>6 DEF Pointers, Linked, Unlinked
  <2> QED  BY <2>4, <2>8, <2>9
<1>5. CASE p + len2[p] # bp
  <2>1. new = [u EXCEPT !.ptr[p] = bp]
    BY <1>2, <1>3, <1>5
  <2>2. DOMAIN new = Fields /\ new.freep = u.freep /\ new.size = u.size
    BY <1>2, <2>1 DEF Fields
  <2>3. new.ptr = [u.ptr EXCEPT ![p] = bp]
    BY <1>2, <2>1 DEF Fields
  <2> QED  BY <1>0, <1>2, <1>5, <2>2, <2>3
<1> QED  BY <1>4, <1>5

-----------------------------------------------------------------------------
(* free() and malloc() on a header record. *)

Sound(h, F, H, ar, top) ==
  /\ DOMAIN h = Fields
  /\ Kept(h.ptr, h.size, F, H, ar, top)
  /\ h.freep \in F
  /\ Settled(h.size, F, {})

(* p is the block of F behind which bp belongs. *)
Precedes(F, p, bp) == p \in F /\ p < bp /\ \A c \in F : c < bp => c <= p

(* Where free() is after its first step, ... *)
JoinedUp(next, len, G, I, ar, top, p, bp, before) ==
  /\ Kept(next, len, G, I, ar, top)
  /\ p \in G /\ bp \in G /\ next[p] = bp
  /\ Settled(len, G, {p})
  /\ len[bp] >= before[bp]
  /\ \A c \in I : len[c] = before[c]

(* ... and after its second.                                               *)
JoinedBoth(next, len, G, I, ar, top, p, bp, before) ==
  /\ Kept(next, len, G, I, ar, top)
  /\ p \in G /\ Settled(len, G, {})
  /\ \E b \in G : len[b] >= before[bp]
  /\ \A c \in I : len[c] = before[c]

(* The first step of free(): bp goes into the list and takes in what       *)
(* begins where it ends.                                                   *)
LEMMA JoinUpKept ==
  ASSUME NEW next, NEW len, NEW F, NEW H, NEW ar, NEW top, Kept(next, len, F, H, ar, top),
         Settled(len, F, {}), NEW bp \in H, NEW p, Precedes(F, p, bp),
         NEW ptr1, ptr1 = Linked(next, p, bp),
         NEW ptr2, NEW len2,
         JoinedIfNext(ptr1, len, bp, next[p], ptr2, len2)
  PROVE  /\ \E G : JoinedUp(ptr2, len2, G, H \ {bp}, ar, top, p, bp, len)
         /\ bp + len[bp] = next[p] => next[p] # p
<1>0. p \in F /\ p < bp /\ \A c \in F : c < bp => c <= p
  BY DEF Precedes
<1>1. Kept(ptr1, len, F \cup {bp}, H \ {bp}, ar, top)
  BY <1>0, InsertKept
<1>2. /\ base = 0 /\ DOMAIN next = Addresses
      /\ bp \in Addresses /\ bp \in Nat /\ bp # base /\ len[bp] \in Nat \ {0}
      /\ \A b \in F : b \in Addresses /\ b \in Nat
      /\ \A b \in F \ {base} : len[b] \in Nat \ {0}
      /\ bp \notin F
  <2>1. bp \notin F
    BY DEF Kept
  <2> QED  BY <2>1, BlocksAreAddresses
<1>3. /\ ptr1[bp] = next[p] /\ ptr1[p] = bp
      /\ \A b \in F \ {p} : ptr1[b] = next[b]
  BY <1>0, <1>2 DEF Linked
<1>4. \A b \in F : next[b] \in F
  BY DEF Kept, Circle
<1>5. \A b \in F \ {base} : b + len[b] \notin F
  BY DEF Settled
<1>6a. ASSUME NEW b \in (F \cup {bp}) \ {base}, b + len[b] \in F \cup {bp}
       PROVE  b + len[b] = ptr1[b]
  <2>1. PICK G : G = F \cup {bp}
    OBVIOUS
  <2>2. Kept(ptr1, len, G, H \ {bp}, ar, top) /\ b \in G \ {base} /\ b + len[b] \in G
    BY <1>1, <1>6a, <2>1
  <2> QED  BY <2>2, NextDoor
<1>6. \A b \in F \ {base, p} : b + len[b] # bp
  <2>1. ASSUME NEW b \in F \ {base, p}, b + len[b] = bp  PROVE FALSE
    <3>1. b \in (F \cup {bp}) \ {base} /\ b + len[b] \in F \cup {bp}
      BY <2>1
    <3>2. b + len[b] = ptr1[b]
      BY <3>1, <1>6a
    <3> QED  BY <1>0, <1>2, <1>3, <1>4, <2>1, <3>2
  <2> QED  BY <2>1
<1>7. CASE bp + len[bp] = next[p]
  <2>1. PICK y : y = next[p]
    OBVIOUS
  <2>2. /\ bp \in (F \cup {bp}) \ {base} /\ ptr1[bp] = y /\ bp + len[bp] = y
        /\ ptr2 = Unlinked(ptr1, bp, y)
        /\ len2 = Merged(len, bp, y)
    BY <1>0, <1>2, <1>3, <1>7, <2>1 DEF JoinedIfNext
  <2>3. /\ Kept(ptr2, len2, (F \cup {bp}) \ {y}, H \ {bp}, ar, top)
        /\ bp < y /\ y \in (F \cup {bp}) \ {base}
        /\ len2[bp] = len[bp] + len[y]
        /\ \A b \in ((F \cup {bp}) \cup (H \ {bp})) \ {bp, y} : len2[b] = len[b]
    <3>1. PICK G, I : G = F \cup {bp} /\ I = H \ {bp}
      OBVIOUS
    <3>2. Kept(ptr1, len, G, I, ar, top) /\ bp \in G \ {base}
      BY <1>1, <2>2, <3>1
    <3>3. /\ Kept(ptr2, len2, G \ {y}, I, ar, top)
          /\ bp < y /\ y \in G \ {base}
          /\ len2[bp] = len[bp] + len[y]
          /\ \A b \in (G \cup I) \ {bp, y} : len2[b] = len[b]
      <4>1. Kept(ptr2, len2, G \ {y}, I, ar, top)
        BY <2>2, <3>2, JoinKept
      <4>2. /\ bp < y /\ y \in G \ {base}
            /\ len2[bp] = len[bp] + len[y]
            /\ \A b \in (G \cup I) \ {bp, y} : len2[b] = len[b]
        BY <2>2, <3>2, JoinFacts
      <4> QED  BY <4>1, <4>2
    <3> QED  BY <3>1, <3>3
  <2>4. y \in F \ {base} /\ y \in Nat /\ len[y] \in Nat \ {0} /\ p \in Nat /\ p # y
    BY <1>0, <1>2, <2>3
  <2>5. ptr2[p] = bp
    BY <1>0, <1>2, <1>3, <2>2, <2>4, <1>1, BlocksAreAddresses DEF Unlinked
  <2>6. Settled(len2, (F \cup {bp}) \ {y}, {p})
    <3>1. ASSUME NEW b \in ((F \cup {bp}) \ {y}) \ ({base} \cup {p})
          PROVE  b + len2[b] \notin (F \cup {bp}) \ {y}
      <4>1. CASE b = bp
        <5>1. b + len2[b] = y + len[y]
          BY <1>0, <1>2, <2>2, <2>3, <2>4, <4>1
        <5>2. y + len[y] \notin F /\ y + len[y] # bp
          BY <1>0, <1>2, <1>5, <2>3, <2>4
        <5> QED  BY <5>1, <5>2
      <4>2. CASE b \in F
        <5>1. len2[b] = len[b] /\ b \in F \ {base, p}
          BY <1>0, <1>2, <2>3, <4>2
        <5> QED  BY <1>5, <1>6, <5>1
      <4> QED  BY <4>1, <4>2
    <3> QED  BY <3>1 DEF Settled
  <2>7. len2[bp] >= len[bp]
    BY <1>0, <1>2, <2>3, <2>4
  <2>8. \A c \in H \ {bp} : len2[c] = len[c]
    <3>1. y \notin H
      BY <2>4 DEF Kept
    <3> QED  BY <2>3, <3>1
  <2>9. p \in (F \cup {bp}) \ {y} /\ bp \in (F \cup {bp}) \ {y}
    BY <1>0, <1>2, <2>4
  <2> QED  BY <2>1, <2>3, <2>4, <2>5, <2>6, <2>7, <2>8, <2>9 DEF JoinedUp
<1>8. CASE bp + len[bp] # next[p]
  <2>1. ptr2 = ptr1 /\ len2 = len
    BY <1>8 DEF JoinedIfNext
  <2>2. Settled(len2, F \cup {bp}, {p})
    <3>1. ASSUME NEW b \in (F \cup {bp}) \ ({base} \cup {p})
          PROVE  b + len[b] \notin F \cup {bp}
      <4>1. CASE b = bp
        <5>1. ASSUME bp + len[bp] \in F \cup {bp}  PROVE bp + len[bp] = ptr1[bp]
          <6>1. bp \in (F \cup {bp}) \ {base}
            BY <1>0, <1>2
          <6> QED  BY <1>6a, <5>1, <6>1
        <5> QED  BY <1>3, <1>8, <4>1, <5>1
      <4>2. CASE b \in F
        BY <1>5, <1>6, <4>2
      <4> QED  BY <4>1, <4>2
    <3> QED  BY <2>1, <3>1 DEF Settled
  <2>3. len2[bp] >= len[bp]
    BY <1>0, <1>2, <2>1
  <2> QED  BY <1>0, <1>1, <1>3, <1>8, <2>1, <2>2, <2>3 DEF JoinedUp
<1> QED  BY <1>7, <1>8

(* The second step of free(): bp is taken in by p if it begins where p     *)
(* ends.                                                                   *)
LEMMA JoinDownKept ==
  ASSUME NEW next, NEW len, NEW F, NEW H, NEW ar, NEW top, Kept(next, len, F, H, ar, top),
         NEW p \in F, NEW bp \in F, bp # base, next[p] = bp, Settled(len, F, {p}),
         NEW ptr2, NEW len2,
         JoinedIfNext(next, len, p, bp, ptr2, len2)
  PROVE  \E G : JoinedBoth(ptr2, len2, G, H, ar, top, p, bp, len)
<1>1. /\ base = 0 /\ \A b \in F : b \in Addresses /\ b \in Nat
      /\ \A b \in F \ {base} : len[b] \in Nat \ {0}
  BY BlocksAreAddresses
<1>2. /\ len[base] = 0 /\ F \cap H = {}
      /\ \A b \in F \ {base, p} : b + len[b] \notin F
  BY DEF Settled, Kept
<1>3. CASE p + len[p] = bp
  <2>1. p \in F \ {base}
    BY <1>1, <1>2, <1>3
  <2>2. /\ Kept(ptr2, len2, F \ {bp}, H, ar, top)
        /\ p \in F \ {bp} /\ p < bp
        /\ len2[p] = len[p] + len[bp]
        /\ \A b \in (F \cup H) \ {p, bp} : len2[b] = len[b]
    <3>1. ptr2 = Unlinked(next, p, bp) /\ len2 = Merged(len, p, bp)
      BY <1>3 DEF JoinedIfNext
    <3>2. Kept(ptr2, len2, F \ {bp}, H, ar, top)
      BY <1>3, <2>1, <3>1, JoinKept
    <3>3. /\ p \in F \ {bp} /\ p < bp
          /\ len2[p] = len[p] + len[bp]
          /\ \A b \in (F \cup H) \ {p, bp} : len2[b] = len[b]
      BY <1>3, <2>1, <3>1, JoinFacts
    <3> QED  BY <3>2, <3>3
  <2>3. /\ bp + len[bp] \notin F /\ p + len2[p] = bp + len[bp] /\ len2[p] >= len[bp]
    <3>1. bp \in F \ {base, p} /\ p \in Nat /\ len[p] \in Nat /\ len[bp] \in Nat
      BY <1>1, <2>1, <2>2
    <3> QED  BY <1>2, <1>3, <2>2, <3>1
  <2>4. ASSUME NEW b \in (F \ {bp}) \ ({base} \cup {})
        PROVE  b + len2[b] \notin F \ {bp}
    <3>1. CASE b = p
      BY <2>3, <3>1
    <3>2. CASE b # p
      BY <1>2, <2>2, <3>2
    <3> QED  BY <3>1, <3>2
  <2>5. \A c \in H : len2[c] = len[c]
    BY <1>2, <2>1, <2>2
  <2>6. Settled(len2, F \ {bp}, {})
    BY <2>4 DEF Settled
  <2> QED  BY <2>2, <2>3, <2>5, <2>6 DEF JoinedBoth
<1>4. CASE p + len[p] # bp
  <2>1. ptr2 = next /\ len2 = len
    BY <1>4 DEF JoinedIfNext
  <2>2. p # base => p + len[p] \notin F
    BY <1>4, NextDoor
  <2>3. Settled(len, F, {})
    BY <1>2, <2>2 DEF Settled
  <2>4. len[bp] >= len[bp]
    BY <1>1
  <2> QED  BY <2>1, <2>3, <2>4 DEF JoinedBoth
<1> QED  BY <1>3, <1>4

(* free() gives a block of the program back to the list, joined with what  *)
(* lies beside it.                                                         *)
LEMMA FreeKept ==
  ASSUME NEW h, NEW F, NEW H, NEW ar, NEW top, Sound(h, F, H, ar, top),
         NEW bp \in H, NEW new, new = free(h, bp)
  PROVE  \E G : /\ Sound(new, G, H \ {bp}, ar, top)
                /\ \A c \in H \ {bp} : new.size[c] = h.size[c]
                /\ \E b \in G : new.size[b] >= h.size[bp]
<1>1. /\ DOMAIN h = Fields /\ Kept(h.ptr, h.size, F, H, ar, top)
      /\ h.freep \in F /\ Settled(h.size, F, {}) /\ Listed(h, F)
      /\ h.ptr \in Pointers /\ h.size \in Lengths /\ bp \notin F
  BY DEF Sound, Kept, Listed
<1>2. /\ base = 0 /\ bp \in Addresses /\ bp \in Nat /\ h.size[bp] \in Nat \ {0}
      /\ \A b \in F : b \in Addresses /\ b \in Nat
  BY <1>1, BlocksAreAddresses
<1>3. PICK p : p = Nth(h)[Min({k \in Turns : Between(bp, Nth(h)[k], h.ptr[Nth(h)[k]])})]
  OBVIOUS
<1>4. p \in F /\ p < bp /\ Precedes(F, p, bp)
  BY <1>1, <1>2, <1>3, PlaceFound DEF Precedes
<1>5. h.ptr[p] \in F
  BY <1>1, <1>4 DEF Kept, Circle
<1>6. PICK ptr1, ptr2, len2 : /\ ptr1 = Linked(h.ptr, p, bp)
                              /\ JoinedIfNext(ptr1, h.size, bp, h.ptr[p], ptr2, len2)
  <2>1. PICK ptr1 : ptr1 = Linked(h.ptr, p, bp)
    OBVIOUS
  <2>2. \E ptr2, len2 : JoinedIfNext(ptr1, h.size, bp, h.ptr[p], ptr2, len2)
    BY DEF JoinedIfNext
  <2> QED  BY <2>1, <2>2
<1>7. PICK ptr3, len3 : JoinedIfNext(ptr2, len2, p, bp, ptr3, len3)
  BY DEF JoinedIfNext
<1>8. PICK G2 : JoinedUp(ptr2, len2, G2, H \ {bp}, ar, top, p, bp, h.size)
  BY <1>1, <1>4, <1>6, JoinUpKept
<1>8a. /\ Kept(ptr2, len2, G2, H \ {bp}, ar, top)
       /\ p \in G2 /\ bp \in G2 /\ ptr2[p] = bp
       /\ Settled(len2, G2, {p})
       /\ len2[bp] >= h.size[bp]
       /\ \A c \in H \ {bp} : len2[c] = h.size[c]
  BY <1>8 DEF JoinedUp
<1>8b. bp + h.size[bp] = h.ptr[p] => h.ptr[p] # p
  BY <1>1, <1>4, <1>6, JoinUpKept
<1>9. PICK G : JoinedBoth(ptr3, len3, G, H \ {bp}, ar, top, p, bp, len2)
  <2>1. bp # base
    BY <1>1, BlocksAreAddresses
  <2> QED  BY <1>7, <1>8a, <2>1, JoinDownKept
<1>9a. /\ Kept(ptr3, len3, G, H \ {bp}, ar, top)
       /\ p \in G /\ Settled(len3, G, {})
       /\ \E b \in G : len3[b] >= len2[bp]
       /\ \A c \in H \ {bp} : len3[c] = len2[c]
  BY <1>9 DEF JoinedBoth
<1>10. PICK joined : joined = Joined(h, p, bp)
  OBVIOUS
<1>11. DOMAIN joined = Fields /\ joined.freep = h.freep /\ joined.ptr = ptr3 /\ joined.size = len3
  <2>1. /\ p \in Addresses /\ p # bp /\ h.ptr[p] \in Addresses /\ h.ptr[p] # bp
    BY <1>1, <1>2, <1>4, <1>5
  <2>2. PICK next : next = h.ptr[p]
    OBVIOUS
  <2>3. /\ next \in Addresses /\ next # bp /\ (bp + h.size[bp] = next => next # p)
        /\ JoinedIfNext(ptr1, h.size, bp, next, ptr2, len2)
    BY <1>6, <1>8b, <2>1, <2>2
  <2>4. /\ DOMAIN h = Fields /\ h.ptr \in Pointers /\ h.size \in Lengths
        /\ p \in Addresses /\ bp \in Addresses /\ p # bp /\ next = h.ptr[p]
        /\ ptr1 = Linked(h.ptr, p, bp) /\ JoinedIfNext(ptr2, len2, p, bp, ptr3, len3)
        /\ joined = Joined(h, p, bp)
    BY <1>1, <1>2, <1>6, <1>7, <1>10, <2>1, <2>2
  <2> QED  BY ONLY <2>3, <2>4, JoinedInSteps
<1>12. new = [joined EXCEPT !.freep = p]
  BY <1>3, <1>10 DEF free
<1>13. DOMAIN new = Fields /\ new.freep = p /\ new.ptr = ptr3 /\ new.size = len3
  BY <1>11, <1>12 DEF Fields
<1>14. \E b \in G : len3[b] >= h.size[bp]
  <2>1. PICK b \in G : len3[b] >= len2[bp]
    BY <1>9a
  <2>2. len2[bp] \in Nat /\ len3[b] \in Nat /\ h.size[bp] \in Nat
    <3>1. HeapEnd \in Nat /\ len2 \in Lengths /\ len3 \in Lengths
      BY <1>8a, <1>9a, HeapAssumption DEF Kept
    <3>2. b \in Addresses
      BY <1>9a, BlocksAreAddresses
    <3>3. len2[bp] \in 0 .. HeapEnd /\ len3[b] \in 0 .. HeapEnd
      BY <1>2, <3>1, <3>2 DEF Lengths
    <3> QED  BY <1>2, <3>1, <3>3
  <2> QED  BY <1>8a, <2>1, <2>2
<1>15. Sound(new, G, H \ {bp}, ar, top)
  BY <1>9a, <1>13 DEF Sound
<1> QED  BY <1>8a, <1>9a, <1>13, <1>14, <1>15

(* malloc() takes a block that is long enough out of the list, or cuts its *)
(* upper end off.                                                          *)
LEMMA TakenKept ==
  ASSUME NEW h, NEW F, NEW H, NEW ar, NEW top, Sound(h, F, H, ar, top),
         NEW n \in Nat \ {0}, NEW q \in F, NEW p, p = h.ptr[q], h.size[p] >= n,
         NEW new, new = Taken(h, q, p, n), NEW a, a = TakenAt(h, p, n)
  PROVE  \E G : /\ Sound(new, G, H \cup {a}, ar, top)
                /\ a \notin H /\ new.size[a] = n
                /\ \A c \in H : new.size[c] = h.size[c]
<1>1. /\ DOMAIN h = Fields /\ Kept(h.ptr, h.size, F, H, ar, top)
      /\ h.freep \in F /\ Settled(h.size, F, {})
      /\ h.ptr \in Pointers /\ h.size \in Lengths /\ h.size[base] = 0
      /\ Circle(h.ptr, F) /\ Laid(h.size, (F \ {base}) \cup H, ar, top)
      /\ F \cap H = {} /\ base \notin H
      /\ Apart(ar, top) /\ top \in HeapBegin .. HeapEnd
  BY DEF Sound, Kept
<1>2. /\ base = 0 /\ DOMAIN h.size = Addresses
      /\ \A b \in F : b \in Addresses /\ b \in Nat
      /\ \A b \in H : b \in Addresses /\ b \in Nat
      /\ \A b \in F \ {base} : h.size[b] \in Nat \ {0}
  BY <1>1, BlocksAreAddresses
<1>3. p \in F \ {base} /\ p \in Nat /\ h.size[p] \in Nat \ {0} /\ p \notin H
  <2>1. p \in F
    BY <1>1 DEF Circle
  <2>2. p # base
    BY <1>1
  <2> QED  BY <1>1, <1>2, <2>1, <2>2
<1>4. CASE h.size[p] = n
  <2>1. a = p
    BY <1>4 DEF TakenAt
  <2>2. new = [h EXCEPT !.ptr = [@ EXCEPT ![q] = h.ptr[p], ![p] = NULL], !.freep = q]
    BY <1>4 DEF Taken
  <2>3. DOMAIN new = Fields /\ new.freep = q /\ new.size = h.size
    BY <1>1, <2>2 DEF Fields
  <2>4. new.ptr = Unlinked(h.ptr, q, p)
    BY <1>1, <2>2 DEF Fields, Unlinked
  <2>5. /\ new.ptr \in Pointers
        /\ Circle(new.ptr, F \ {p}) /\ q \in F \ {p}
    <3>1. PICK next, next2 : next = h.ptr /\ next2 = Unlinked(next, q, p)
      OBVIOUS
    <3>2. next \in [Addresses -> Addresses \cup {NULL}] /\ Circle(next, F) /\ next[q] = p
      BY <1>1, <3>1 DEF Pointers
    <3>3. /\ next2 \in [Addresses -> Addresses \cup {NULL}]
          /\ Circle(next2, F \ {p}) /\ q \in F \ {p}
      BY <1>3, <3>1, <3>2, CircleRemove
    <3> QED  BY <2>4, <3>1, <3>3 DEF Pointers
  <2>6. ((F \ {p}) \ {base}) \cup (H \cup {a}) = (F \ {base}) \cup H
    BY <1>3, <2>1
  <2>7. Kept(new.ptr, new.size, F \ {p}, H \cup {a}, ar, top)
    <3>1. (F \ {p}) \cap (H \cup {a}) = {} /\ base \notin H \cup {a}
      BY <1>1, <1>3, <2>1
    <3> QED  BY <1>1, <2>3, <2>5, <2>6, <3>1 DEF Kept
  <2>8. Settled(new.size, F \ {p}, {})
    BY <1>1, <2>3 DEF Settled
  <2> QED  BY <1>3, <1>4, <2>1, <2>3, <2>5, <2>7, <2>8 DEF Sound
<1>5. CASE h.size[p] # n
  <2>1. a = p + h.size[p] - n /\ n < h.size[p]
    BY <1>3, <1>5 DEF TakenAt
  <2>2. new = [h EXCEPT !.size[p] = @ - n, !.size[p + h.size[p] - n] = n, !.freep = q]
    BY <1>5 DEF Taken
  <2>3. DOMAIN new = Fields /\ new.freep = q /\ new.ptr = h.ptr
    BY <1>1, <2>2 DEF Fields
  <2>4. new.size = [h.size EXCEPT ![p] = h.size[p] - n, ![a] = n]
    <3>1. new.size = [h.size EXCEPT ![p] = h.size[p] - n, ![p + h.size[p] - n] = n]
      BY <1>1, <2>2 DEF Fields
    <3> QED  BY <2>1, <3>1
  <2>5. /\ new.size \in Lengths /\ a \in Addresses
        /\ Laid(new.size, ((F \ {base}) \cup H) \cup {a}, ar, top)
        /\ a \notin (F \ {base}) \cup H
    <3>1. PICK len, len2, B : /\ len = h.size /\ B = (F \ {base}) \cup H
                              /\ len2 = Cut(len, p, a, n)
      OBVIOUS
    <3>2. /\ len \in Lengths /\ Laid(len, B, ar, top) /\ p \in B
          /\ n < len[p] /\ a = p + len[p] - n /\ top \in 0 .. HeapEnd
          /\ len2 = Cut(len, p, a, n)
      BY <1>1, <1>3, <2>1, <3>1, HeapAssumption
    <3>3. len2 \in Lengths /\ Laid(len2, B \cup {a}, ar, top) /\ a \notin B /\ a \in Addresses
      BY <3>2, LaidSplit
    <3> QED  BY <2>4, <3>1, <3>3 DEF Cut
  <2>6. a # base /\ a # p /\ a \notin F /\ a \notin H
    <3>1. a > p /\ a # base
      BY <1>2, <1>3, <2>1
    <3> QED  BY <1>3, <2>5, <3>1
  <2>7. /\ new.size[a] = n /\ new.size[p] = h.size[p] - n
        /\ \A b \in F \cup H : b # p => new.size[b] = h.size[b]
    BY <1>2, <1>3, <2>4, <2>5, <2>6
  <2>8. (F \ {base}) \cup (H \cup {a}) = ((F \ {base}) \cup H) \cup {a}
    OBVIOUS
  <2>9. Kept(new.ptr, new.size, F, H \cup {a}, ar, top)
    <3>1. F \cap (H \cup {a}) = {} /\ base \notin H \cup {a}
      BY <1>1, <2>6
    <3>2. new.size[base] = 0
      BY <1>1, <1>3, <2>7 DEF Circle
    <3> QED  BY <1>1, <2>3, <2>5, <2>8, <3>1, <3>2 DEF Kept
  <2>10. Settled(new.size, F, {})
    <3>1. ASSUME NEW b \in F \ ({base} \cup {})  PROVE b + new.size[b] \notin F
      <4>1. CASE b = p
        <5>1. b + new.size[b] = a
          BY <1>3, <2>1, <2>7, <4>1
        <5> QED  BY <2>6, <5>1
      <4>2. CASE b # p
        BY <1>1, <2>7, <4>2 DEF Settled
      <4> QED  BY <4>1, <4>2
    <3> QED  BY <3>1 DEF Settled
  <2>11. \A c \in H : new.size[c] = h.size[c]
    BY <1>3, <2>7
  <2> QED  BY <2>3, <2>6, <2>7, <2>9, <2>10, <2>11 DEF Sound
<1> QED  BY <1>4, <1>5

-----------------------------------------------------------------------------
(* The steps of the specification. *)

(* The header records of the state: the blocks are the list's and the      *)
(* program's, and a block of the program has the units it was asked for.   *)
SoundHeap(F) ==
  /\ Sound(Headers, F, HeldBlocks, arenas, brk)
  /\ \A a \in DOMAIN held : /\ a \in Nat /\ held[a] \in Requests
                            /\ size[a - 1] = nunits(held[a])

NotStarted ==
  /\ freep = NULL /\ ptr \in Pointers /\ size \in Lengths
  /\ brk = HeapBegin /\ arenas = << >> /\ held = << >>

HeapInv == NotStarted \/ \E F : SoundHeap(F)

(* Units of a request, of morecore() and of its pages.                     *)
LEMMA UnitCounts ==
  ASSUME NEW nbytes \in Requests, NEW n, n = nunits(nbytes), NEW m, m = MoreUnits(n)
  PROVE  /\ n \in Nat \ {0} /\ m \in Nat \ {0} /\ n <= m
         /\ PagesFor(m) * PageUnits \in Nat
         /\ m < PagesFor(m) * PageUnits
<1>1. nbytes \in Nat /\ UnitBytes \in Nat \ {0} /\ PageUnits \in Nat \ {0} /\ NALLOC \in Nat \ {0}
  BY HeapAssumption
<1>2. n \in Nat \ {0}
  <2>1. nbytes + UnitBytes - 1 \in Nat
    BY <1>1
  <2>2. (nbytes + UnitBytes - 1) \div UnitBytes \in Nat
    BY <1>1, <2>1
  <2> QED  BY <2>2 DEF nunits
<1>3. m \in Nat \ {0} /\ n <= m
  BY <1>1, <1>2 DEF MoreUnits
<1>4. PICK d : d = m \div PageUnits
  OBVIOUS
<1>5. d \in Nat /\ m < (d + 1) * PageUnits
  BY <1>1, <1>3, <1>4
<1>6. (d + 1) * PageUnits \in Nat
  BY <1>1, <1>5
<1> QED  BY <1>2, <1>3, <1>4, <1>5, <1>6 DEF PagesFor

(* The header record that malloc() works on is sound from the first call.  *)
LEMMA StartedSound ==
  ASSUME HeapInv, NEW h, h = Started(Headers)
  PROVE  /\ \E F : Sound(h, F, HeldBlocks, arenas, brk)
         /\ \A a \in DOMAIN held : /\ a \in Nat /\ held[a] \in Requests
                                   /\ h.size[a - 1] = nunits(held[a])
<1>1. DOMAIN Headers = Fields /\ Headers.freep = freep /\ Headers.ptr = ptr /\ Headers.size = size
  BY DEF Headers, Fields
<1>2. CASE NotStarted
  <2>1. HeldBlocks = {} /\ DOMAIN held = {} /\ DOMAIN arenas = {}
    BY <1>2 DEF HeldBlocks, NotStarted
  <2>2. h = [Headers EXCEPT !.ptr[base] = base, !.size[base] = 0, !.freep = base]
    BY <1>1, <1>2 DEF Started, NotStarted
  <2>3. DOMAIN h = Fields /\ h.freep = base
    BY <1>1, <2>2 DEF Fields
  <2>4. h.ptr = [ptr EXCEPT ![base] = base]
    BY <1>1, <2>2 DEF Fields
  <2>5. h.size = [size EXCEPT ![base] = 0]
    BY <1>1, <2>2 DEF Fields
  <2>6. /\ HeapEnd \in Nat /\ base = 0 /\ base \in Addresses /\ Addresses = 0 .. HeapEnd
        /\ 0 \in 0 .. HeapEnd /\ ptr \in Pointers /\ size \in Lengths
        /\ brk = HeapBegin /\ HeapBegin \in HeapBegin .. HeapEnd
    BY <1>2, HeapAssumption DEF NotStarted, Addresses, base
  <2>7. h.ptr \in Pointers /\ h.ptr[base] = base
    BY <2>4, <2>6 DEF Pointers
  <2>8. h.size \in Lengths /\ h.size[base] = 0
    BY <2>5, <2>6 DEF Lengths
  <2>9. Circle(h.ptr, {base})
    BY <2>6, <2>7 DEF Circle
  <2>10. Laid(h.size, ({base} \ {base}) \cup HeldBlocks, arenas, brk) /\ Apart(arenas, brk)
    BY <2>1 DEF Laid, Apart
  <2>11. Sound(h, {base}, HeldBlocks, arenas, brk)
    <3>1. Kept(h.ptr, h.size, {base}, HeldBlocks, arenas, brk)
      BY <2>1, <2>6, <2>7, <2>8, <2>9, <2>10 DEF Kept
    <3> QED  BY <2>3, <3>1 DEF Sound, Settled
  <2> QED  BY <2>1, <2>11
<1>3. CASE \E F : SoundHeap(F)
  <2>1. PICK F : SoundHeap(F)
    BY <1>3
  <2>2. freep # NULL
    <3>1. freep \in F /\ \A b \in F : b \in Nat
      BY <1>1, <2>1, BlocksAreAddresses DEF SoundHeap, Sound
    <3> QED  BY <3>1 DEF NULL
  <2>3. h = Headers
    BY <1>1, <2>2 DEF Started
  <2> QED  BY <1>1, <2>1, <2>3 DEF SoundHeap
<1> QED  BY <1>2, <1>3 DEF HeapInv

(* The search of malloc() comes to a block that is long enough, if there   *)
(* is one.                                                                 *)
LEMMA FitFound ==
  ASSUME NEW h, NEW F, NEW H, NEW ar, NEW top, Sound(h, F, H, ar, top), NEW n
  PROVE  /\ (\E b \in F : h.size[b] >= n) => Fits(h, n) # {}
         /\ Fits(h, n) # {} =>
              LET k == Min(Fits(h, n))
              IN  /\ Nth(h)[k - 1] \in F /\ Nth(h)[k] = h.ptr[Nth(h)[k - 1]]
                  /\ h.size[Nth(h)[k]] >= n
<1>1. Listed(h, F)
  BY DEF Sound, Kept, Listed
<1>2. OnceRound(h) \subseteq Nat \ {0} /\ {Nth(h)[k] : k \in OnceRound(h)} = F
  BY <1>1, OnceRoundIsAll
<1>3. ASSUME NEW b \in F, h.size[b] >= n  PROVE Fits(h, n) # {}
  <2>1. PICK k \in OnceRound(h) : Nth(h)[k] = b
    BY <1>2
  <2> QED  BY <1>3, <2>1 DEF Fits
<1>4. ASSUME Fits(h, n) # {}, NEW k, k = Min(Fits(h, n))
      PROVE  /\ Nth(h)[k - 1] \in F /\ Nth(h)[k] = h.ptr[Nth(h)[k - 1]]
             /\ h.size[Nth(h)[k]] >= n
  <2>1. Fits(h, n) \subseteq Nat
    BY <1>2 DEF Fits
  <2>2. k \in Fits(h, n)
    BY <1>4, <2>1, LeastExists
  <2>3. k \in Nat \ {0} /\ h.size[Nth(h)[k]] >= n
    BY <1>2, <2>2 DEF Fits
  <2>4. k - 1 \in Nat /\ (k - 1) + 1 = k
    BY <2>3
  <2>5. Nth(h)[(k - 1) + 1] = h.ptr[Nth(h)[k - 1]] /\ Nth(h)[k - 1] \in F
    BY <1>1, <2>4, NthStep, WalkStays
  <2> QED  BY <2>3, <2>4, <2>5
<1> QED  BY <1>3, <1>4

(* morecore() puts what sbrk() gave into a header and gives it to free().  *)
LEMMA MoreCoreKept ==
  ASSUME NEW h, NEW F, NEW H, NEW ar, NEW top, Sound(h, F, H, ar, top),
         NEW m \in Nat \ {0}, NEW end \in 0 .. HeapEnd, top + m < end,
         NEW new, new = free([h EXCEPT !.size[top] = m], top)
  PROVE  \E G : /\ Sound(new, G, H, Put(ar, top, m), end)
                /\ \A c \in H : new.size[c] = h.size[c]
                /\ \E b \in G : new.size[b] >= m
<1>1. /\ DOMAIN h = Fields /\ Kept(h.ptr, h.size, F, H, ar, top)
      /\ h.freep \in F /\ Settled(h.size, F, {}) /\ base \in F
      /\ h.ptr \in Pointers /\ h.size \in Lengths /\ h.size[base] = 0
      /\ Circle(h.ptr, F) /\ Laid(h.size, (F \ {base}) \cup H, ar, top)
      /\ F \cap H = {} /\ base \notin H
      /\ Apart(ar, top) /\ top \in HeapBegin .. HeapEnd
  BY DEF Sound, Kept, Circle
<1>2. PICK h1, len1 : h1 = [h EXCEPT !.size[top] = m] /\ len1 = [h.size EXCEPT ![top] = m]
  OBVIOUS
<1>3. DOMAIN h1 = Fields /\ h1.ptr = h.ptr /\ h1.freep = h.freep /\ h1.size = len1
  BY <1>1, <1>2 DEF Fields
<1>4. /\ len1 \in Lengths /\ top \in Addresses /\ top # base
      /\ Laid(len1, ((F \ {base}) \cup H) \cup {top}, Put(ar, top, m), end)
      /\ Apart(Put(ar, top, m), end)
      /\ \A b \in (F \ {base}) \cup H : b # top /\ len1[b] = h.size[b]
  <2>1. PICK len, B : len = h.size /\ B = (F \ {base}) \cup H
    OBVIOUS
  <2>2. len \in Lengths /\ Laid(len, B, ar, top) /\ len1 = [len EXCEPT ![top] = m]
    BY <1>1, <1>2, <2>1
  <2>3. Grown(len, len1, B, ar, top, m, end)
    BY <1>1, <2>2, LaidGrow
  <2> QED  BY <2>1, <2>3 DEF Grown
<1>5. top \notin F /\ top \notin H /\ len1[base] = 0 /\ len1[top] = m
  <2>1. DOMAIN h.size = Addresses
    BY <1>1 DEF Lengths
  <2> QED  BY <1>1, <1>2, <1>4, <2>1
<1>6. ((F \ {base}) \cup H) \cup {top} = (F \ {base}) \cup (H \cup {top})
  OBVIOUS
<1>7. end \in HeapBegin .. HeapEnd
  BY <1>1, HeapAssumption
<1>8. Kept(h1.ptr, h1.size, F, H \cup {top}, Put(ar, top, m), end)
  BY <1>1, <1>3, <1>4, <1>5, <1>6, <1>7 DEF Kept
<1>9. Settled(len1, F, {})
  BY <1>1, <1>4 DEF Settled
<1>10. PICK I, more : I = H \cup {top} /\ more = Put(ar, top, m)
  OBVIOUS
<1>11. Sound(h1, F, I, more, end) /\ top \in I
  BY <1>1, <1>3, <1>8, <1>9, <1>10 DEF Sound
<1>12. new = free(h1, top)
  BY <1>2
<1>13. PICK G : /\ Sound(new, G, I \ {top}, more, end)
                /\ \A c \in I \ {top} : new.size[c] = h1.size[c]
                /\ \E b \in G : new.size[b] >= h1.size[top]
  <2>1. ASSUME NEW back, back = free(h1, top)
        PROVE  \E G : /\ Sound(back, G, I \ {top}, more, end)
                      /\ \A c \in I \ {top} : back.size[c] = h1.size[c]
                      /\ \E b \in G : back.size[b] >= h1.size[top]
    BY <1>11, <2>1, FreeKept
  <2> QED  BY <1>12, <2>1
<1>14. I \ {top} = H
  BY <1>5, <1>10
<1> QED  BY <1>3, <1>4, <1>5, <1>10, <1>13, <1>14

(* What the state keeps when malloc() or free() leaves the headers new.    *)
LEMMA HeadersKept ==
  ASSUME NEW new, NEW G, NEW I, NEW ar, NEW top, Sound(new, G, I, ar, top),
         freep' = new.freep, ptr' = new.ptr, size' = new.size,
         arenas' = ar, brk' = top, HeldBlocks' = I,
         \A a \in DOMAIN held' : /\ a \in Nat /\ held'[a] \in Requests
                                 /\ new.size[a - 1] = nunits(held'[a])
  PROVE  HeapInv'
<1>1. /\ DOMAIN Headers' = Fields /\ Headers'.freep = new.freep
      /\ Headers'.ptr = new.ptr /\ Headers'.size = new.size
  BY DEF Headers, Fields
<1>2. Sound(Headers', G, HeldBlocks', arenas', brk')
  BY <1>1 DEF Sound
<1>3. SoundHeap(G)'
  BY <1>2 DEF SoundHeap
<1> QED  BY <1>3 DEF HeapInv

(* malloc() hands out a block that was not the program's, of the length    *)
(* that was asked for.                                                     *)
LEMMA HandOutKept ==
  ASSUME NEW h, NEW F, NEW ar, NEW top, Sound(h, F, HeldBlocks, ar, top),
         \A a \in DOMAIN held : /\ a \in Nat /\ held[a] \in Requests
                                /\ h.size[a - 1] = nunits(held[a]),
         NEW nbytes \in Requests, NEW n, n = nunits(nbytes), Fits(h, n) # {},
         HandOut(h, n, nbytes), arenas' = ar, brk' = top
  PROVE  HeapInv' /\ \E a : a \notin DOMAIN held /\ held' = Put(held, a, nbytes)
<1>1. n \in Nat \ {0}
  BY UnitCounts
<1>2. PICK k : k = Min(Fits(h, n))
  OBVIOUS
<1>3. Nth(h)[k - 1] \in F /\ Nth(h)[k] = h.ptr[Nth(h)[k - 1]] /\ h.size[Nth(h)[k]] >= n
  BY <1>2, FitFound
<1>4. PICK p, q, new, b : /\ q = Nth(h)[k - 1] /\ p = Nth(h)[k]
                          /\ new = Taken(h, q, p, n) /\ b = TakenAt(h, p, n)
  OBVIOUS
<1>5. /\ freep' = new.freep /\ ptr' = new.ptr /\ size' = new.size
      /\ held' = Put(held, b + 1, nbytes)
  BY <1>2, <1>4 DEF HandOut
<1>6. q \in F /\ p = h.ptr[q] /\ h.size[p] >= n
  BY <1>3, <1>4
<1>7. PICK G : /\ Sound(new, G, HeldBlocks \cup {b}, ar, top)
               /\ b \notin HeldBlocks /\ new.size[b] = n
               /\ \A c \in HeldBlocks : new.size[c] = h.size[c]
  BY <1>1, <1>4, <1>6, TakenKept
<1>8. b \in Nat
  <2>1. b \in HeldBlocks \cup {b}
    OBVIOUS
  <2> QED  BY <1>7, <2>1, BlocksAreAddresses DEF Sound
<1>9. DOMAIN held' = DOMAIN held \cup {b + 1}
  BY <1>5 DEF Put
<1>10. b + 1 \notin DOMAIN held
  <2>1. ASSUME b + 1 \in DOMAIN held  PROVE FALSE
    <3>1. (b + 1) - 1 \in HeldBlocks
      BY <2>1 DEF HeldBlocks
    <3> QED  BY <1>7, <1>8, <3>1
  <2> QED  BY <2>1
<1>11. HeldBlocks' = HeldBlocks \cup {b}
  <2>1. (b + 1) - 1 = b
    BY <1>8
  <2> QED  BY <1>9, <2>1 DEF HeldBlocks
<1>12. ASSUME NEW a \in DOMAIN held'
       PROVE  a \in Nat /\ held'[a] \in Requests /\ new.size[a - 1] = nunits(held'[a])
  <2>1. CASE a = b + 1
    <3>1. held'[a] = nbytes /\ a - 1 = b
      BY <1>5, <1>8, <2>1 DEF Put
    <3> QED  BY <1>7, <1>8, <2>1, <3>1
  <2>2. CASE a \in DOMAIN held
    <3>1. held'[a] = held[a]
      BY <1>5, <1>10, <2>2 DEF Put
    <3>2. a - 1 \in HeldBlocks
      BY <2>2 DEF HeldBlocks
    <3> QED  BY <1>7, <2>2, <3>1, <3>2
  <2> QED  BY <1>9, <2>1, <2>2
<1>13. HeapInv'
  BY <1>5, <1>7, <1>11, <1>12, HeadersKept
<1> QED  BY <1>5, <1>10, <1>13

(* The steps of malloc() that find a block in the list.                    *)
LEMMA FromListKept ==
  ASSUME HeapInv, NEW nbytes \in Requests, MallocFromList(nbytes)
  PROVE  HeapInv' /\ \E a : a \notin DOMAIN held /\ held' = Put(held, a, nbytes)
<1>1. PICK h, n : h = Started(Headers) /\ n = nunits(nbytes)
  OBVIOUS
<1>2. Fits(h, n) # {} /\ HandOut(h, n, nbytes) /\ arenas' = arenas /\ brk' = brk
  BY <1>1 DEF MallocFromList
<1>3. /\ \E F : Sound(h, F, HeldBlocks, arenas, brk)
      /\ \A a \in DOMAIN held : /\ a \in Nat /\ held[a] \in Requests
                                /\ h.size[a - 1] = nunits(held[a])
  BY <1>1, StartedSound
<1> QED  BY <1>1, <1>2, <1>3, HandOutKept

(* The steps of malloc() that ask the kernel for memory.                   *)
LEMMA MoreCoreStepKept ==
  ASSUME HeapInv, NEW nbytes \in Requests, MallocMoreCore(nbytes)
  PROVE  HeapInv' /\ \E a : a \notin DOMAIN held /\ held' = Put(held, a, nbytes)
<1>1. PICK h, n, m, new : /\ h = Started(Headers) /\ n = nunits(nbytes)
                          /\ m = MoreUnits(n) /\ new = MoreCore(h, n)
  OBVIOUS
<1>2. /\ HandOut(new, n, nbytes) /\ arenas' = Put(arenas, brk, m)
      /\ brk' = brk + PagesFor(m) * PageUnits /\ brk' <= HeapEnd
  BY <1>1 DEF MallocMoreCore
<1>3. PICK F : Sound(h, F, HeldBlocks, arenas, brk)
  BY <1>1, StartedSound
<1>4. \A a \in DOMAIN held : /\ a \in Nat /\ held[a] \in Requests
                             /\ h.size[a - 1] = nunits(held[a])
  BY <1>1, StartedSound
<1>5. /\ n \in Nat \ {0} /\ m \in Nat \ {0} /\ n <= m
      /\ PagesFor(m) * PageUnits \in Nat /\ m < PagesFor(m) * PageUnits
  BY <1>1, UnitCounts
<1>6. PICK end, top : end = brk' /\ top = brk
  OBVIOUS
<1>7. end \in 0 .. HeapEnd /\ top + m < end
  <2>1. top \in Nat /\ HeapEnd \in Nat
    BY <1>3, <1>6, HeapAssumption DEF Sound, Kept
  <2> QED  BY <1>2, <1>5, <1>6, <2>1
<1>8. PICK G : /\ Sound(new, G, HeldBlocks, Put(arenas, top, m), end)
               /\ \A c \in HeldBlocks : new.size[c] = h.size[c]
               /\ \E b \in G : new.size[b] >= m
  <2>1. new = free([h EXCEPT !.size[top] = m], top)
    BY <1>1, <1>6 DEF MoreCore
  <2>2. Sound(h, F, HeldBlocks, arenas, top)
    BY <1>3, <1>6
  <2> QED  BY <1>5, <1>7, <2>1, <2>2, MoreCoreKept
<1>9. PICK b \in G : new.size[b] >= n
  <2>1. PICK b \in G : new.size[b] >= m
    BY <1>8
  <2>2. new.size[b] \in Nat
    BY <1>8, <2>1, BlocksAreAddresses DEF Sound, Kept
  <2> QED  BY <1>5, <2>1, <2>2
<1>10. Fits(new, n) # {}
  BY <1>8, <1>9, FitFound
<1>11. \A a \in DOMAIN held : /\ a \in Nat /\ held[a] \in Requests
                              /\ new.size[a - 1] = nunits(held[a])
  <2>1. \A a \in DOMAIN held : a - 1 \in HeldBlocks
    BY DEF HeldBlocks
  <2> QED  BY <1>4, <1>8, <2>1
<1>12. arenas' = Put(arenas, top, m) /\ brk' = end
  BY <1>2, <1>6
<1> QED  BY <1>1, <1>2, <1>8, <1>10, <1>11, <1>12, HandOutKept

(* The step of free().                                                     *)
LEMMA FreeStepKept ==
  ASSUME HeapInv, NEW a \in DOMAIN held, Free(a)
  PROVE  HeapInv' /\ held' = Without(held, a)
<1>1. PICK F : SoundHeap(F)
  BY DEF HeapInv, NotStarted
<1>2. PICK h, new : h = Headers /\ new = free(h, a - 1)
  OBVIOUS
<1>3. /\ freep' = new.freep /\ ptr' = new.ptr /\ size' = new.size
      /\ held' = Without(held, a) /\ arenas' = arenas /\ brk' = brk
  BY <1>2 DEF Free
<1>4. Sound(h, F, HeldBlocks, arenas, brk) /\ h.size = size
  BY <1>1, <1>2 DEF SoundHeap, Headers
<1>5. \A x \in DOMAIN held : /\ x \in Nat /\ held[x] \in Requests
                             /\ size[x - 1] = nunits(held[x])
  BY <1>1 DEF SoundHeap
<1>6. PICK G : /\ Sound(new, G, HeldBlocks \ {a - 1}, arenas, brk)
               /\ \A c \in HeldBlocks \ {a - 1} : new.size[c] = size[c]
  <2>1. PICK bp : bp = a - 1
    OBVIOUS
  <2>2. bp \in HeldBlocks
    BY <2>1 DEF HeldBlocks
  <2>3. new = free(h, bp)
    BY <1>2, <2>1
  <2>4. ASSUME NEW back, back = free(h, bp)
        PROVE  \E G : /\ Sound(back, G, HeldBlocks \ {bp}, arenas, brk)
                      /\ \A c \in HeldBlocks \ {bp} : back.size[c] = h.size[c]
                      /\ \E b \in G : back.size[b] >= h.size[bp]
    <3>1. PICK I, ar, top : I = HeldBlocks /\ ar = arenas /\ top = brk
      OBVIOUS
    <3>2. Sound(h, F, I, ar, top) /\ bp \in I
      BY <1>4, <2>2, <3>1
    <3>3. \E G : /\ Sound(back, G, I \ {bp}, ar, top)
                 /\ \A c \in I \ {bp} : back.size[c] = h.size[c]
                 /\ \E b \in G : back.size[b] >= h.size[bp]
      BY <2>4, <3>2, FreeKept
    <3> QED  BY <3>1, <3>3
  <2>5. \E G : /\ Sound(new, G, HeldBlocks \ {bp}, arenas, brk)
               /\ \A c \in HeldBlocks \ {bp} : new.size[c] = h.size[c]
    BY <2>3, <2>4
  <2> QED  BY <1>4, <2>1, <2>5
<1>7. DOMAIN held' = DOMAIN held \ {a} /\ \A x \in DOMAIN held' : held'[x] = held[x]
  BY <1>3 DEF Without
<1>8. \A x \in DOMAIN held' : x - 1 # a - 1 /\ x - 1 \in HeldBlocks
  BY <1>5, <1>7 DEF HeldBlocks
<1>9. HeldBlocks' = HeldBlocks \ {a - 1}
  <2>1. HeldBlocks' = {x - 1 : x \in DOMAIN held'}
    BY DEF HeldBlocks
  <2> QED  BY <1>7, <1>8, <2>1 DEF HeldBlocks
<1>10. \A x \in DOMAIN held' : /\ x \in Nat /\ held'[x] \in Requests
                               /\ new.size[x - 1] = nunits(held'[x])
  BY <1>5, <1>6, <1>7, <1>8
<1> QED  BY <1>3, <1>6, <1>9, <1>10, HeadersKept

(* Every state of the heap is sound.                                       *)
LEMMA HeapInvHolds == Spec => []HeapInv
<1>1. Init => HeapInv
  <2>1. NULL \in Addresses \cup {NULL} /\ 0 \in 0 .. HeapEnd
    BY HeapAssumption
  <2> QED  BY <2>1 DEF Init, HeapInv, NotStarted, Pointers, Lengths
<1>2. HeapInv /\ [Next]_vars => HeapInv'
  <2> SUFFICES ASSUME HeapInv, [Next]_vars  PROVE HeapInv'
    OBVIOUS
  <2>1. CASE \E nbytes \in Requests : MallocFromList(nbytes)
    BY <2>1, FromListKept
  <2>2. CASE \E nbytes \in Requests : MallocMoreCore(nbytes)
    BY <2>2, MoreCoreStepKept
  <2>3. CASE \E a \in DOMAIN held : Free(a)
    BY <2>3, FreeStepKept
  <2>4. CASE UNCHANGED vars
    <3>1. Headers' = Headers /\ HeldBlocks' = HeldBlocks
      BY <2>4 DEF vars, Headers, HeldBlocks
    <3> QED  BY <2>4, <3>1 DEF vars, HeapInv, NotStarted, SoundHeap
  <2> QED  BY <2>1, <2>2, <2>3, <2>4 DEF Next
<1> QED  BY <1>1, <1>2, PTL DEF Spec

-----------------------------------------------------------------------------
(* The properties. *)

(* TypeOK: every pointer and length stays one, arenas and blocks lie in    *)
(* the heap area, and what is held was asked for.                          *)
THEOREM HeapTypeOK == Spec => []TypeOK
<1>1. HeapInv => TypeOK
  <2>1. ASSUME NotStarted  PROVE TypeOK
    <3>1. DOMAIN arenas = {} /\ DOMAIN held = {}
      BY <2>1 DEF NotStarted
    <3> QED  BY <2>1, <3>1, HeapAssumption DEF NotStarted, TypeOK, Pointers, Lengths
  <2>2. ASSUME NEW F, SoundHeap(F)  PROVE TypeOK
    <3>1. /\ Kept(ptr, size, F, HeldBlocks, arenas, brk) /\ freep \in F
          /\ \A a \in DOMAIN held : a \in Nat /\ held[a] \in Requests
      BY <2>2 DEF SoundHeap, Sound, Headers
    <3>2. /\ ptr \in Pointers /\ size \in Lengths /\ brk \in HeapBegin .. HeapEnd
          /\ Laid(size, (F \ {base}) \cup HeldBlocks, arenas, brk) /\ Apart(arenas, brk)
      BY <3>1 DEF Kept
    <3>3. freep \in Addresses
      BY <3>1, BlocksAreAddresses
    <3>4. HeapBegin \in Nat /\ HeapEnd \in Nat
      BY HeapAssumption
    <3>5. ASSUME NEW a \in DOMAIN arenas  PROVE a \in HeapBegin .. HeapEnd
      <4>1. a \in Nat /\ HeapBegin <= a /\ arenas[a] \in Nat \ {0} /\ a + arenas[a] < brk
        BY <3>2 DEF Apart
      <4> QED  BY <3>2, <3>4, <4>1
    <3>6. ASSUME NEW a \in DOMAIN held  PROVE a \in HeapBegin .. HeapEnd
      <4>1. a - 1 \in HeldBlocks
        BY DEF HeldBlocks
      <4>2. a - 1 \in Nat /\ HeapBegin <= a - 1 /\ size[a - 1] \in Nat \ {0} /\ (a - 1) + size[a - 1] <= brk
        BY <3>2, <4>1 DEF Laid
      <4> QED  BY <3>1, <3>2, <3>4, <4>2
    <3> QED  BY <3>1, <3>2, <3>3, <3>5, <3>6 DEF TypeOK, Pointers, Lengths
  <2> QED  BY <2>1, <2>2 DEF HeapInv
<1> QED  BY <1>1, HeapInvHolds, PTL

(* The blocks that a walk along the list finds are the free ones.          *)
LEMMA FreeBlocksFound ==
  ASSUME NEW F, SoundHeap(F)
  PROVE  FreeBlocks = F /\ freep # NULL
<1>1. Listed(Headers, F) /\ freep \in F /\ \A b \in F : b \in Nat
  <2>1. /\ Kept(Headers.ptr, Headers.size, F, HeldBlocks, arenas, brk)
        /\ Headers.freep \in F /\ Headers.freep = freep
    BY DEF SoundHeap, Sound, Headers
  <2> QED  BY <2>1, BlocksAreAddresses DEF Listed, Kept
<1>2. freep # NULL
  BY <1>1 DEF NULL
<1>3. {Nth(Headers)[k] : k \in OnceRound(Headers)} = F
  BY <1>1, OnceRoundIsAll
<1> QED  BY <1>2, <1>3 DEF FreeBlocks

(* What a sound heap says of the state.                                    *)
LEMMA HeapFacts ==
  ASSUME NEW F, SoundHeap(F)
  PROVE  /\ FreeBlocks = F /\ freep # NULL /\ Settled(size, F, {})
         /\ Kept(ptr, size, F, HeldBlocks, arenas, brk)
         /\ Circle(ptr, F) /\ Apart(arenas, brk)
         /\ F \cap HeldBlocks = {} /\ base \notin HeldBlocks
         /\ Laid(size, (F \ {base}) \cup HeldBlocks, arenas, brk)
<1>1. /\ Kept(ptr, size, F, HeldBlocks, arenas, brk) /\ Settled(size, F, {})
  BY DEF SoundHeap, Sound, Headers
<1> QED  BY <1>1, FreeBlocksFound DEF Kept

(* UnitsPartitioned: every unit that sbrk() gave is in exactly one block,  *)
(* whatever malloc() and free() split and join.                            *)
THEOREM HeapUnitsPartitioned == Spec => []UnitsPartitioned
<1>1. HeapInv => UnitsPartitioned
  <2>1. ASSUME NotStarted  PROVE UnitsPartitioned
    <3>1. FreeBlocks = {} /\ HeldBlocks = {} /\ ArenaUnits = {}
      BY <2>1 DEF NotStarted, FreeBlocks, HeldBlocks, ArenaUnits
    <3> QED  BY <3>1 DEF UnitsPartitioned
  <2>2. ASSUME NEW F, SoundHeap(F)  PROVE UnitsPartitioned
    <3>1. PICK B : B = (FreeBlocks \cup HeldBlocks) \ {base}
      OBVIOUS
    <3>2. /\ Laid(size, B, arenas, brk) /\ Apart(arenas, brk)
          /\ FreeBlocks \cap HeldBlocks = {}
      <4>1. B = (F \ {base}) \cup HeldBlocks
        BY <2>2, <3>1, HeapFacts
      <4> QED  BY <2>2, <4>1, HeapFacts
    <3>3. \A b \in B : b \in Nat /\ size[b] \in Nat \ {0}
      BY <3>2 DEF Laid
    <3>4. \A a \in DOMAIN arenas : a \in Nat /\ arenas[a] \in Nat \ {0}
      BY <3>2 DEF Apart
    <3>5. \A b \in B : \A u : u \in UnitsOf(b) <=> u \in Nat /\ Within(u, b, size[b])
      BY <3>3 DEF UnitsOf, Within
    <3>6. \A u : u \in ArenaUnits
                   <=> u \in Nat /\ \E a \in DOMAIN arenas : Within(u, a, arenas[a])
      BY <3>4 DEF ArenaUnits, Within
    <3>7. \A u \in Nat : (\E b \in B : Within(u, b, size[b]))
                           <=> (\E a \in DOMAIN arenas : Within(u, a, arenas[a]))
      BY <3>2 DEF Laid
    <3>8. UNION {UnitsOf(b) : b \in B} = ArenaUnits
      BY <3>5, <3>6, <3>7
    <3>9. ASSUME NEW b \in B, NEW c \in B, b # c  PROVE UnitsOf(b) \cap UnitsOf(c) = {}
      <4>1. b \in Nat /\ c \in Nat /\ size[b] \in Nat /\ size[c] \in Nat
        BY <3>3
      <4>2. (b < c => b + size[b] <= c) /\ (c < b => c + size[c] <= b)
        BY <3>2 DEF Laid
      <4>3. ASSUME NEW u, u \in UnitsOf(b), u \in UnitsOf(c)  PROVE FALSE
        <5>1. u \in Nat /\ b <= u /\ u < b + size[b] /\ c <= u /\ u < c + size[c]
          BY <3>5, <4>3 DEF Within
        <5> QED  BY <3>9, <4>1, <4>2, <5>1
      <4> QED  BY <4>3
    <3> QED  BY <3>1, <3>2, <3>8, <3>9 DEF UnitsPartitioned
  <2> QED  BY <2>1, <2>2 DEF HeapInv
<1> QED  BY <1>1, HeapInvHolds, PTL

(* ListInOrder: the list that malloc() and free() search is a circle in    *)
(* the order of the addresses, and no two of its blocks touch.             *)
THEOREM HeapListInOrder == Spec => []ListInOrder
<1>1. HeapInv => ListInOrder
  <2>1. ASSUME NotStarted  PROVE ListInOrder
    BY <2>1 DEF NotStarted, FreeBlocks, ListInOrder
  <2>2. ASSUME NEW F, SoundHeap(F)  PROVE ListInOrder
    <3>1. FreeBlocks = F /\ Circle(ptr, F) /\ Settled(size, F, {})
      BY <2>2, HeapFacts
    <3> QED  BY <3>1 DEF ListInOrder, Circle, Settled
  <2> QED  BY <2>1, <2>2 DEF HeapInv
<1> QED  BY <1>1, HeapInvHolds, PTL

(* Blocks of which none touches another fill the arenas one by one.        *)
LEMMA WholeArenas ==
  ASSUME NEW len, NEW B, NEW ar, NEW top, Laid(len, B, ar, top), Apart(ar, top),
         \A b \in B : b + len[b] \notin B
  PROVE  B = DOMAIN ar /\ \A a \in DOMAIN ar : len[a] = ar[a]
<1>1. /\ \A b \in B : b \in Nat /\ len[b] \in Nat \ {0}
      /\ \A b, c \in B : b < c => b + len[b] <= c
      /\ \A u \in Nat : (\E b \in B : Within(u, b, len[b]))
                          <=> (\E a \in DOMAIN ar : Within(u, a, ar[a]))
  BY DEF Laid
<1>2. /\ \A a \in DOMAIN ar : a \in Nat /\ ar[a] \in Nat \ {0} /\ HeapBegin <= a
      /\ \A a, c \in DOMAIN ar : a < c => a + ar[a] < c
  BY DEF Apart
<1>3. ASSUME NEW a \in DOMAIN ar  PROVE a \in B
  <2>1. a \in Nat /\ a # 0 /\ Within(a, a, ar[a])
    BY <1>2, HeapAssumption DEF Within
  <2>2. PICK b \in B : Within(a, b, len[b])
    BY <1>1, <2>1
  <2>3. ASSUME b # a  PROVE FALSE
    <3>1. b \in Nat /\ len[b] \in Nat /\ b < a /\ a < b + len[b]
      BY <1>1, <2>1, <2>2, <2>3 DEF Within
    <3>2. a - 1 \in Nat /\ Within(a - 1, b, len[b])
      BY <2>1, <3>1 DEF Within
    <3>3. PICK c \in DOMAIN ar : Within(a - 1, c, ar[c])
      BY <1>1, <3>2
    <3>4. c \in Nat /\ ar[c] \in Nat /\ c <= a - 1 /\ a - 1 < c + ar[c]
      BY <1>2, <3>3 DEF Within
    <3>5. c < a
      BY <2>1, <3>4
    <3>6. c + ar[c] < a
      BY <1>2, <3>5
    <3> QED  BY <2>1, <3>4, <3>6
  <2> QED  BY <2>3
<1>4. ASSUME NEW b \in B  PROVE b \in DOMAIN ar
  <2>1. b \in Nat /\ Within(b, b, len[b])
    BY <1>1 DEF Within
  <2>2. PICK a \in DOMAIN ar : Within(b, a, ar[a])
    BY <1>1, <2>1
  <2>3. ASSUME b # a  PROVE FALSE
    <3>1. a \in Nat /\ ar[a] \in Nat /\ a < b /\ b < a + ar[a]
      BY <1>2, <2>1, <2>2, <2>3 DEF Within
    <3>2. b - 1 \in Nat /\ Within(b - 1, a, ar[a])
      BY <2>1, <3>1 DEF Within
    <3>3. PICK c \in B : Within(b - 1, c, len[c])
      BY <1>1, <3>2
    <3>4. c \in Nat /\ len[c] \in Nat /\ c <= b - 1 /\ b - 1 < c + len[c]
      BY <1>1, <3>3 DEF Within
    <3>5. c < b
      BY <2>1, <3>4
    <3>6. c + len[c] <= b
      BY <1>1, <3>5
    <3>7. c + len[c] = b
      BY <2>1, <3>4, <3>6
    <3> QED  BY <3>7
  <2> QED  BY <2>3
<1>5. ASSUME NEW a \in DOMAIN ar  PROVE len[a] = ar[a]
  <2>1. a \in B /\ a \in Nat /\ ar[a] \in Nat \ {0} /\ len[a] \in Nat \ {0}
    BY <1>1, <1>2, <1>3
  <2>2. ASSUME ar[a] < len[a]  PROVE FALSE
    <3>1. PICK u : u = a + ar[a]
      OBVIOUS
    <3>2. u \in Nat /\ Within(u, a, len[a]) /\ ~Within(u, a, ar[a])
      BY <2>1, <2>2, <3>1 DEF Within
    <3>3. PICK c \in DOMAIN ar : Within(u, c, ar[c])
      BY <1>1, <2>1, <3>2
    <3>4. c \in Nat /\ ar[c] \in Nat /\ c <= u /\ u < c + ar[c] /\ c # a
      BY <1>2, <3>2, <3>3 DEF Within
    <3>5. (a < c => a + ar[a] < c) /\ (c < a => c + ar[c] < a)
      BY <1>2
    <3> QED  BY <2>1, <3>1, <3>4, <3>5
  <2>3. ASSUME len[a] < ar[a]  PROVE FALSE
    <3>1. PICK u : u = a + len[a]
      OBVIOUS
    <3>2. u \in Nat /\ Within(u, a, ar[a]) /\ ~Within(u, a, len[a])
      BY <2>1, <2>3, <3>1 DEF Within
    <3>3. PICK c \in B : Within(u, c, len[c])
      BY <1>1, <2>1, <3>2
    <3>4. c \in Nat /\ len[c] \in Nat /\ c <= u /\ u < c + len[c] /\ c # a
      BY <1>1, <3>2, <3>3 DEF Within
    <3>5. (a < c => a + len[a] <= c) /\ (c < a => c + len[c] <= a)
      BY <1>1, <2>1
    <3>6. c = u
      BY <2>1, <3>1, <3>4, <3>5
    <3> QED  BY <2>1, <3>1, <3>6
  <2> QED  BY <2>1, <2>2, <2>3
<1> QED  BY <1>3, <1>4, <1>5

(* WholeAgain: when all is freed, free() has joined every piece that came  *)
(* from sbrk() to one block again.                                         *)
THEOREM HeapWholeAgain == Spec => []WholeAgain
<1>1. HeapInv => WholeAgain
  <2>1. ASSUME NotStarted  PROVE WholeAgain
    BY <2>1 DEF NotStarted, WholeAgain
  <2>2. ASSUME NEW F, SoundHeap(F), held = << >>  
        PROVE  /\ FreeBlocks = DOMAIN arenas \cup {base}
               /\ \A a \in DOMAIN arenas : size[a] = arenas[a]
    <3>1. HeldBlocks = {}
      BY <2>2 DEF HeldBlocks
    <3>2. PICK B : B = F \ {base}
      OBVIOUS
    <3>3. /\ Laid(size, B, arenas, brk) /\ Apart(arenas, brk)
          /\ base \in F /\ FreeBlocks = F /\ \A b \in B : b + size[b] \notin B
      <4>1. B = (F \ {base}) \cup HeldBlocks
        BY <3>1, <3>2
      <4>2. Settled(size, F, {}) /\ base \in F /\ FreeBlocks = F
        BY <2>2, HeapFacts DEF Circle
      <4> QED  BY <2>2, <3>2, <4>1, <4>2, HeapFacts DEF Settled
    <3>4. B = DOMAIN arenas /\ \A a \in DOMAIN arenas : size[a] = arenas[a]
      BY <3>3, WholeArenas
    <3> QED  BY <3>2, <3>3, <3>4
  <2> QED  BY <2>1, <2>2 DEF HeapInv, WholeAgain
<1> QED  BY <1>1, HeapInvHolds, PTL

(* The blocks of the program lie in the heap area and share no unit.       *)
HeldApart ==
  /\ brk \in Nat
  /\ \A a \in DOMAIN held : Promise!Block(a, held[a]) \subseteq HeapBegin .. brk - 1
  /\ \A a, c \in DOMAIN held :
       a # c => Promise!Block(a, held[a]) \cap Promise!Block(c, held[c]) = {}

(* They do, because the lengths in their headers are those of the requests.*)
LEMMA HeldAreApart == HeapInv => HeldApart
<1>1. ASSUME NotStarted  PROVE HeldApart
  BY <1>1, HeapAssumption DEF NotStarted, HeldApart
<1>2. ASSUME NEW F, SoundHeap(F)  PROVE HeldApart
  <2>1. Laid(size, (F \ {base}) \cup HeldBlocks, arenas, brk) /\ brk \in Nat
    BY <1>2, HeapFacts, HeapAssumption DEF Kept
  <2>2. \A a \in DOMAIN held : /\ a \in Nat /\ held[a] \in Requests
                               /\ size[a - 1] = nunits(held[a])
    BY <1>2 DEF SoundHeap
  <2>3. ASSUME NEW a \in DOMAIN held
        PROVE  /\ a \in Nat /\ a - 1 \in Nat /\ HeapBegin <= a - 1
               /\ size[a - 1] \in Nat \ {0} /\ (a - 1) + size[a - 1] <= brk
               /\ Promise!Block(a, held[a]) = a - 1 .. (a - 1) + size[a - 1] - 1
    <3>1. a - 1 \in HeldBlocks
      BY DEF HeldBlocks
    <3>2. /\ a - 1 \in Nat /\ HeapBegin <= a - 1
          /\ size[a - 1] \in Nat \ {0} /\ (a - 1) + size[a - 1] <= brk
      BY <2>1, <3>1 DEF Laid
    <3>3. PICK d : d = (held[a] + UnitBytes - 1) \div UnitBytes
      OBVIOUS
    <3>4. size[a - 1] = d + 1 /\ Promise!Block(a, held[a]) = a - 1 .. a + d - 1
      BY <2>2, <3>3 DEF nunits, Promise!Block, Promise!Units
    <3>5. d \in Nat
      <4>1. held[a] \in Nat /\ UnitBytes \in Nat \ {0}
        BY <2>2, HeapAssumption
      <4>2. held[a] + UnitBytes - 1 \in Nat
        BY <4>1
      <4> QED  BY <3>3, <4>1, <4>2
    <3>6. a + d - 1 = (a - 1) + size[a - 1] - 1
      BY <2>2, <3>4, <3>5
    <3> QED  BY <2>2, <3>2, <3>4, <3>6
  <2>4. ASSUME NEW a \in DOMAIN held
        PROVE  Promise!Block(a, held[a]) \subseteq HeapBegin .. brk - 1
    <3>1. HeapBegin \in Nat
      BY HeapAssumption
    <3> QED  BY <2>1, <2>3, <3>1
  <2>5. ASSUME NEW a \in DOMAIN held, NEW c \in DOMAIN held, a # c
        PROVE  Promise!Block(a, held[a]) \cap Promise!Block(c, held[c]) = {}
    <3>1. a - 1 \in HeldBlocks /\ c - 1 \in HeldBlocks
      BY DEF HeldBlocks
    <3>2. PICK x, y : x = a - 1 /\ y = c - 1
      OBVIOUS
    <3>3. x \in HeldBlocks /\ y \in HeldBlocks /\ x # y /\ x \in Nat /\ y \in Nat
      BY <2>3, <2>5, <3>1, <3>2
    <3>4. (x < y => x + size[x] <= y) /\ (y < x => y + size[y] <= x)
      BY <2>1, <3>3 DEF Laid
    <3>5. /\ Promise!Block(a, held[a]) = x .. x + size[x] - 1 /\ size[x] \in Nat
          /\ Promise!Block(c, held[c]) = y .. y + size[y] - 1 /\ size[y] \in Nat
      BY <2>3, <3>2
    <3> QED  BY <3>3, <3>4, <3>5
  <2> QED  BY <2>1, <2>4, <2>5 DEF HeldApart
<1> QED  BY <1>1, <1>2 DEF HeapInv

(* Every step of the list is a step of what malloc() and free() promise.   *)
LEMMA HeapStepsPromised ==
  ASSUME HeapInv, HeapInv', HeldApart, HeldApart', [Next]_vars
  PROVE  [Promise!Next]_<<HeapBegin .. brk - 1, held>>
<1>1. brk \in Nat /\ brk' \in Nat
  BY DEF HeldApart
<1>2. ASSUME NEW nbytes \in Requests, NEW a, a \notin DOMAIN held, held' = Put(held, a, nbytes),
             brk <= brk'
      PROVE  Promise!Next
  <2>1. /\ DOMAIN held' = DOMAIN held \cup {a} /\ held'[a] = nbytes
        /\ \A b \in DOMAIN held : held'[b] = held[b] /\ b # a
    BY <1>2 DEF Put
  <2>2. /\ Promise!Block(a, nbytes) \subseteq HeapBegin .. brk' - 1
        /\ \A b \in DOMAIN held : Promise!Block(a, nbytes) \cap Promise!Block(b, held[b]) = {}
    BY <2>1 DEF HeldApart
  <2>3. held' = [b \in DOMAIN held \cup {a} |-> IF b = a THEN nbytes ELSE held[b]]
    BY <1>2 DEF Put
  <2>4. a \in DOMAIN held' \ DOMAIN held
    BY <1>2, <2>1
  <2>5. Promise!Malloc
    BY <2>2, <2>3, <2>4 DEF Promise!Malloc
  <2>6. Promise!Grow
    <3>1. brk <= brk' /\ HeapBegin \in Nat
      BY <1>2, HeapAssumption
    <3>2. HeapBegin .. brk - 1 \subseteq HeapBegin .. brk' - 1
      <4>1. PICK x, y : x = brk /\ y = brk'
        OBVIOUS
      <4>2. x \in Nat /\ y \in Nat /\ x <= y
        BY <1>1, <3>1, <4>1
      <4>3. HeapBegin .. x - 1 \subseteq HeapBegin .. y - 1
        BY <3>1, <4>2
      <4> QED  BY <4>1, <4>3
    <3>3. (HeapBegin .. brk - 1)' = HeapBegin .. brk' - 1
      OBVIOUS
    <3> QED  BY <3>2, <3>3 DEF Promise!Grow
  <2> QED  BY <2>5, <2>6 DEF Promise!Next
<1>3. ASSUME NEW nbytes \in Requests, MallocFromList(nbytes)  PROVE Promise!Next
  <2>1. brk' = brk
    BY <1>3 DEF MallocFromList
  <2>2. PICK a : a \notin DOMAIN held /\ held' = Put(held, a, nbytes)
    BY <1>3, FromListKept
  <2> QED  BY <1>1, <1>2, <2>1, <2>2
<1>4. ASSUME NEW nbytes \in Requests, MallocMoreCore(nbytes)  PROVE Promise!Next
  <2>1. brk <= brk'
    <3>1. PICK n, m : n = nunits(nbytes) /\ m = MoreUnits(n)
      OBVIOUS
    <3>2. brk' = brk + PagesFor(m) * PageUnits
      BY <1>4, <3>1 DEF MallocMoreCore
    <3>3. PagesFor(m) * PageUnits \in Nat
      BY <3>1, UnitCounts
    <3> QED  BY <1>1, <3>2, <3>3
  <2>2. PICK a : a \notin DOMAIN held /\ held' = Put(held, a, nbytes)
    BY <1>4, MoreCoreStepKept
  <2> QED  BY <1>2, <2>1, <2>2
<1>5. ASSUME NEW a \in DOMAIN held, Free(a)  PROVE Promise!Next
  <2>1. held' = Without(held, a) /\ brk' = brk
    BY <1>5 DEF Free
  <2>2. Promise!Free
    BY <2>1 DEF Promise!Free, Promise!Without, Without
  <2>3. Promise!Grow
    BY <2>1 DEF Promise!Grow
  <2> QED  BY <2>2, <2>3 DEF Promise!Next
<1>6. CASE UNCHANGED vars
  BY <1>6 DEF vars
<1> QED  BY <1>3, <1>4, <1>5, <1>6 DEF Next

(* ImplementsAllocator: what malloc() hands out is as long as was asked    *)
(* for, lies in memory the program has and shares no unit with any other   *)
(* block of the program, whatever the free list does.                      *)
THEOREM HeapImplementsAllocator == Spec => ImplementsAllocator
<1>1. Init => Promise!Init
  BY DEF Init, Promise!Init
<1>2. HeapInv => HeldApart
  BY HeldAreApart
<1>3. HeapInv /\ HeapInv' /\ HeldApart /\ HeldApart' /\ [Next]_vars
        => [Promise!Next]_<<HeapBegin .. brk - 1, held>>
  BY HeapStepsPromised
<1> QED  BY <1>1, <1>2, <1>3, HeapInvHolds, PTL DEF Spec, ImplementsAllocator, Promise!Spec
=============================================================================
