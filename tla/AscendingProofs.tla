--------------------------- MODULE AscendingProofs ---------------------------
(***************************************************************************)
(* Lemmas about sets of natural numbers, their elements in ascending       *)
(* order, and sequences, which the proofs about several components need.   *)
(***************************************************************************)
EXTENDS Ascending, FiniteSetTheorems, SequenceTheorems, NaturalsInduction,
        WellFoundedInduction, TLAPS

(* A set of numbers has a first one.                                       *)
LEMMA FirstExists ==
  ASSUME NEW S, S \subseteq Nat, S # {}
  PROVE  LET first == CHOOSE i \in S : \A j \in S : i <= j
         IN  first \in S /\ \A j \in S : first <= j
<1>1. IsWellFoundedOn(OpToRel(<, Nat), Nat)
  BY NatLessThanWellFounded
<1>2. PICK x \in S : \A y \in S : ~(<<y, x>> \in OpToRel(<, Nat))
  <2> HIDE DEF OpToRel
  <2> QED  BY <1>1, WFMin
<1>3. \A y \in S : ~(y < x)
  BY <1>2 DEF OpToRel
<1>4. \A y \in S : x <= y
  BY <1>3
<1> QED  BY <1>4

(* What holds for 0 and from each number to the next holds for all.        *)
LEMMA AllNumbers ==
  ASSUME NEW S, S \subseteq Nat, 0 \in S, \A n \in S : n + 1 \in S
  PROVE  \A n \in Nat : n \in S
<1> SUFFICES ASSUME Nat \ S # {}  PROVE FALSE
  OBVIOUS
<1>1. PICK n \in Nat \ S : \A j \in Nat \ S : n <= j
  <2>1. Nat \ S \subseteq Nat
    OBVIOUS
  <2> QED  BY <2>1, FirstExists
<1>2. n # 0 /\ n - 1 \in Nat /\ n - 1 \in S
  BY <1>1
<1> QED  BY <1>1, <1>2

-----------------------------------------------------------------------------
(* Sets in ascending order *)

(* Of two numbers of a set the higher one has more up to it.               *)
LEMMA RankUnique ==
  ASSUME NEW S, S \subseteq Nat, IsFiniteSet(S), NEW x \in S, NEW z \in S,
         Cardinality(UpTo(S, x)) = Cardinality(UpTo(S, z))
  PROVE  x = z
<1>1. \A u, v \in S : u < v => Cardinality(UpTo(S, u)) # Cardinality(UpTo(S, v))
  <2>1. SUFFICES ASSUME NEW u \in S, NEW v \in S, u < v,
                        Cardinality(UpTo(S, u)) = Cardinality(UpTo(S, v))
                 PROVE  FALSE
    OBVIOUS
  <2>2. UpTo(S, v) \in SUBSET S
    BY DEF UpTo
  <2>3. UpTo(S, u) \in SUBSET UpTo(S, v)
    <3>1. ASSUME NEW y \in S, y <= u  PROVE y <= v
      <4>1. y \in Nat /\ u \in Nat /\ v \in Nat
        OBVIOUS
      <4> QED  BY <2>1, <3>1, <4>1
    <3> QED  BY <3>1 DEF UpTo
  <2>4. IsFiniteSet(UpTo(S, v))
    BY <2>2, FS_Subset
  <2>5. UpTo(S, u) = UpTo(S, v)
    BY <2>1, <2>3, <2>4, FS_Subset
  <2>6. v \in UpTo(S, v) /\ v \notin UpTo(S, u)
    BY <2>1 DEF UpTo
  <2> QED  BY <2>5, <2>6
<1> QED  BY <1>1

(* For every count there is a number that has as many up to it.            *)
LEMMA RankExists ==
  ASSUME NEW S, S \subseteq Nat, IsFiniteSet(S), NEW k \in 1 .. Cardinality(S)
  PROVE  \E x \in S : Cardinality(UpTo(S, x)) = k
<1>1. Cardinality(S) \in Nat
  BY FS_CardinalityType
<1> DEFINE R == {n \in Nat : n + 1 <= Cardinality(S)
                               => \E x \in S : Cardinality(UpTo(S, x)) = n + 1}
<1>2. 0 \in R
  <2>1. SUFFICES ASSUME 1 <= Cardinality(S)
                 PROVE  \E x \in S : Cardinality(UpTo(S, x)) = 1
    OBVIOUS
  <2>2. S # {}
    BY <1>1, <2>1, FS_EmptySet
  <2>3. PICK x \in S : \A y \in S : x <= y
    BY <2>2, FirstExists
  <2>4. UpTo(S, x) = {x}
    <3>1. ASSUME NEW y \in S, y <= x  PROVE y = x
      <4>1. y \in Nat /\ x \in Nat /\ x <= y
        BY <2>3
      <4> QED  BY <3>1, <4>1
    <3>2. x \in Nat /\ x <= x
      OBVIOUS
    <3> QED  BY <3>1, <3>2 DEF UpTo
  <2>5. Cardinality({x}) = 1
    BY FS_Singleton
  <2> QED  BY <2>4, <2>5
<1>3. ASSUME NEW n \in R  PROVE n + 1 \in R
  <2>1. n \in Nat /\ (n + 1 <= Cardinality(S)
                        => \E x \in S : Cardinality(UpTo(S, x)) = n + 1)
    OBVIOUS
  <2>2. SUFFICES ASSUME n + 2 <= Cardinality(S)
                 PROVE  \E x \in S : Cardinality(UpTo(S, x)) = n + 2
    BY <2>1
  <2>3. PICK x \in S : Cardinality(UpTo(S, x)) = n + 1
    BY <1>1, <2>1, <2>2
  <2>4. PICK T : T = {y \in S : x < y}
    OBVIOUS
  <2>5. T # {}
    <3>1. ASSUME T = {}  PROVE FALSE
      <4>1. UpTo(S, x) = S
        <5>1. ASSUME NEW y \in S  PROVE y <= x
          <6>1. y \in Nat /\ x \in Nat /\ ~(x < y)
            BY <2>4, <3>1
          <6> QED  BY <6>1
        <5> QED  BY <5>1 DEF UpTo
      <4> QED  BY <1>1, <2>1, <2>2, <2>3, <4>1
    <3> QED  BY <3>1
  <2>6. PICK z \in T : \A y \in T : z <= y
    <3>1. T \subseteq Nat
      BY <2>4
    <3> QED  BY <2>5, <3>1, FirstExists
  <2>7. z \in S /\ x < z /\ \A y \in S : x < y => z <= y
    BY <2>4, <2>6
  <2>8. UpTo(S, z) = UpTo(S, x) \cup {z} /\ z \notin UpTo(S, x)
    <3>1. ASSUME NEW y \in S  PROVE y <= z <=> (y <= x \/ y = z)
      <4>1. y \in Nat /\ x \in Nat /\ z \in Nat /\ x < z /\ (x < y => z <= y)
        BY <2>7
      <4> QED  BY <4>1
    <3>2. z \in Nat /\ x \in Nat /\ ~(z <= x)
      BY <2>7
    <3> QED  BY <2>7, <3>1, <3>2 DEF UpTo
  <2>9. IsFiniteSet(UpTo(S, x))
    <3>1. UpTo(S, x) \in SUBSET S
      BY DEF UpTo
    <3> QED  BY <3>1, FS_Subset
  <2>10. Cardinality(UpTo(S, z)) = n + 1 + 1
    BY <2>3, <2>8, <2>9, FS_AddElement
  <2>11. n + 1 + 1 = n + 2
    BY <2>1
  <2> QED  BY <2>7, <2>10, <2>11
<1>4. \A n \in Nat : n \in R
  <2>1. R \subseteq Nat
    OBVIOUS
  <2> HIDE DEF R
  <2> QED  BY <1>2, <1>3, <2>1, AllNumbers
<1>5. k - 1 \in Nat /\ (k - 1) + 1 = k /\ k <= Cardinality(S)
  BY <1>1
<1> QED  BY <1>4, <1>5

(* Sorted has every number of the set at the place that its rank says.     *)
LEMMA SortedIs ==
  ASSUME NEW S, S \subseteq Nat, IsFiniteSet(S), NEW k \in 1 .. Cardinality(S),
         NEW x \in S, Cardinality(UpTo(S, x)) = k
  PROVE  Sorted(S)[k] = x
<1> DEFINE z == CHOOSE y \in S : Cardinality(UpTo(S, y)) = k
<1>1. z \in S /\ Cardinality(UpTo(S, z)) = k
  OBVIOUS
<1>2. Sorted(S)[k] = z
  BY DEF Sorted, UpTo
<1> HIDE DEF z
<1>3. z = x
  BY <1>1, RankUnique
<1> QED  BY <1>2, <1>3

LEMMA SortedElements ==
  ASSUME NEW S, S \subseteq Nat, IsFiniteSet(S)
  PROVE  /\ DOMAIN Sorted(S) = 1 .. Cardinality(S)
         /\ \A k \in 1 .. Cardinality(S) :
              Sorted(S)[k] \in S /\ Cardinality(UpTo(S, Sorted(S)[k])) = k
<1>1. DOMAIN Sorted(S) = 1 .. Cardinality(S)
  BY DEF Sorted
<1>2. ASSUME NEW k \in 1 .. Cardinality(S)
      PROVE  Sorted(S)[k] \in S /\ Cardinality(UpTo(S, Sorted(S)[k])) = k
  <2>1. PICK x \in S : Cardinality(UpTo(S, x)) = k
    BY RankExists
  <2>2. Sorted(S)[k] = x
    BY <2>1, SortedIs
  <2> QED  BY <2>1, <2>2
<1> QED  BY <1>1, <1>2

(* A number behind all others goes to the end. *)
LEMMA SortedAdd ==
  ASSUME NEW S, S \subseteq Nat, IsFiniteSet(S), NEW x \in Nat, \A y \in S : y < x
  PROVE  /\ Cardinality(S \cup {x}) = Cardinality(S) + 1
         /\ Sorted(S \cup {x})[Cardinality(S) + 1] = x
         /\ \A k \in 1 .. Cardinality(S) : Sorted(S \cup {x})[k] = Sorted(S)[k]
<1>0. PICK T : T = S \cup {x}
  OBVIOUS
<1>1. x \notin S
  OBVIOUS
<1>2. /\ IsFiniteSet(T) /\ T \subseteq Nat /\ Cardinality(S) \in Nat
      /\ Cardinality(T) = Cardinality(S) + 1
  BY <1>0, <1>1, FS_AddElement, FS_CardinalityType
<1>3. Sorted(T)[Cardinality(T)] = x
  <2>1. UpTo(T, x) = T
    <3>1. ASSUME NEW y \in T  PROVE y <= x
      <4>1. y \in Nat /\ (y < x \/ y = x)
        BY <1>0, <1>2
      <4> QED  BY <4>1
    <3> QED  BY <3>1 DEF UpTo
  <2>2. Cardinality(T) \in 1 .. Cardinality(T) /\ x \in T
    BY <1>0, <1>2
  <2>3. Cardinality(UpTo(T, x)) = Cardinality(T)
    BY <2>1
  <2> QED  BY <1>2, <2>2, <2>3, SortedIs
<1>4. ASSUME NEW k \in 1 .. Cardinality(S)  PROVE Sorted(T)[k] = Sorted(S)[k]
  <2>1. PICK z \in S : z = Sorted(S)[k] /\ Cardinality(UpTo(S, z)) = k
    BY SortedElements
  <2>2. UpTo(T, z) = UpTo(S, z)
    <3>1. z \in Nat /\ z < x /\ ~(x <= z)
      BY <2>1
    <3> QED  BY <1>0, <3>1 DEF UpTo
  <2>3. z \in T /\ k \in 1 .. Cardinality(T)
    BY <1>0, <1>2
  <2>4. Cardinality(UpTo(T, z)) = k
    BY <2>1, <2>2
  <2>5. Sorted(T)[k] = z
    BY <1>2, <2>3, <2>4, SortedIs
  <2> QED  BY <2>1, <2>5
<1> QED  BY <1>0, <1>2, <1>3, <1>4

(* The first one is at the first place, and when it goes the others move   *)
(* up by one.                                                              *)
LEMMA SortedDrop ==
  ASSUME NEW S, S \subseteq Nat, IsFiniteSet(S), NEW x \in S, \A y \in S : x <= y
  PROVE  /\ Cardinality(S) >= 1 /\ Sorted(S)[1] = x
         /\ Cardinality(S \ {x}) = Cardinality(S) - 1
         /\ \A k \in 1 .. Cardinality(S) - 1 : Sorted(S \ {x})[k] = Sorted(S)[k + 1]
<1>0. PICK T : T = S \ {x}
  OBVIOUS
<1>1. /\ IsFiniteSet(T) /\ T \subseteq Nat /\ Cardinality(S) \in Nat /\ Cardinality(T) \in Nat
      /\ Cardinality(T) = Cardinality(S) - 1 /\ Cardinality(S) >= 1
  <2>1. IsFiniteSet(T) /\ T \subseteq Nat /\ Cardinality(S) \in Nat /\ Cardinality(T) \in Nat
    BY <1>0, FS_RemoveElement, FS_CardinalityType
  <2>2. Cardinality(T) = Cardinality(S) - 1
    BY <1>0, FS_RemoveElement
  <2> QED  BY <2>1, <2>2
<1>2. Sorted(S)[1] = x
  <2>1. UpTo(S, x) = {x}
    <3>1. ASSUME NEW y \in S  PROVE y <= x <=> y = x
      <4>1. y \in Nat /\ x \in Nat /\ x <= y
        OBVIOUS
      <4> QED  BY <4>1
    <3> QED  BY <3>1 DEF UpTo
  <2>2. Cardinality(UpTo(S, x)) = 1
    BY <2>1, FS_Singleton
  <2>3. 1 \in 1 .. Cardinality(S)
    BY <1>1
  <2> QED  BY <2>2, <2>3, SortedIs
<1>3. ASSUME NEW k \in 1 .. Cardinality(S) - 1  PROVE Sorted(T)[k] = Sorted(S)[k + 1]
  <2>0. k + 1 \in 1 .. Cardinality(S) /\ k \in Nat /\ k + 1 # 1 /\ k \in 1 .. Cardinality(T)
    BY <1>1
  <2>1. PICK z \in S : z = Sorted(S)[k + 1] /\ Cardinality(UpTo(S, z)) = k + 1
    BY <2>0, SortedElements
  <2>2. z # x
    <3>1. UpTo(S, x) = {x}
      <4>1. ASSUME NEW y \in S  PROVE y <= x <=> y = x
        <5>1. y \in Nat /\ x \in Nat /\ x <= y
          OBVIOUS
        <5> QED  BY <5>1
      <4> QED  BY <4>1 DEF UpTo
    <3>2. Cardinality(UpTo(S, x)) = 1
      BY <3>1, FS_Singleton
    <3> QED  BY <2>0, <2>1, <3>2
  <2>3. UpTo(T, z) = UpTo(S, z) \ {x} /\ x \in UpTo(S, z)
    BY <1>0 DEF UpTo
  <2>4. IsFiniteSet(UpTo(S, z))
    <3>1. UpTo(S, z) \in SUBSET S
      BY DEF UpTo
    <3> QED  BY <3>1, FS_Subset
  <2>5. Cardinality(UpTo(T, z)) = k
    <3>1. Cardinality(UpTo(T, z)) = Cardinality(UpTo(S, z)) - 1
      BY <2>3, <2>4, FS_RemoveElement
    <3> QED  BY <2>0, <2>1, <3>1
  <2>6. z \in T
    BY <1>0, <2>2
  <2>7. Sorted(T)[k] = z
    BY <1>1, <2>0, <2>5, <2>6, SortedIs
  <2> QED  BY <2>1, <2>7
<1> QED  BY <1>0, <1>1, <1>2, <1>3

(* Nothing of the set is behind the last place. *)
LEMMA SortedLast ==
  ASSUME NEW S, S \subseteq Nat, IsFiniteSet(S), Cardinality(S) >= 1
  PROVE  /\ Sorted(S)[Cardinality(S)] \in S
         /\ \A y \in S : y <= Sorted(S)[Cardinality(S)]
<1>1. Cardinality(S) \in 1 .. Cardinality(S)
  BY FS_CardinalityType
<1>2. PICK z \in S : z = Sorted(S)[Cardinality(S)] /\ Cardinality(UpTo(S, z)) = Cardinality(S)
  BY <1>1, SortedElements
<1>3. UpTo(S, z) \in SUBSET S
  BY DEF UpTo
<1>4. UpTo(S, z) = S
  BY <1>2, <1>3, FS_Subset
<1>5. \A y \in S : y <= z
  BY <1>4 DEF UpTo
<1> QED  BY <1>2, <1>5

-----------------------------------------------------------------------------
(* Sequences that are given as functions *)

(* Their length. *)
LEMMA SeqIs ==
  ASSUME NEW n \in Nat, NEW S, NEW f \in [1 .. n -> S]
  PROVE  f \in Seq(S) /\ Len(f) = n /\ (f = << >> <=> n = 0)
<1>1. f \in Seq(S)
  BY SeqDef
<1>2. Len(f) \in Nat /\ DOMAIN f = 1 .. Len(f) /\ DOMAIN f = 1 .. n
  BY <1>1, LenProperties
<1>3. Len(f) = n
  BY <1>2
<1> QED  BY <1>1, <1>3, EmptySeq

(* One element more at the end. *)
LEMMA AppendIs ==
  ASSUME NEW n \in Nat, NEW S, NEW f \in [1 .. n -> S], NEW c \in S,
         NEW g \in [1 .. n + 1 -> S], g[n + 1] = c,
         \A k \in 1 .. n : g[k] = f[k]
  PROVE  g = Append(f, c)
<1>1. f \in Seq(S) /\ Len(f) = n
  BY SeqIs
<1>2. g \in Seq(S) /\ Len(g) = n + 1
  BY SeqIs
<1>3. PICK h : h = Append(f, c)
  OBVIOUS
<1>4. /\ h \in Seq(S) /\ Len(h) = n + 1 /\ h[n + 1] = c
      /\ \A i \in 1 .. n : h[i] = f[i]
  BY <1>1, <1>3, AppendProperties
<1>5. \A i \in 1 .. n + 1 : g[i] = h[i]
  BY <1>4
<1> QED  BY <1>2, <1>3, <1>4, <1>5, SeqEqual

(* One element less at the end. *)
LEMMA FrontIs ==
  ASSUME NEW n \in Nat, NEW S, NEW f \in [1 .. n + 1 -> S], NEW g \in [1 .. n -> S],
         \A k \in 1 .. n : g[k] = f[k]
  PROVE  f # << >> /\ g = SubSeq(f, 1, Len(f) - 1)
<1>1. f \in Seq(S) /\ Len(f) = n + 1 /\ f # << >>
  BY SeqIs
<1>2. g \in Seq(S) /\ Len(g) = n
  BY SeqIs
<1>3. PICK h : h = SubSeq(f, 1, n)
  OBVIOUS
<1>4. /\ h \in Seq(S) /\ Len(h) = n
      /\ \A i \in 1 .. n : h[i] = f[i]
  <2>1. \A i \in 1 .. n : f[i] \in S
    OBVIOUS
  <2>2. /\ SubSeq(f, 1, n) \in Seq(S)
        /\ Len(SubSeq(f, 1, n)) = IF 1 <= n THEN n - 1 + 1 ELSE 0
        /\ \A i \in 1 .. n - 1 + 1 : SubSeq(f, 1, n)[i] = f[1 + i - 1]
    BY <2>1, SubSeqProperties
  <2> QED  BY <1>3, <2>2
<1>5. g = h
  BY <1>2, <1>4, SeqEqual
<1>6. Len(f) - 1 = n
  BY <1>1
<1> QED  BY <1>1, <1>3, <1>5, <1>6

(* One element less at the beginning. *)
LEMMA TailIs ==
  ASSUME NEW n \in Nat, NEW S, NEW f \in [1 .. n + 1 -> S], NEW g \in [1 .. n -> S],
         \A k \in 1 .. n : g[k] = f[k + 1]
  PROVE  f # << >> /\ Head(f) = f[1] /\ g = Tail(f)
<1>1. f \in Seq(S) /\ Len(f) = n + 1 /\ f # << >>
  BY SeqIs
<1>2. g \in Seq(S) /\ Len(g) = n
  BY SeqIs
<1>3. PICK h : h = Tail(f)
  OBVIOUS
<1>4. h \in Seq(S) /\ Len(h) = n /\ \A i \in 1 .. n : h[i] = f[i + 1]
  BY <1>1, <1>3, HeadTailProperties
<1>5. g = h
  BY <1>2, <1>4, SeqEqual
<1>6. Head(f) = f[1]
  BY <1>1
<1> QED  BY <1>1, <1>3, <1>5, <1>6
=============================================================================
