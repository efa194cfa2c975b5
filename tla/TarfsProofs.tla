------------------------------ MODULE TarfsProofs ------------------------------
(***************************************************************************)
(* Proof about module Tarfs, for every archive, every number of slots and  *)
(* every size of their tables: a program's descriptors stay its own.       *)
(***************************************************************************)
EXTENDS Tarfs, AscendingProofs

-----------------------------------------------------------------------------
(* The archive *)

Headers == [parts : Seq(STRING), slash : BOOLEAN]

(* What init_tarfs() finds: the archive and the end mark. *)
LEMMA HeadersAre ==
  /\ Archive \in Seq(Headers) /\ headers \in Seq(Headers)
  /\ Len(Archive) \in Nat /\ Len(headers) = Len(Archive) + 1
  /\ DOMAIN Archive = 1 .. Len(Archive) /\ Files = 1 .. Len(headers)
  /\ \A i \in DOMAIN Archive : headers[i] = Archive[i] /\ i \in Files
  /\ headers[Len(headers)] = EndMark
<1>1. Archive \in Seq(Headers)
  BY ArchiveAssumption DEF Headers
<1>2. EndMark \in Headers
  BY EmptySeq DEF EndMark, Headers
<1>3. Len(Archive) \in Nat /\ DOMAIN Archive = 1 .. Len(Archive)
  BY <1>1, LenProperties
<1>4. /\ headers \in Seq(Headers) /\ Len(headers) = Len(Archive) + 1
      /\ \A i \in 1 .. Len(Archive) : headers[i] = Archive[i]
      /\ headers[Len(Archive) + 1] = EndMark
  BY <1>1, <1>2, AppendProperties DEF headers
<1>5. Files = 1 .. Len(headers)
  BY <1>4, LenProperties DEF Files
<1> HIDE DEF headers, Files
<1> QED  BY <1>1, <1>3, <1>4, <1>5

(* What a file of the archive is called. *)
LEMMA NamesAre ==
  ASSUME NEW i \in DOMAIN Archive
  PROVE  /\ Archive[i] = [parts |-> Archive[i].parts, slash |-> Archive[i].slash]
         /\ Archive[i].parts \in Seq(STRING) /\ Archive[i].slash \in BOOLEAN
         /\ Len(Archive[i].parts) \in 1 .. 2
         /\ \A k \in 1 .. Len(Archive[i].parts) : Archive[i].parts[k] # Up
         /\ Archive[i].slash <=> Len(Archive[i].parts) = 1
         /\ i \in Files /\ i \in Nat /\ i <= MaxScan /\ headers[i] = Archive[i]
<1>1. Archive[i] \in Headers
  BY HeadersAre, ElementOfSeq
<1>2. /\ Archive[i] = [parts |-> Archive[i].parts, slash |-> Archive[i].slash]
      /\ Archive[i].parts \in Seq(STRING) /\ Archive[i].slash \in BOOLEAN
  BY <1>1 DEF Headers
<1>3. DOMAIN Archive[i].parts = 1 .. Len(Archive[i].parts)
  BY <1>2, LenProperties
<1>4. i \in Nat /\ i <= Len(headers)
  <2> HIDE DEF headers
  <2> QED  BY HeadersAre
<1>5. /\ Len(Archive[i].parts) \in 1 .. 2
      /\ \A k \in DOMAIN Archive[i].parts : Archive[i].parts[k] # Up
      /\ Archive[i].slash <=> Len(Archive[i].parts) = 1
  BY ArchiveAssumption
<1>6. Len(headers) <= MaxScan
  BY ArchiveAssumption
<1>7. i <= MaxScan
  <2>1. MaxScan \in Nat /\ Len(headers) \in Nat
    BY HeadersAre, ArchiveAssumption
  <2> QED  BY <1>4, <1>6, <2>1
<1> QED  BY <1>2, <1>3, <1>4, <1>5, <1>7, HeadersAre

-----------------------------------------------------------------------------
(* Where a path leads *)

(* Paths of at most three parts lead where each part in turn leads to.     *)
LEMMA WalkedIs ==
  ASSUME NEW from, NEW parts, NEW n \in 1 .. 3, Len(parts) = n,
         NEW a, a = Walk(from, parts[1]),
         NEW b, b = Walk(a, parts[2]),
         NEW c, c = Walk(b, parts[3])
  PROVE  Walked(from, parts) = IF n = 1 THEN a ELSE IF n = 2 THEN b ELSE c
<1> DEFINE Is(g) == g = [k \in 0 .. n |-> IF k = 0 THEN from
                                          ELSE Walk(g[k - 1], parts[k])]
<1> DEFINE h == [k \in 0 .. n |-> IF k = 0 THEN from ELSE IF k = 1 THEN a
                                  ELSE IF k = 2 THEN b ELSE c]
<1>1. Is(h)
  <2>1. ASSUME NEW k \in 0 .. n, k # 0  PROVE h[k] = Walk(h[k - 1], parts[k])
    <3>1. k \in 1 .. 3 /\ k - 1 \in 0 .. n
      BY <2>1
    <3>2. CASE k = 1
      BY <3>1, <3>2
    <3>3. CASE k = 2
      BY <3>1, <3>3
    <3>4. CASE k = 3
      BY <3>1, <3>4
    <3> QED  BY <3>1, <3>2, <3>3, <3>4
  <2> QED  BY <2>1
<1>2. PICK g : g = CHOOSE f : Is(f)
  OBVIOUS
<1>3. Is(g)
  <2> HIDE DEF Is, h
  <2> QED  BY <1>1, <1>2
<1>4. Walked(from, parts) = g[n]
  BY <1>2 DEF Walked
<1>5. g[1] = a
  BY <1>3
<1>6. n >= 2 => g[2] = b
  BY <1>3, <1>5
<1>7. n >= 3 => g[3] = c
  BY <1>3, <1>6
<1> HIDE DEF Is, h
<1> QED  BY <1>4, <1>5, <1>6, <1>7

(* The name of a file leads to it from the root.                           *)
LEMMA WalkDown ==
  ASSUME NEW W, NEW p \in Seq(W), Len(p) \in 1 .. 2,
         \A k \in 1 .. Len(p) : p[k] # Up
  PROVE  Walked(<< >>, p) = p
<1>1. PICK n : n = Len(p)
  OBVIOUS
<1>2. PICK x, y : x = p[1] /\ y = p[2]
  OBVIOUS
<1>3. n \in 1 .. 2 /\ x \in W /\ x # Up /\ (n = 2 => y \in W /\ y # Up)
  BY <1>1, <1>2, ElementOfSeq
<1>4. PICK a, b, c : a = Walk(<< >>, x) /\ b = Walk(a, y) /\ c = Walk(b, p[3])
  OBVIOUS
<1>5. Walked(<< >>, p) = IF n = 1 THEN a ELSE IF n = 2 THEN b ELSE c
  <2>1. n \in 1 .. 3
    BY <1>3
  <2> QED  BY <1>1, <1>2, <1>4, <2>1, WalkedIs
<1>6. a = Append(<< >>, x) /\ (n = 2 => b = Append(a, y))
  BY <1>3, <1>4 DEF Walk
<1>7. /\ a \in Seq(W) /\ Len(a) = 1 /\ a[1] = x
  <2>1. << >> \in Seq(W) /\ Len(<< >>) = 0
    BY EmptySeq
  <2> QED  BY <1>3, <1>6, <2>1, AppendProperties
<1>8. CASE n = 1
  <2>1. \A i \in 1 .. 1 : a[i] = p[i]
    BY <1>2, <1>7
  <2>2. a = p
    BY <1>1, <1>7, <1>8, <2>1, SeqEqual
  <2> QED  BY <1>5, <1>8, <2>2
<1>9. CASE n = 2
  <2>0. y \in W /\ b = Append(a, y)
    BY <1>3, <1>6, <1>9
  <2>1. b \in Seq(W) /\ Len(b) = 2 /\ b[1] = x /\ b[2] = y
    <3>1. PICK e : e = Append(a, y)
      OBVIOUS
    <3>2. /\ e \in Seq(W) /\ Len(e) = Len(a) + 1 /\ e[Len(a) + 1] = y
          /\ \A i \in 1 .. Len(a) : e[i] = a[i]
      BY <1>7, <2>0, <3>1, AppendProperties
    <3>3. b = e
      BY <2>0, <3>1
    <3> QED  BY <1>7, <3>2, <3>3
  <2>2. \A i \in 1 .. 2 : b[i] = p[i]
    BY <1>2, <2>1
  <2>3. b = p
    BY <1>1, <1>9, <2>1, <2>2, SeqEqual
  <2> QED  BY <1>5, <1>9, <2>3
<1> QED  BY <1>3, <1>8, <1>9

(* The same from a directory of the root, by way of the root.              *)
LEMMA WalkUpDown ==
  ASSUME NEW W, Up \in W, NEW from \in Seq(W), Len(from) = 1,
         NEW p \in Seq(W), Len(p) \in 1 .. 2,
         \A k \in 1 .. Len(p) : p[k] # Up
  PROVE  Walked(from, << Up >> \o p) = p
<1>1. PICK n, m, q : n = Len(p) /\ m = n + 1 /\ q = << Up >> \o p
  OBVIOUS
<1>2. PICK u : u = << Up >>
  OBVIOUS
<1>10. u \in Seq(W) /\ Len(u) = 1 /\ u[1] = Up
  BY <1>2
<1>3. /\ q \in Seq(W) /\ Len(q) = m /\ m \in 2 .. 3
      /\ q[1] = Up /\ q[2] = p[1] /\ (n = 2 => q[3] = p[2])
  <2>1. /\ u \o p \in Seq(W) /\ Len(u \o p) = Len(u) + Len(p)
        /\ \A i \in 1 .. Len(u) + Len(p) : (u \o p)[i] =
              IF i <= Len(u) THEN u[i] ELSE p[i - Len(u)]
    BY <1>10, ConcatProperties
  <2>2. q = u \o p
    BY <1>1, <1>2
  <2>3. /\ q \in Seq(W) /\ Len(q) = 1 + n /\ n \in 1 .. 2
        /\ \A i \in 1 .. 1 + n : q[i] = IF i <= 1 THEN u[i] ELSE p[i - 1]
    BY <1>1, <1>10, <2>1, <2>2
  <2>8. m = n + 1
    BY <1>1
  <2>4. Len(q) = m /\ m \in 2 .. 3
    BY <2>3, <2>8
  <2>5. q[1] = Up
    BY <1>10, <2>3
  <2>6. q[2] = p[1]
    BY <2>3
  <2>7. n = 2 => q[3] = p[2]
    BY <2>3
  <2> QED  BY <2>3, <2>4, <2>5, <2>6, <2>7
<1>4. Walk(from, Up) = << >>
  <2>1. Front(from) = << >>
    BY SubSeqEmpty DEF Front
  <2> QED  BY <2>1 DEF Walk
<1>5. PICK a, b : a = Walk(<< >>, p[1]) /\ b = Walk(a, p[2])
  OBVIOUS
<1>6. Walked(from, q) = IF m = 2 THEN a ELSE b
  <2>1. PICK c : c = Walk(a, q[3])
    OBVIOUS
  <2>2. m \in 1 .. 3 /\ m # 1
    BY <1>3
  <2>3. << >> = Walk(from, q[1]) /\ a = Walk(<< >>, q[2])
    BY <1>3, <1>4, <1>5
  <2>4. Walked(from, q) = IF m = 1 THEN << >> ELSE IF m = 2 THEN a ELSE c
    BY ONLY <1>3, <2>1, <2>2, <2>3, WalkedIs
  <2>5. m = 3 => c = b
    BY <1>1, <1>3, <1>5, <2>1
  <2>6. m = 2 \/ m = 3
    BY <1>3
  <2> QED  BY <2>2, <2>4, <2>5, <2>6
<1>7. Walked(<< >>, p) = IF n = 1 THEN a ELSE b
  <2>1. PICK c : c = Walk(b, p[3])
    OBVIOUS
  <2>2. n \in 1 .. 3 /\ n \in 1 .. 2
    BY <1>1
  <2>3. Walked(<< >>, p) = IF n = 1 THEN a ELSE IF n = 2 THEN b ELSE c
    BY <1>1, <1>5, <2>1, <2>2, WalkedIs
  <2> QED  BY <2>2, <2>3
<1>8. n \in 1 .. 2 /\ m = n + 1
  BY <1>1
<1>9. (m = 2) <=> (n = 1)
  BY <1>8
<1> QED  BY <1>1, <1>6, <1>7, <1>9, WalkDown

(* The last part of its name leads to a file from its directory.           *)
LEMMA WalkBeside ==
  ASSUME NEW W, NEW p \in Seq(W), Len(p) \in 1 .. 2, p[Len(p)] # Up
  PROVE  Walked(Front(p), << Last(p) >>) = p
<1>1. PICK n, x, f : n = Len(p) /\ x = p[n] /\ f = Front(p)
  OBVIOUS
<1>2. n \in 1 .. 2 /\ x \in W /\ x # Up
  BY <1>1, ElementOfSeq
<1>3. /\ f \in Seq(W) /\ Len(f) = n - 1
      /\ \A i \in 1 .. n - 1 : f[i] = p[i]
  <2>1. n - 1 \in Int /\ 1 \in Int /\ \A i \in 1 .. n - 1 : p[i] \in W
    BY <1>1, <1>2, ElementOfSeq
  <2>2. /\ SubSeq(p, 1, n - 1) \in Seq(W)
        /\ Len(SubSeq(p, 1, n - 1)) = IF 1 <= n - 1 THEN (n - 1) - 1 + 1 ELSE 0
        /\ \A i \in 1 .. (n - 1) - 1 + 1 : SubSeq(p, 1, n - 1)[i] = p[1 + i - 1]
    BY <2>1, SubSeqProperties
  <2>3. f = SubSeq(p, 1, n - 1)
    BY <1>1 DEF Front
  <2> QED  BY <1>2, <2>2, <2>3
<1>4. PICK q : q = << x >>
  OBVIOUS
<1>5. Len(q) = 1 /\ q[1] = x
  BY <1>4
<1>6. PICK a, b, c : a = Walk(f, q[1]) /\ b = Walk(a, q[2]) /\ c = Walk(b, q[3])
  OBVIOUS
<1>7. Walked(f, q) = a
  <2>1. PICK one : one = 1
    OBVIOUS
  <2>2. one \in 1 .. 3 /\ Len(q) = one
    BY <1>5, <2>1
  <2>3. Walked(f, q) = IF one = 1 THEN a ELSE IF one = 2 THEN b ELSE c
    BY <1>6, <2>2, WalkedIs
  <2> QED  BY <2>1, <2>3
<1>8. a = Append(f, x)
  BY <1>2, <1>5, <1>6 DEF Walk
<1>9. /\ a \in Seq(W) /\ Len(a) = n /\ a[n] = x
      /\ \A i \in 1 .. n - 1 : a[i] = p[i]
  BY <1>2, <1>3, <1>8, AppendProperties
<1>10. \A i \in 1 .. n : a[i] = p[i]
  <2>1. ASSUME NEW i \in 1 .. n  PROVE a[i] = p[i]
    <3>1. i = n \/ i \in 1 .. n - 1
      BY <1>2
    <3> QED  BY <1>1, <1>9, <3>1
  <2> QED  BY <2>1
<1>11. a = p
  BY <1>1, <1>9, <1>10, SeqEqual
<1>12. Last(p) = x
  BY <1>1 DEF Last
<1> QED  BY <1>1, <1>4, <1>7, <1>11, <1>12

(* A lookup finds a header of the archive, or nothing.                     *)
LEMMA LookupFinds ==
  ASSUME NEW cwd, NEW path, isfileexists(cwd, path) # None
  PROVE  /\ isfileexists(cwd, path) \in Files
         /\ headers[isfileexists(cwd, path)] = deriveRelative(cwd, path)
<1> DEFINE named == {i \in Files : i <= MaxScan /\ headers[i] = deriveRelative(cwd, path)}
<1>1. named \subseteq Nat /\ named \subseteq Files
  BY HeadersAre
<1>2. named # {} /\ isfileexists(cwd, path) = CHOOSE i \in named : \A j \in named : i <= j
  BY DEF isfileexists
<1>3. isfileexists(cwd, path) \in named
  <2> HIDE DEF named
  <2> QED  BY <1>1, <1>2, FirstExists
<1> QED  BY <1>3

(* A path that derives the name of a file of the archive finds that file:  *)
(* no two have the same name.                                              *)
LEMMA FileFound ==
  ASSUME NEW i \in DOMAIN Archive, NEW cwd, NEW path,
         deriveRelative(cwd, path) = Archive[i]
  PROVE  isfileexists(cwd, path) = i
<1> DEFINE named == {j \in Files : j <= MaxScan /\ headers[j] = deriveRelative(cwd, path)}
<1>1. i \in Files /\ i \in Nat /\ i <= MaxScan /\ headers[i] = Archive[i]
  BY NamesAre
<1>2. ASSUME NEW j \in Files, headers[j] = Archive[i]  PROVE j = i
  <2>1. j \in DOMAIN Archive
    <3>1. CASE j = Len(headers)
      <4>1. Archive[i] = EndMark
        BY <1>2, <3>1, HeadersAre
      <4>2. Len(Archive[i].parts) = 0
        BY <4>1, EmptySeq DEF EndMark
      <4>3. PICK l : l = Len(Archive[i].parts)
        OBVIOUS
      <4>4. l \in 1 .. 2
        BY <4>3, NamesAre
      <4> QED  BY ONLY <4>2, <4>3, <4>4
    <3>2. CASE j # Len(headers)
      <4> HIDE DEF headers, Files
      <4> QED  BY <3>2, HeadersAre
    <3> QED  BY <3>1, <3>2
  <2>2. Archive[j].parts = Archive[i].parts /\ j \in Nat
    BY <1>2, <2>1, NamesAre
  <2>3. ~(j < i) /\ ~(i < j)
    <3>1. \A k \in DOMAIN Archive : \A l \in 1 .. k - 1 : Archive[k].parts # Archive[l].parts
      BY ArchiveAssumption
    <3>2. DOMAIN Archive \subseteq Nat /\ \A k \in DOMAIN Archive : 1 <= k
      BY HeadersAre
    <3>3. j < i => j \in 1 .. i - 1
      BY <1>1, <2>1, <2>2, <3>2
    <3>4. i < j => i \in 1 .. j - 1
      BY <1>1, <2>1, <2>2, <3>2
    <3> QED  BY <2>1, <2>2, <3>1, <3>3, <3>4
  <2> QED  BY <1>1, <2>2, <2>3
<1>3. named = {i}
  BY <1>1, <1>2
<1>4. (CHOOSE k \in named : \A j \in named : k <= j) = i
  <2>1. i <= i
    BY <1>1
  <2> HIDE DEF named
  <2> QED  BY <1>3, <2>1
<1>5. isfileexists(cwd, path) = CHOOSE k \in named : \A j \in named : k <= j
  BY <1>3 DEF isfileexists
<1> QED  BY <1>4, <1>5

(* A relative path that leads to the name of a file derives it.            *)
LEMMA NameDerived ==
  ASSUME NEW i \in DOMAIN Archive, NEW cwd, NEW q,
         Walked(cwd, q) = Archive[i].parts
  PROVE  deriveRelative(cwd, [abs |-> FALSE, parts |-> q, slash |-> Archive[i].slash])
           = Archive[i]
<1>1. PICK p, s : p = Archive[i].parts /\ s = Archive[i].slash
  OBVIOUS
<1>2. /\ Archive[i] = [parts |-> p, slash |-> s] /\ s \in BOOLEAN /\ p # << >>
  <2>1. Len(p) # 0 /\ s \in BOOLEAN /\ Archive[i] = [parts |-> p, slash |-> s]
    <3>1. /\ Archive[i] = [parts |-> Archive[i].parts, slash |-> Archive[i].slash]
          /\ Archive[i].slash \in BOOLEAN /\ Len(Archive[i].parts) \in 1 .. 2
      BY NamesAre
    <3>2. Len(p) \in 1 .. 2
      BY <1>1, <3>1
    <3> QED  BY <1>1, <3>1, <3>2
  <2> QED  BY <2>1, EmptySeq
<1>3. PICK path : path = [abs |-> FALSE, parts |-> q, slash |-> s]
  OBVIOUS
<1>4. path.abs = FALSE /\ path.parts = q /\ path.slash = s
  BY <1>3
<1>5. deriveRelative(cwd, path) = [parts |-> p, slash |-> s /\ p # << >>]
  BY <1>1, <1>4 DEF deriveRelative
<1>6. deriveRelative(cwd, path) = [parts |-> p, slash |-> s]
  BY <1>2, <1>5
<1> QED  BY <1>1, <1>2, <1>3, <1>6

-----------------------------------------------------------------------------
(* The working directory *)

(* It is the root or a directory of the archive. *)
IsDirectory(parts) ==
  \/ parts = << >>
  \/ \E i \in DOMAIN Archive : Archive[i].slash /\ parts = Archive[i].parts

DirectoryInv ==
  /\ DOMAIN curr_dir = Tasks
  /\ alive \subseteq Tasks
  /\ \A t \in Tasks : IsDirectory(curr_dir[t])

(* The directories are one level deep. *)
LEMMA DirectoryIs ==
  ASSUME NEW parts, IsDirectory(parts)
  PROVE  /\ parts \in Seq(STRING)
         /\ (Len(parts) = 0 /\ parts = << >>) \/ Len(parts) = 1
         /\ \A k \in DOMAIN parts : parts[k] # Up
         /\ Dir(parts) \in Range(Archive) \cup {Dir(<< >>)}
<1>1. CASE parts = << >>
  BY <1>1, EmptySeq
<1>2. ASSUME NEW i \in DOMAIN Archive, Archive[i].slash, parts = Archive[i].parts
      PROVE  /\ parts \in Seq(STRING) /\ Len(parts) = 1
             /\ \A k \in DOMAIN parts : parts[k] # Up
             /\ Dir(parts) \in Range(Archive)
  <2>1. /\ Archive[i] = [parts |-> Archive[i].parts, slash |-> Archive[i].slash]
        /\ Archive[i].parts \in Seq(STRING)
        /\ \A k \in 1 .. Len(Archive[i].parts) : Archive[i].parts[k] # Up
        /\ Len(Archive[i].parts) = 1 /\ Archive[i].slash = TRUE
    BY <1>2, NamesAre
  <2>2. Dir(parts) = Archive[i]
    BY <1>2, <2>1 DEF Dir
  <2>3. DOMAIN parts = 1 .. Len(parts)
    BY <1>2, <2>1, LenProperties
  <2> QED  BY <1>2, <2>1, <2>2, <2>3 DEF Range
<1> QED  BY <1>1, <1>2 DEF IsDirectory

(* copytask() finds a slot if there is one.                                *)
LEMMA NewSlot ==
  ASSUME alive \subseteq Tasks, alive # Tasks
  PROVE  newPID \in Tasks
<1>1. Tasks \ alive \subseteq Nat /\ Tasks \ alive # {}
  BY TableAssumption
<1>2. newPID \in Tasks \ alive
  BY <1>1, FirstExists DEF newPID
<1> QED  BY <1>2

(* chdir() goes to a directory or stays. *)
LEMMA ChdirKeeps ==
  ASSUME DirectoryInv, NEW t \in Tasks, NEW path, Chdir(t, path)
  PROVE  DirectoryInv'
<1>1. PICK to : to = deriveRelative(curr_dir[t], WithSlash(path)).parts
  OBVIOUS
<1>2. IsDirectory(to)
  <2>1. CASE to = << >>
    BY <2>1 DEF IsDirectory
  <2>2. CASE isValidDirectory(curr_dir[t], WithSlash(path)) # None
    <3>1. PICK i : i = isfileexists(curr_dir[t], WithSlash(path))
      OBVIOUS
    <3>2. i # None /\ headers[i].slash
      BY <2>2, <3>1 DEF isValidDirectory
    <3>3. i \in Files /\ headers[i] = deriveRelative(curr_dir[t], WithSlash(path))
      BY <3>1, <3>2, LookupFinds
    <3>4. i # Len(headers)
      <4>1. EndMark.slash = FALSE
        BY DEF EndMark
      <4> HIDE DEF EndMark
      <4> QED  BY <3>2, <4>1, HeadersAre
    <3>5. i \in DOMAIN Archive
      <4> HIDE DEF headers, Files
      <4> QED  BY <3>3, <3>4, HeadersAre
    <3>6. headers[i] = Archive[i]
      BY <3>5, HeadersAre
    <3> QED  BY <1>1, <3>2, <3>3, <3>5, <3>6 DEF IsDirectory
  <2> QED  BY <1>1, <2>1, <2>2 DEF Chdir
<1>3. curr_dir' = [curr_dir EXCEPT ![t] = to] /\ alive' = alive
  BY <1>1 DEF Chdir
<1> QED  BY <1>2, <1>3 DEF DirectoryInv

(* And so does every step. *)
LEMMA StepDirectory ==
  ASSUME DirectoryInv, [Next]_vars
  PROVE  DirectoryInv'
<1>1. ASSUME UNCHANGED curr_dir, alive' \subseteq Tasks  PROVE DirectoryInv'
  BY <1>1 DEF DirectoryInv
<1>2. alive \subseteq Tasks
  BY DEF DirectoryInv
<1>3. CASE UNCHANGED vars
  BY <1>1, <1>2, <1>3 DEF vars
<1>4. CASE Next
  <2>1. PICK t \in alive : Call(t)
    BY <1>4 DEF Next
  <2>2. t \in Tasks
    BY <1>2
  <2>3. CASE \E path \in Paths : Chdir(t, path)
    BY <2>2, <2>3, ChdirKeeps
  <2>4. CASE \E path \in Paths : Open(t, path) \/ OpenBehind(t, path)
    BY <1>1, <1>2, <2>4 DEF Open, Opened, OpenBehind
  <2>5. CASE \E path \in Paths \cup {getCurrentDirectory(t)} :
               OpenRoot(t, path) \/ OpenDir(t, path)
    BY <1>1, <1>2, <2>5 DEF OpenRoot, OpenDir, Opened
  <2>6. CASE \E f \in DOMAIN mine[t] : ReadDir(t, f) \/ Close(t, f)
    BY <1>1, <1>2, <2>6 DEF ReadDir, Close
  <2>7. CASE (\E command \in Commands : Exec(t, command)) \/ Exit(t)
    BY <1>1, <1>2, <2>7 DEF Exec, Exit
  <2>8. CASE Fork(t)
    <3>1. newPID \in Tasks
      BY <1>2, <2>8, NewSlot DEF Fork
    <3> QED  BY <1>2, <2>2, <2>8, <3>1 DEF Fork, DirectoryInv
  <2> QED  BY <2>1, <2>3, <2>4, <2>5, <2>6, <2>7, <2>8 DEF Call
<1> QED  BY <1>3, <1>4

(* The first task is in the root. *)
LEMMA InitDirectory ==
  ASSUME Init
  PROVE  DirectoryInv
<1>1. alive \subseteq Tasks
  BY TableAssumption, FirstExists DEF Init
<1> QED  BY <1>1 DEF Init, DirectoryInv, IsDirectory

(* From the root and from its directories every name leads to its file.    *)
LEMMA NamesFound ==
  ASSUME DirectoryInv
  PROVE  NamesResolve
<1>1. SUFFICES ASSUME NEW t \in alive, NEW i \in DOMAIN Archive
               PROVE  LET finds(parts) == isfileexists(curr_dir[t],
                            [abs |-> FALSE, parts |-> parts, slash |-> Archive[i].slash]) = i
                      IN  /\ Dir(curr_dir[t]) \in Range(Archive) \cup {Dir(<<>>)}
                          /\ finds(Ups(Len(curr_dir[t])) \o Archive[i].parts)
                          /\ Front(Archive[i].parts) = curr_dir[t]
                               => finds(<<Last(Archive[i].parts)>>)
  BY DEF NamesResolve
<1>2. PICK cwd, p : cwd = curr_dir[t] /\ p = Archive[i].parts
  OBVIOUS
<1>3. /\ cwd \in Seq(STRING) /\ ((Len(cwd) = 0 /\ cwd = << >>) \/ Len(cwd) = 1)
      /\ Dir(cwd) \in Range(Archive) \cup {Dir(<< >>)}
  <2>1. IsDirectory(cwd)
    BY <1>2 DEF DirectoryInv
  <2> QED  BY <2>1, DirectoryIs
<1>4. /\ p \in Seq(STRING) /\ Len(p) \in 1 .. 2
      /\ \A k \in 1 .. Len(p) : p[k] # Up
  BY <1>2, NamesAre
<1>5. Walked(cwd, Ups(Len(cwd)) \o p) = p
  <2>1. CASE cwd = << >> /\ Len(cwd) = 0
    <3>1. Ups(0) = << >>
      <4>1. Ups(0) \in [1 .. 0 -> {Up}]
        BY DEF Ups
      <4> QED  BY <4>1, SeqIs
    <3>2. << >> \o p = p
      BY <1>4, ConcatEmptySeq
    <3>3. Walked(<< >>, p) = p
      BY <1>4, WalkDown
    <3> QED  BY <2>1, <3>1, <3>2, <3>3
  <2>2. CASE Len(cwd) = 1
    <3>1. Ups(1) = << Up >>
      BY DEF Ups
    <3>2. PICK W : W = STRING \cup {Up}
      OBVIOUS
    <3>3. Up \in W /\ cwd \in Seq(W) /\ p \in Seq(W)
      BY <1>3, <1>4, <3>2, SeqMonotonic
    <3>4. Walked(cwd, << Up >> \o p) = p
      BY <1>4, <2>2, <3>3, WalkUpDown
    <3> QED  BY <2>2, <3>1, <3>4
  <2> QED  BY <1>3, <2>1, <2>2
<1>6. Front(p) = cwd => Walked(cwd, <<Last(p)>>) = p
  <2>1. p[Len(p)] # Up
    <3>1. PICK n : n = Len(p)
      OBVIOUS
    <3>2. n \in 1 .. 2 /\ \A k \in 1 .. n : p[k] # Up
      BY <1>4, <3>1
    <3>3. n \in 1 .. n
      BY ONLY <3>2
    <3> QED  BY ONLY <3>1, <3>2, <3>3
  <2> QED  BY <1>4, <2>1, WalkBeside
<1>7. ASSUME NEW q, Walked(cwd, q) = p
      PROVE  isfileexists(cwd, [abs |-> FALSE, parts |-> q, slash |-> Archive[i].slash]) = i
  BY <1>2, <1>7, NameDerived, FileFound
<1> QED  BY <1>2, <1>3, <1>5, <1>6, <1>7

(* The working directory of a task never gets out of the tree, so every    *)
(* file can be named from it, however the task got there.                  *)
THEOREM NamesAlwaysResolve == Spec => []NamesResolve
<1>1. DirectoryInv /\ [Next]_vars => DirectoryInv'
  BY StepDirectory
<1> QED  BY <1>1, InitDirectory, NamesFound, PTL DEF Spec

-----------------------------------------------------------------------------
(* The descriptors *)

Descriptors == [file_name : Files \cup {None, ROOT}, entry : 0 .. Len(headers),
                address : Files \cup {None}, size : Files \cup {None}]

(* The headers that a listing of a directory counts. *)
MatchSet(name) == {i \in Files : /\ i <= MaxScan
                                 /\ \/ name = ROOT
                                    \/ /\ name # None
                                       /\ headers[i] # EndMark
                                       /\ Head(headers[i].parts) = Head(headers[name].parts)}

(* The first n of them behind the directory itself. *)
Listing(S, n) == [k \in 1 .. n |-> Sorted(S)[k + 1]]

(* A listing has yielded as many entries as the descriptor says, and has   *)
(* ended at the last one.                                                  *)
Listed(m, d) ==
  LET S == MatchSet(d.file_name)
  IN  /\ d.entry <= Cardinality(S)
      /\ m.items = Listing(S, NextEntry(d.entry) - 2)
      /\ m.done => Cardinality(S) = 0 \/ d.entry = Cardinality(S)

(* What the kernel keeps for a descriptor is what the program knows of it. *)
Faithful(m, d) ==
  /\ DOMAIN m = {"file", "items", "done", "closed"}
  /\ IF m.closed THEN d.file_name = None /\ d.size = None
     ELSE /\ IF m.file = ROOT THEN d.file_name = ROOT
             ELSE d.file_name = FileName(m.file) /\ d.address = m.file
          /\ Listed(m, d)

(* Descriptors that a program knows have been opened, by this program or   *)
(* by one that had the slot before: the next number is none of them.       *)
SlotInv(t) ==
  /\ fd_c[t] \in 0 .. TableSize - 3
  /\ DOMAIN mine[t] \subseteq 3 .. fd_c[t] + 2
  /\ \A f \in DOMAIN mine[t] : Faithful(mine[t][f], fd[t][f])

DescriptorInv ==
  /\ fd \in [Tasks -> [0 .. TableSize - 1 -> Descriptors]]
  /\ fd_c \in [Tasks -> 0 .. TableSize - 3]
  /\ DOMAIN mine = Tasks
  /\ alive \subseteq Tasks
  /\ \A t \in Tasks : SlotInv(t)

(* The number of a descriptor that a program knows is one of the table.    *)
LEMMA KnownInTable ==
  ASSUME NEW t, SlotInv(t), NEW f \in DOMAIN mine[t]
  PROVE  f \in 3 .. TableSize - 1 /\ f \in 0 .. TableSize - 1 /\ f <= fd_c[t] + 2
<1>1. TableSize \in Nat /\ fd_c[t] \in 0 .. TableSize - 3 /\ f \in 3 .. fd_c[t] + 2
  BY TableAssumption DEF SlotInv
<1> QED  BY <1>1

(* A slot that does not act. *)
LEMMA OtherSlot ==
  ASSUME NEW u, SlotInv(u),
         fd'[u] = fd[u], fd_c'[u] = fd_c[u], mine'[u] = mine[u]
  PROVE  SlotInv(u)'
BY DEF SlotInv

(* A program that begins knows no descriptor.                              *)
LEMMA NothingKnown ==
  ASSUME NEW u, SlotInv(u), UNCHANGED <<fd, fd_c>>, mine'[u] = << >>
  PROVE  SlotInv(u)'
<1>1. DOMAIN << >> = {}
  OBVIOUS
<1> QED  BY <1>1 DEF SlotInv

(* A file is a number, and so are the descriptor's parts.                  *)
LEMMA FilesAreNumbers ==
  /\ Files \subseteq Nat /\ ROOT \notin Nat
  /\ \A i \in Files : /\ Descriptor(i) \in Descriptors
                      /\ Descriptor(i).file_name = FileName(i)
                      /\ Descriptor(i).address = i
                      /\ Descriptor(i).entry = 0
<1>1. ROOT \notin Nat
  BY DEF ROOT
<1>2. Files \subseteq Nat /\ 0 \in 0 .. Len(headers)
  <2> HIDE DEF headers, Files
  <2> QED  BY HeadersAre
<1>3. \A i \in Files : FileName(i) \in Files \cup {None}
  BY DEF FileName
<1>4. \A i \in Files : Descriptor(i) \in Descriptors
  BY <1>2, <1>3 DEF Descriptor, Descriptors
<1> QED  BY <1>1, <1>2, <1>4 DEF Descriptor

(* The matches of a name are headers, each of them once and in order.      *)
LEMMA MatchesAre ==
  ASSUME NEW name
  PROVE  /\ MatchSet(name) \subseteq Nat /\ MatchSet(name) \subseteq Files
         /\ IsFiniteSet(MatchSet(name))
         /\ Cardinality(MatchSet(name)) \in 0 .. Len(headers)
         /\ Matches(name) = Sorted(MatchSet(name))
         /\ Len(Matches(name)) = Cardinality(MatchSet(name))
         /\ (Matches(name) = << >>) <=> (Cardinality(MatchSet(name)) = 0)
         /\ \A k \in 1 .. Cardinality(MatchSet(name)) : Matches(name)[k] \in Files
<1>1. PICK S : S = MatchSet(name)
  OBVIOUS
<1>2. S \in SUBSET Files /\ S \subseteq Nat
  BY <1>1, FilesAreNumbers DEF MatchSet
<1>3. IsFiniteSet(Files) /\ Cardinality(Files) = Len(headers) /\ Len(headers) \in Nat
  <2>1. Len(headers) \in Nat /\ Files = 1 .. Len(headers)
    BY HeadersAre
  <2>2. /\ IsFiniteSet(1 .. Len(headers))
        /\ Cardinality(1 .. Len(headers)) = IF 1 > Len(headers) THEN 0 ELSE Len(headers) - 1 + 1
    BY <2>1, FS_Interval
  <2> HIDE DEF headers, Files
  <2> QED  BY <2>1, <2>2
<1>4. IsFiniteSet(S) /\ Cardinality(S) <= Cardinality(Files)
  BY <1>2, <1>3, FS_Subset
<1>5. Cardinality(S) \in Nat
  BY <1>4, FS_CardinalityType
<1>6. Cardinality(S) \in 0 .. Len(headers)
  BY <1>3, <1>4, <1>5
<1>7. Matches(name) = Sorted(S)
  BY <1>1 DEF Matches, MatchSet
<1>8. PICK n, s : n = Cardinality(S) /\ s = Sorted(S)
  OBVIOUS
<1>9. s \in [1 .. n -> S]
  <2>1. \A k \in 1 .. n : s[k] \in S
    BY <1>2, <1>4, <1>8, SortedElements
  <2> QED  BY <1>8, <2>1 DEF Sorted
<1>10. Len(s) = n /\ (s = << >> <=> n = 0)
  BY <1>5, <1>8, <1>9, SeqIs
<1> QED  BY <1>1, <1>2, <1>4, <1>6, <1>7, <1>8, <1>9, <1>10

(* A descriptor that has just been given. *)
LEMMA FreshFaithful ==
  ASSUME NEW i \in Files \cup {ROOT}, NEW d \in Descriptors, d.entry = 0,
         IF i = ROOT THEN d.file_name = ROOT
                     ELSE d.file_name = FileName(i) /\ d.address = i
  PROVE  Faithful(Fresh(i), d)
<1>1. PICK m : m = Fresh(i)
  OBVIOUS
<1>2. /\ DOMAIN m = {"file", "items", "done", "closed"}
      /\ m.file = i /\ m.items = << >> /\ m.done = FALSE /\ m.closed = FALSE
  BY <1>1 DEF Fresh
<1>3. PICK S : S = MatchSet(d.file_name)
  OBVIOUS
<1>4. 0 <= Cardinality(S)
  BY <1>3, MatchesAre, HeadersAre
<1>5. NextEntry(0) - 2 = 0
  BY DEF NextEntry
<1>6. Listing(S, 0) = << >>
  <2>1. Listing(S, 0) \in [1 .. 0 -> {}]
    BY DEF Listing
  <2> QED  BY <2>1, SeqIs
<1>7. Listed(m, d)
  BY <1>2, <1>3, <1>4, <1>5, <1>6 DEF Listed
<1> QED  BY <1>1, <1>2, <1>7 DEF Faithful

(* readdir() yields the next match. *)
LEMMA YieldFaithful ==
  ASSUME NEW d \in Descriptors, NEW m, Faithful(m, d),
         NEW k, k = NextEntry(d.entry), k <= Len(Matches(d.file_name)),
         NEW x, x = Matches(d.file_name)[k]
  PROVE  /\ [d EXCEPT !.entry = k] \in Descriptors
         /\ Faithful([m EXCEPT !.items = Append(@, x)], [d EXCEPT !.entry = k])
<1>1. PICK e, new : e = [d EXCEPT !.entry = k] /\ new = [m EXCEPT !.items = Append(@, x)]
  OBVIOUS
<1>2. PICK S, n : S = MatchSet(d.file_name) /\ n = Cardinality(S)
  OBVIOUS
<1>3. /\ n \in 0 .. Len(headers) /\ Len(headers) \in Nat /\ k <= n
      /\ x = Sorted(S)[k]
      /\ \A i \in 1 .. n : Sorted(S)[i] \in Files
  <2>1. k <= n /\ x = Sorted(S)[k] /\ \A i \in 1 .. n : Sorted(S)[i] \in Files
    BY <1>2, MatchesAre
  <2>2. n \in 0 .. Len(headers)
    BY <1>2, MatchesAre
  <2> QED  BY <2>1, <2>2, HeadersAre
<1>4. k \in Nat /\ k >= 2
  <2>1. d.entry \in Nat
    BY <1>3 DEF Descriptors
  <2> QED  BY <2>1 DEF NextEntry
<1>5. /\ e \in Descriptors /\ e.entry = k /\ e.file_name = d.file_name
      /\ e.address = d.address /\ e.size = d.size
  <2>1. k \in 0 .. Len(headers)
    BY <1>3, <1>4
  <2> HIDE DEF headers, Files
  <2> QED  BY <1>1, <2>1 DEF Descriptors
<1>6. /\ DOMAIN new = {"file", "items", "done", "closed"}
      /\ new.file = m.file /\ new.done = m.done /\ new.closed = m.closed
      /\ new.items = Append(m.items, x)
  BY <1>1 DEF Faithful
<1>7. ASSUME Listed(m, d)  PROVE Listed(new, e)
  <2>1. /\ m.items = Listing(S, k - 2) /\ d.entry <= n
        /\ m.done => n = 0 \/ d.entry = n
    BY <1>2, <1>7 DEF Listed
  <2>2. ~m.done
    <3>1. d.entry \in Nat
      BY <1>3 DEF Descriptors
    <3>2. k # d.entry /\ d.entry < k
      BY <3>1 DEF NextEntry
    <3> QED  BY <1>3, <1>4, <2>1, <3>1, <3>2
  <2>3. PICK a, b, j : a = Listing(S, k - 2) /\ b = Listing(S, k - 1) /\ j = k - 2
    OBVIOUS
  <2>4. j \in Nat /\ j + 1 = k - 1 /\ (j + 1) + 1 = k
    BY <1>4, <2>3
  <2>5. /\ a \in [1 .. j -> Files]
        /\ \A i \in 1 .. j : a[i] = Sorted(S)[i + 1]
    <3>1. ASSUME NEW i \in 1 .. j  PROVE Sorted(S)[i + 1] \in Files
      <4>1. i + 1 \in 1 .. n
        BY <1>3, <2>4
      <4> QED  BY <1>3, <4>1
    <3> QED  BY <2>3, <3>1 DEF Listing
  <2>6. /\ b \in [1 .. j + 1 -> Files]
        /\ \A i \in 1 .. j + 1 : b[i] = Sorted(S)[i + 1]
    <3>1. ASSUME NEW i \in 1 .. j + 1  PROVE Sorted(S)[i + 1] \in Files
      <4>1. i + 1 \in 1 .. n
        BY <1>3, <2>4
      <4> QED  BY <1>3, <4>1
    <3>2. b = [i \in 1 .. j + 1 |-> Sorted(S)[i + 1]]
      BY <2>3, <2>4 DEF Listing
    <3> QED  BY <3>1, <3>2
  <2>7. b[j + 1] = x /\ x \in Files
    <3>1. j + 1 \in 1 .. j + 1 /\ k \in 1 .. n
      BY <1>3, <1>4, <2>4
    <3> QED  BY <1>3, <2>4, <2>6, <3>1
  <2>8. \A i \in 1 .. j : b[i] = a[i]
    <3>1. \A i \in 1 .. j : i \in 1 .. j + 1
      BY <2>4
    <3> QED  BY <2>5, <2>6, <3>1
  <2>9. b = Append(a, x)
    <3>1. j \in Nat /\ a \in [1 .. j -> Files] /\ b \in [1 .. j + 1 -> Files]
      BY <2>4, <2>5, <2>6
    <3> QED  BY <2>7, <2>8, <3>1, AppendIs
  <2>10. new.items = Listing(S, NextEntry(e.entry) - 2)
    <3>1. NextEntry(e.entry) - 2 = k - 1
      BY <1>4, <1>5 DEF NextEntry
    <3> QED  BY <1>6, <2>1, <2>3, <2>9, <3>1
  <2> QED  BY <1>2, <1>3, <1>5, <1>6, <2>2, <2>10 DEF Listed
<1>8. Faithful(new, e)
  BY <1>5, <1>6, <1>7 DEF Faithful
<1> QED  BY <1>1, <1>5, <1>8

(* Or says that there is none. *)
LEMMA EndFaithful ==
  ASSUME NEW d \in Descriptors, NEW m, Faithful(m, d),
         NEW k, k = NextEntry(d.entry), k > Len(Matches(d.file_name)),
         NEW x, x = IF Matches(d.file_name) = << >> THEN d.entry ELSE k - 1
  PROVE  /\ [d EXCEPT !.entry = x] \in Descriptors
         /\ Faithful([m EXCEPT !.done = TRUE], [d EXCEPT !.entry = x])
<1>1. PICK e, new : e = [d EXCEPT !.entry = x] /\ new = [m EXCEPT !.done = TRUE]
  OBVIOUS
<1>2. PICK S, n : S = MatchSet(d.file_name) /\ n = Cardinality(S)
  OBVIOUS
<1>3. /\ n \in Nat /\ Len(headers) \in Nat /\ Len(headers) >= 1 /\ k > n
      /\ x = IF n = 0 THEN d.entry ELSE k - 1
      /\ d.entry \in 0 .. Len(headers)
  <2>1. k > n /\ x = IF n = 0 THEN d.entry ELSE k - 1
    BY <1>2, MatchesAre
  <2>2. n \in 0 .. Len(headers)
    BY <1>2, MatchesAre
  <2>3. d.entry \in 0 .. Len(headers)
    BY DEF Descriptors
  <2> QED  BY <2>1, <2>2, <2>3, HeadersAre
<1>4. /\ k = (IF d.entry = 0 THEN 1 ELSE d.entry) + 1 /\ k \in Nat
  BY <1>3 DEF NextEntry
<1>5. /\ e \in Descriptors /\ e.entry = x /\ e.file_name = d.file_name
      /\ e.address = d.address /\ e.size = d.size
  <2>1. x \in 0 .. Len(headers)
    BY <1>3, <1>4
  <2> HIDE DEF headers, Files
  <2> QED  BY <1>1, <2>1 DEF Descriptors
<1>6. /\ DOMAIN new = {"file", "items", "done", "closed"}
      /\ new.file = m.file /\ new.closed = m.closed /\ new.items = m.items
  BY <1>1 DEF Faithful
<1>7. ASSUME Listed(m, d)  PROVE Listed(new, e)
  <2>1. m.items = Listing(S, k - 2) /\ d.entry <= n
    BY <1>2, <1>7 DEF Listed
  <2>2. NextEntry(x) = k
    BY <1>3, <1>4 DEF NextEntry
  <2>3. x <= n /\ (n = 0 \/ x = n)
    BY <1>3, <1>4, <2>1
  <2>4. new.items = Listing(S, NextEntry(e.entry) - 2)
    BY <1>5, <1>6, <2>1, <2>2
  <2> QED  BY <1>2, <1>5, <2>3, <2>4 DEF Listed
<1>8. Faithful(new, e)
  BY <1>5, <1>6, <1>7 DEF Faithful
<1> QED  BY <1>1, <1>5, <1>8

(* close() *)
LEMMA CloseFaithful ==
  ASSUME NEW d \in Descriptors, NEW m, Faithful(m, d)
  PROVE  /\ [[d EXCEPT !.file_name = None] EXCEPT !.size = None] \in Descriptors
         /\ Faithful([m EXCEPT !.closed = TRUE],
                     [[d EXCEPT !.file_name = None] EXCEPT !.size = None])
<1>1. PICK e, new : /\ e = [[d EXCEPT !.file_name = None] EXCEPT !.size = None]
                    /\ new = [m EXCEPT !.closed = TRUE]
  OBVIOUS
<1>2. e \in Descriptors /\ e.file_name = None /\ e.size = None
  <2> HIDE DEF headers, Files
  <2> QED  BY <1>1 DEF Descriptors, None
<1>3. DOMAIN new = {"file", "items", "done", "closed"} /\ new.closed
  BY <1>1 DEF Faithful
<1> QED  BY <1>1, <1>2, <1>3 DEF Faithful

(* The next number is new to the program, so nothing it knows is touched.  *)
LEMMA OpenedKeeps ==
  ASSUME DescriptorInv, NEW t \in Tasks, NEW i \in Files \cup {ROOT},
         NEW desc \in Descriptors, desc.entry = 0, Opened(t, desc, i),
         IF i = ROOT THEN desc.file_name = ROOT
                     ELSE desc.file_name = FileName(i) /\ desc.address = i
  PROVE  DescriptorInv'
<1>0. PICK n : n = NextFd(t)
  OBVIOUS
<1>1. /\ n < TableSize /\ n = fd_c[t] + 3 /\ fd_c[t] \in 0 .. TableSize - 3
      /\ n \in 0 .. TableSize - 1 /\ TableSize \in Nat
  BY <1>0, TableAssumption DEF Opened, NextFd, DescriptorInv, SlotInv
<1>2. n \notin DOMAIN mine[t]
  <2>1. SlotInv(t) /\ ~(n <= fd_c[t] + 2)
    BY <1>1 DEF DescriptorInv
  <2> QED  BY <2>1, KnownInTable
<1>3. /\ fd' = [fd EXCEPT ![t][n] = desc]
      /\ fd_c' = [fd_c EXCEPT ![t] = @ + 1]
      /\ mine' = [mine EXCEPT ![t] = [f \in DOMAIN @ \cup {n} |->
                    IF f = n /\ ~InUse(t, f) THEN Fresh(i) ELSE @[f]]]
      /\ UNCHANGED alive
  BY <1>0 DEF Opened
<1>4. /\ fd' \in [Tasks -> [0 .. TableSize - 1 -> Descriptors]]
      /\ fd_c' \in [Tasks -> 0 .. TableSize - 3] /\ fd_c'[t] = fd_c[t] + 1
      /\ DOMAIN mine' = Tasks
      /\ fd'[t] = [fd[t] EXCEPT ![n] = desc]
      /\ \A u \in Tasks : u # t => /\ fd'[u] = fd[u] /\ fd_c'[u] = fd_c[u]
                                   /\ mine'[u] = mine[u]
  BY <1>1, <1>3 DEF DescriptorInv
<1>5. mine'[t] = [f \in DOMAIN mine[t] \cup {n} |-> IF f = n THEN Fresh(i) ELSE mine[t][f]]
  <2>1. ~InUse(t, n)
    BY <1>2 DEF InUse
  <2> QED  BY <1>3, <2>1 DEF DescriptorInv
<1>6. SlotInv(t)'
  <2>1. SlotInv(t)
    BY DEF DescriptorInv
  <2>2. DOMAIN mine'[t] = DOMAIN mine[t] \cup {n}
    BY <1>5
  <2>3. fd_c'[t] \in 0 .. TableSize - 3
    BY <1>1, <1>4
  <2>4. DOMAIN mine'[t] \subseteq 3 .. fd_c'[t] + 2
    BY <1>1, <1>4, <2>1, <2>2 DEF SlotInv
  <2>5. ASSUME NEW f \in DOMAIN mine[t]  PROVE Faithful(mine'[t][f], fd'[t][f])
    <3>1. f # n /\ f \in 0 .. TableSize - 1
      BY <1>2, <2>1, KnownInTable
    <3>2. mine'[t][f] = mine[t][f] /\ fd'[t][f] = fd[t][f]
      BY <1>4, <1>5, <3>1 DEF DescriptorInv
    <3> QED  BY <2>1, <3>2 DEF SlotInv
  <2>6. Faithful(mine'[t][n], fd'[t][n])
    <3>1. mine'[t][n] = Fresh(i)
      BY <1>5
    <3>2. fd'[t][n] = desc
      BY <1>1, <1>4 DEF DescriptorInv
    <3> QED  BY <3>1, <3>2, FreshFaithful
  <2> QED  BY <2>2, <2>3, <2>4, <2>5, <2>6 DEF SlotInv
<1>7. \A u \in Tasks : u # t => SlotInv(u)'
  BY <1>4, OtherSlot DEF DescriptorInv
<1>8. alive' \subseteq Tasks
  BY <1>3 DEF DescriptorInv
<1> QED  BY <1>4, <1>6, <1>7, <1>8 DEF DescriptorInv

(* Reading a directory or closing it changes that descriptor only.         *)
LEMMA UsedKeeps ==
  ASSUME DescriptorInv, NEW t \in Tasks, NEW f \in DOMAIN mine[t],
         ReadDir(t, f) \/ Close(t, f)
  PROVE  DescriptorInv'
<1>1. PICK old, own : old = fd[t][f] /\ own = mine[t][f]
  OBVIOUS
<1>2. /\ f \in 0 .. TableSize - 1 /\ SlotInv(t)
      /\ fd[t] \in [0 .. TableSize - 1 -> Descriptors] /\ old \in Descriptors
      /\ Faithful(own, old)
  <2>1. SlotInv(t)
    BY DEF DescriptorInv
  <2>2. f \in 0 .. TableSize - 1
    BY <2>1, KnownInTable
  <2> QED  BY <1>1, <2>1, <2>2 DEF DescriptorInv, SlotInv
<1>3. PICK d, m :
        /\ fd' = [fd EXCEPT ![t] = [fd[t] EXCEPT ![f] = d]]
        /\ mine' = [mine EXCEPT ![t] = [mine[t] EXCEPT ![f] = m]]
        /\ d \in Descriptors /\ Faithful(m, d)
  <2>1. CASE ReadDir(t, f)
    <3>1. PICK k, M : k = NextEntry(old.entry) /\ M = Matches(old.file_name)
      OBVIOUS
    <3>2. CASE k <= Len(M)
      <4>1. PICK x : x = M[k]
        OBVIOUS
      <4>2. PICK d, m : d = [old EXCEPT !.entry = k] /\ m = [own EXCEPT !.items = Append(@, x)]
        OBVIOUS
      <4>3. d \in Descriptors /\ Faithful(m, d)
        BY <1>2, <3>1, <3>2, <4>1, <4>2, YieldFaithful
      <4>4. ~(k > Len(M))
        <5>1. k \in Nat /\ Len(M) \in Nat
          <6>1. old.entry \in Nat /\ Len(M) \in Nat
            BY <1>2, <3>1, MatchesAre, HeadersAre DEF Descriptors
          <6> QED  BY <3>1, <6>1 DEF NextEntry
        <5> QED  BY <3>2, <5>1
      <4>5. /\ fd' = [fd EXCEPT ![t] = [fd[t] EXCEPT ![f] = d]]
            /\ mine' = [mine EXCEPT ![t] = [mine[t] EXCEPT ![f] = m]]
        BY <1>1, <2>1, <3>1, <4>1, <4>2, <4>4 DEF ReadDir
      <4> QED  BY <4>3, <4>5
    <3>3. CASE ~(k <= Len(M))
      <4>1. PICK x : x = IF M = << >> THEN old.entry ELSE k - 1
        OBVIOUS
      <4>2. PICK d, m : d = [old EXCEPT !.entry = x] /\ m = [own EXCEPT !.done = TRUE]
        OBVIOUS
      <4>3. k > Len(M)
        <5>1. k \in Nat /\ Len(M) \in Nat
          <6>1. old.entry \in Nat /\ Len(M) \in Nat
            BY <1>2, <3>1, MatchesAre, HeadersAre DEF Descriptors
          <6> QED  BY <3>1, <6>1 DEF NextEntry
        <5> QED  BY <3>3, <5>1
      <4>4. d \in Descriptors /\ Faithful(m, d)
        BY <1>2, <3>1, <4>1, <4>2, <4>3, EndFaithful
      <4>5. /\ fd' = [fd EXCEPT ![t] = [fd[t] EXCEPT ![f] = d]]
            /\ mine' = [mine EXCEPT ![t] = [mine[t] EXCEPT ![f] = m]]
        BY <1>1, <2>1, <3>1, <3>3, <4>1, <4>2 DEF ReadDir
      <4> QED  BY <4>4, <4>5
    <3> QED  BY <3>2, <3>3
  <2>2. CASE Close(t, f)
    <3>1. PICK d, m : /\ d = [[old EXCEPT !.file_name = None] EXCEPT !.size = None]
                      /\ m = [own EXCEPT !.closed = TRUE]
      OBVIOUS
    <3>2. d \in Descriptors /\ Faithful(m, d)
      BY <1>2, <3>1, CloseFaithful
    <3>3. fd' = [fd EXCEPT ![t] = [fd[t] EXCEPT ![f] = d]]
      BY <1>1, <1>2, <2>2, <3>1 DEF Close, DescriptorInv
    <3>4. mine' = [mine EXCEPT ![t] = [mine[t] EXCEPT ![f] = m]]
      BY <1>1, <2>2, <3>1 DEF Close
    <3> QED  BY <3>2, <3>3, <3>4
  <2> QED  BY <2>1, <2>2
<1>4. UNCHANGED <<alive, fd_c>>
  BY DEF ReadDir, Close, KeepCount
<1>5. /\ fd' \in [Tasks -> [0 .. TableSize - 1 -> Descriptors]]
      /\ DOMAIN mine' = Tasks
      /\ fd'[t] = [fd[t] EXCEPT ![f] = d] /\ mine'[t] = [mine[t] EXCEPT ![f] = m]
      /\ \A u \in Tasks : u # t => fd'[u] = fd[u] /\ mine'[u] = mine[u]
  BY <1>2, <1>3 DEF DescriptorInv
<1>6. SlotInv(t)'
  <2>1. DOMAIN mine'[t] = DOMAIN mine[t]
    BY <1>5
  <2>2. ASSUME NEW g \in DOMAIN mine[t]  PROVE Faithful(mine'[t][g], fd'[t][g])
    <3>1. CASE g = f
      BY <1>2, <1>3, <1>5, <3>1
    <3>2. CASE g # f
      <4>1. mine'[t][g] = mine[t][g] /\ fd'[t][g] = fd[t][g]
        BY <1>2, <1>5, <3>2, KnownInTable
      <4> QED  BY <1>2, <4>1 DEF SlotInv
    <3> QED  BY <3>1, <3>2
  <2> QED  BY <1>2, <1>4, <2>1, <2>2 DEF SlotInv
<1>7. \A u \in Tasks : u # t => SlotInv(u)'
  BY <1>4, <1>5, OtherSlot DEF DescriptorInv
<1> QED  BY <1>4, <1>5, <1>6, <1>7 DEF DescriptorInv

(* Every call keeps the descriptors of all programs.                       *)
LEMMA StepDescriptors == DescriptorInv /\ [Next]_vars => DescriptorInv'
<1> SUFFICES ASSUME DescriptorInv, [Next]_vars  PROVE DescriptorInv'
  OBVIOUS
<1>1. ASSUME UNCHANGED <<fd, fd_c, mine>>, alive' \subseteq Tasks PROVE DescriptorInv'
  <2>1. \A u \in Tasks : SlotInv(u)'
    BY <1>1, OtherSlot DEF DescriptorInv
  <2> QED  BY <1>1, <2>1 DEF DescriptorInv
<1>2. ASSUME NEW u \in Tasks, UNCHANGED <<fd, fd_c>>, alive' \subseteq Tasks,
             mine' = [mine EXCEPT ![u] = << >>]
      PROVE  DescriptorInv'
  <2>1. mine'[u] = << >> /\ DOMAIN mine' = Tasks
        /\ \A v \in Tasks : v # u => mine'[v] = mine[v]
    BY <1>2 DEF DescriptorInv
  <2>2. \A v \in Tasks : SlotInv(v)'
    BY <1>2, <2>1, OtherSlot, NothingKnown DEF DescriptorInv
  <2> QED  BY <1>2, <2>1, <2>2 DEF DescriptorInv
<1>3. alive \subseteq Tasks
  BY DEF DescriptorInv
<1>4. CASE UNCHANGED vars
  BY <1>1, <1>3, <1>4 DEF vars
<1>5. CASE Next
  <2>1. PICK t \in alive : Call(t)
    BY <1>5 DEF Next
  <2>2. t \in Tasks
    BY <1>3, <2>1
  <2>3. CASE \E path \in Paths : Chdir(t, path) \/ OpenBehind(t, path)
    BY <1>1, <1>3, <2>3 DEF Chdir, OpenBehind
  <2>4. CASE \E path \in Paths : Open(t, path)
    <3>1. PICK i \in Files : Opened(t, Descriptor(i), i)
      <4>1. PICK path \in Paths : Open(t, path)
        BY <2>4
      <4>2. isfileexists(curr_dir[t], path) # None => isfileexists(curr_dir[t], path) \in Files
        BY LookupFinds
      <4> QED  BY <4>1, <4>2 DEF Open
    <3> QED  BY <2>2, <3>1, FilesAreNumbers, OpenedKeeps
  <2>5. CASE \E path \in Paths \cup {getCurrentDirectory(t)} : OpenDir(t, path)
    <3>1. PICK i \in Files : Opened(t, Descriptor(i), i)
      <4>1. PICK path \in Paths \cup {getCurrentDirectory(t)} : OpenDir(t, path)
        BY <2>5
      <4>2. isfileexists(curr_dir[t], path) # None => isfileexists(curr_dir[t], path) \in Files
        BY LookupFinds
      <4> QED  BY <4>1, <4>2 DEF OpenDir, isValidDirectory
    <3> QED  BY <2>2, <3>1, FilesAreNumbers, OpenedKeeps
  <2>6. CASE \E path \in Paths \cup {getCurrentDirectory(t)} : OpenRoot(t, path)
    <3> DEFINE n == NextFd(t)
    <3> DEFINE desc == [fd[t][n] EXCEPT !.file_name = ROOT, !.entry = 0]
    <3>1. Opened(t, desc, ROOT)
      BY <2>6 DEF OpenRoot
    <3>2. n \in 0 .. TableSize - 1
      BY <2>2, <3>1, TableAssumption DEF Opened, NextFd, DescriptorInv, SlotInv
    <3> HIDE DEF n
    <3>3. fd[t][n] \in Descriptors
      BY <2>2, <3>2 DEF DescriptorInv
    <3>4. desc \in Descriptors /\ desc.file_name = ROOT /\ desc.entry = 0
      <4>1. 0 \in 0 .. Len(headers)
        BY HeadersAre
      <4> HIDE DEF headers, Files
      <4> QED  BY <3>3, <4>1 DEF Descriptors
    <3> HIDE DEF desc
    <3> QED  BY <2>2, <3>1, <3>4, OpenedKeeps
  <2>7. CASE \E f \in DOMAIN mine[t] : ReadDir(t, f) \/ Close(t, f)
    BY <2>2, <2>7, UsedKeeps
  <2>8. CASE \E command \in Commands : Exec(t, command)
    BY <1>2, <1>3, <2>2, <2>8 DEF Exec
  <2>9. CASE Fork(t)
    <3>1. newPID \in Tasks
      BY <1>3, <2>9, NewSlot DEF Fork
    <3>2. alive' \subseteq Tasks
      BY <1>3, <2>9, <3>1 DEF Fork
    <3>3. UNCHANGED <<fd, fd_c>> /\ mine' = [mine EXCEPT ![newPID] = << >>]
      BY <2>9 DEF Fork
    <3> QED  BY <1>2, <3>1, <3>2, <3>3
  <2>10. CASE Exit(t)
    BY <1>2, <1>3, <2>2, <2>10 DEF Exit
  <2> QED  BY <2>1, <2>3, <2>4, <2>5, <2>6, <2>7, <2>8, <2>9, <2>10 DEF Call
<1> QED  BY <1>4, <1>5

(* No task knows a descriptor at the start. *)
LEMMA InitDescriptors == Init => DescriptorInv
<1> SUFFICES ASSUME Init PROVE DescriptorInv
  OBVIOUS
<1>1. alive \subseteq Tasks
  BY TableAssumption, FirstExists DEF Init
<1>2. Zeroed \in Descriptors
  <2>1. 0 \in 0 .. Len(headers)
    BY HeadersAre
  <2> HIDE DEF headers, Files
  <2> QED  BY <2>1 DEF Zeroed, Descriptors
<1>3. DOMAIN << >> = {}
  OBVIOUS
<1>4. \A t \in Tasks : SlotInv(t)
  <2>1. 0 \in 0 .. TableSize - 3
    BY TableAssumption
  <2> QED  BY <1>3, <2>1 DEF Init, SlotInv
<1>5. fd_c \in [Tasks -> 0 .. TableSize - 3]
  BY TableAssumption DEF Init
<1> QED  BY <1>1, <1>2, <1>4, <1>5 DEF Init, DescriptorInv

(* A descriptor that a program was given and has not closed leads to the   *)
(* file it was given for, whatever the other calls and programs do, and    *)
(* whoever had the slot before; a closed one leads nowhere.                *)
THEOREM DescriptorsStayOwn == Spec => []OwnDescriptors
<1>1. DescriptorInv => OwnDescriptors
  BY DEF DescriptorInv, SlotInv, Faithful, OwnDescriptors, readTarfsFile
<1> QED  BY <1>1, InitDescriptors, StepDescriptors, PTL DEF Spec

(* A descriptor is in the table of its slot, and so is all it refers to in *)
(* the archive; some task is always there, and works in no "..".           *)
THEOREM TarfsTypeOK == Spec => []TypeOK
<1> DEFINE Inv == DescriptorInv /\ DirectoryInv /\ alive # {} /\ overrun \in BOOLEAN
<1>1. Init => Inv
  <2> SUFFICES ASSUME Init PROVE Inv
    OBVIOUS
  <2> QED  BY InitDescriptors, InitDirectory DEF Init
<1>2. Inv /\ [Next]_vars => Inv'
  <2> SUFFICES ASSUME Inv, [Next]_vars  PROVE alive' # {} /\ overrun' \in BOOLEAN
    BY StepDescriptors, StepDirectory
  <2>1. ASSUME NEW t \in alive, Exit(t)  PROVE alive' # {}
    <3>1. SUFFICES ASSUME alive \ {t} = {}  PROVE FALSE
      BY <2>1 DEF Exit
    <3>2. alive = {t}
      BY <3>1
    <3>3. Cardinality(alive) = 1
      BY <3>2, FS_Singleton
    <3> QED  BY <2>1, <3>3 DEF Exit
  <2>2. CASE UNCHANGED vars
    BY <2>2 DEF vars
  <2>3. ASSUME NEW t \in alive, Call(t)  PROVE alive' # {} /\ overrun' \in BOOLEAN
    BY <2>1, <2>3 DEF Call, Chdir, Open, OpenBehind, OpenRoot, OpenDir, Opened, ReadDir,
                      Close, Exec, Fork, Exit
  <2> QED  BY <2>2, <2>3 DEF Next
<1>3. Inv => TypeOK
  <2> SUFFICES ASSUME Inv PROVE TypeOK
    OBVIOUS
  <2>1. ASSUME NEW t \in Tasks, NEW k \in DOMAIN curr_dir[t]  PROVE curr_dir[t][k] # Up
    BY DirectoryIs DEF DirectoryInv
  <2>2. ASSUME NEW t \in Tasks, NEW f \in 0 .. TableSize - 1  PROVE fd[t][f] \in Descriptors
    BY DEF DescriptorInv
  <2>3. fd_c \in [Tasks -> 0 .. TableSize - 3]
    BY DEF DescriptorInv
  <2>4. ASSUME NEW t \in Tasks  PROVE DOMAIN mine[t] \subseteq 3 .. TableSize - 1
    BY KnownInTable DEF DescriptorInv
  <2>5. alive \subseteq Tasks
    BY DEF DescriptorInv
  <2> HIDE DEF headers, Files
  <2> QED  BY <2>1, <2>2, <2>3, <2>4, <2>5 DEF TypeOK, Descriptors
<1> QED  BY <1>1, <1>2, <1>3, PTL DEF Spec

-----------------------------------------------------------------------------
(* Listings *)

ChildSet(i) == {j \in DOMAIN Archive :
                  /\ Len(Archive[j].parts) = Len(headers[i].parts) + 1
                  /\ Front(Archive[j].parts) = headers[i].parts}

(* Two names with the same first part are a directory and what it holds,   *)
(* or two files in it: what a listing of the directory matches is the      *)
(* directory and, behind it, its files.                                    *)
LEMMA ChildrenMatch ==
  ASSUME NEW i \in Files, headers[i].slash
  PROVE  /\ i \in MatchSet(i) /\ \A j \in MatchSet(i) : i <= j
         /\ ChildSet(i) = MatchSet(i) \ {i}
<1>1. i \in DOMAIN Archive
  <2>1. EndMark.slash = FALSE
    BY DEF EndMark
  <2>2. i # Len(headers)
    <3> HIDE DEF EndMark
    <3> QED  BY <2>1, HeadersAre
  <2> HIDE DEF headers, Files
  <2> QED  BY <2>2, HeadersAre
<1>2. PICK P : P = [j \in DOMAIN Archive |-> Archive[j].parts]
  OBVIOUS
<1>3. ASSUME NEW j \in DOMAIN Archive
      PROVE  /\ P[j] \in Seq(STRING) /\ Len(P[j]) \in 1 .. 2 /\ P[j] # << >>
             /\ j \in Files /\ j \in Nat /\ j <= MaxScan
             /\ headers[j] = Archive[j] /\ headers[j].parts = P[j]
             /\ headers[j] # EndMark
  <2>1. /\ P[j] \in Seq(STRING) /\ Len(P[j]) \in 1 .. 2
        /\ j \in Files /\ j \in Nat /\ j <= MaxScan /\ headers[j] = Archive[j]
    BY <1>2, NamesAre
  <2>2. P[j] # << >>
    <3>1. PICK p : p = P[j]
      OBVIOUS
    <3>2. Len(p) # 0
      <4>1. Len(P[j]) \in 1 .. 2
        BY <2>1
      <4>2. PICK l : l = Len(P[j])
        OBVIOUS
      <4>3. l \in 1 .. 2
        BY ONLY <4>1, <4>2
      <4>4. \A n \in 1 .. 2 : n # 0
        OBVIOUS
      <4>5. l # 0
        BY ONLY <4>3, <4>4
      <4> QED  BY ONLY <3>1, <4>2, <4>5
    <3>3. p # << >>
      BY ONLY <3>2, EmptySeq
    <3> QED  BY ONLY <3>1, <3>3
  <2>3. headers[j].parts = P[j]
    BY <1>2, <2>1
  <2>4. EndMark.parts = << >>
    BY DEF EndMark
  <2> HIDE DEF EndMark, headers, Files
  <2> QED  BY <2>1, <2>2, <2>3, <2>4
<1>4. Len(P[i]) = 1
  <2>1. Archive[i].slash /\ (Archive[i].slash <=> Len(Archive[i].parts) = 1)
    BY <1>1, NamesAre
  <2> QED  BY <1>1, <1>2, <2>1
<1>5. ASSUME NEW j \in DOMAIN Archive, NEW l \in DOMAIN Archive, P[j] = P[l]
      PROVE  j = l
  <2>1. \A k \in DOMAIN Archive : \A n \in 1 .. k - 1 : Archive[k].parts # Archive[n].parts
    BY ArchiveAssumption
  <2>2. DOMAIN Archive = 1 .. Len(Archive) /\ Len(Archive) \in Nat
    BY HeadersAre
  <2>3. l < j => l \in 1 .. j - 1
    BY <2>2
  <2>4. j < l => j \in 1 .. l - 1
    BY <2>2
  <2>5. j \in Nat /\ l \in Nat
    BY <1>3
  <2> QED  BY <1>2, <1>5, <2>1, <2>3, <2>4, <2>5
<1>6. ASSUME NEW j \in DOMAIN Archive, Len(P[j]) = 1
      PROVE  Head(P[j]) = Head(P[i]) => j = i
  <2>1. SUFFICES ASSUME Head(P[j]) = Head(P[i])  PROVE P[j] = P[i]
    BY <1>1, <1>5
  <2>2. PICK a, b : a = P[j] /\ b = P[i]
    OBVIOUS
  <2>3. a \in Seq(STRING) /\ b \in Seq(STRING) /\ Len(a) = 1 /\ Len(b) = 1
    BY <1>1, <1>3, <1>4, <1>6, <2>2
  <2>4. a[1] = b[1]
    BY <2>1, <2>2, <2>3
  <2>5. \A k \in 1 .. Len(a) : a[k] = b[k]
    BY <2>3, <2>4
  <2>6. a = b
    BY <2>3, <2>5, SeqEqual
  <2> QED  BY <2>2, <2>6
<1>7. ASSUME NEW j \in DOMAIN Archive, Len(P[j]) = 2
      PROVE  Front(P[j]) = P[i] <=> Head(P[j]) = Head(P[i])
  <2>1. PICK a, b, f : a = P[j] /\ b = P[i] /\ f = Front(a)
    OBVIOUS
  <2>2. a \in Seq(STRING) /\ b \in Seq(STRING) /\ Len(a) = 2 /\ Len(b) = 1
    BY <1>1, <1>3, <1>4, <1>7, <2>1
  <2>3. f \in Seq(STRING) /\ Len(f) = 1 /\ f[1] = a[1]
    <3>1. \A k \in 1 .. 1 : a[k] \in STRING
      BY <2>2, ElementOfSeq
    <3>2. /\ SubSeq(a, 1, 1) \in Seq(STRING)
          /\ Len(SubSeq(a, 1, 1)) = 1
          /\ SubSeq(a, 1, 1)[1] = a[1]
      <4>1. PICK n \in Int : n = 1
        OBVIOUS
      <4>2. /\ SubSeq(a, n, n) \in Seq(STRING)
            /\ Len(SubSeq(a, n, n)) = IF n <= n THEN n - n + 1 ELSE 0
            /\ \A k \in 1 .. n - n + 1 : SubSeq(a, n, n)[k] = a[n + k - 1]
        <5>1. \A k \in n .. n : a[k] \in STRING
          BY <3>1, <4>1
        <5> QED  BY <5>1, SubSeqProperties
      <4>3. n - n + 1 = 1 /\ n <= n /\ n + 1 - 1 = n
        BY <4>1
      <4> QED  BY <4>1, <4>2, <4>3
    <3>3. f = SubSeq(a, 1, 1)
      <4>1. Len(a) - 1 = 1
        BY <2>2
      <4> QED  BY <2>1, <4>1 DEF Front
    <3> QED  BY <3>2, <3>3
  <2>4. f = b <=> a[1] = b[1]
    <3>1. ASSUME a[1] = b[1]  PROVE f = b
      <4>1. \A k \in 1 .. Len(f) : f[k] = b[k]
        BY <2>3, <3>1
      <4> QED  BY <2>2, <2>3, <4>1, SeqEqual
    <3> QED  BY <2>3, <3>1
  <2>5. Head(a) = a[1] /\ Head(b) = b[1]
    BY <2>2
  <2> QED  BY <2>1, <2>4, <2>5
<1>8. ASSUME NEW j \in DOMAIN Archive
      PROVE  /\ j \in ChildSet(i) <=> Len(P[j]) = 2 /\ Front(P[j]) = P[i]
             /\ j \in MatchSet(i) <=> Head(P[j]) = Head(P[i])
  <2>1. headers[i].parts = P[i] /\ Archive[j].parts = P[j] /\ headers[j].parts = P[j]
    BY <1>1, <1>2, <1>3
  <2>2. j \in ChildSet(i) <=> Len(P[j]) = 2 /\ Front(P[j]) = P[i]
    <3>1. j \in ChildSet(i) <=> /\ Len(Archive[j].parts) = Len(headers[i].parts) + 1
                               /\ Front(Archive[j].parts) = headers[i].parts
      <4> HIDE DEF headers
      <4> QED  BY DEF ChildSet
    <3>2. j \in ChildSet(i) <=> Len(P[j]) = Len(P[i]) + 1 /\ Front(P[j]) = P[i]
      <4> HIDE DEF headers
      <4> QED  BY ONLY <2>1, <3>1
    <3>3. Len(P[i]) + 1 = 2
      BY ONLY <1>4
    <3> QED  BY ONLY <3>2, <3>3
  <2>3. i # ROOT /\ i # None
    <3>1. i \in 1 .. Len(Archive)
      BY <1>1, HeadersAre
    <3> QED  BY <3>1 DEF ROOT, None
  <2>4. j \in MatchSet(i) <=> Head(P[j]) = Head(P[i])
    <3> HIDE DEF headers, Files, EndMark
    <3> QED  BY <1>3, <2>1, <2>3 DEF MatchSet
  <2> QED  BY <2>2, <2>4
<1>9. MatchSet(i) \subseteq DOMAIN Archive
  <2>1. i # ROOT
    <3>1. i \in 1 .. Len(Archive)
      BY <1>1, HeadersAre
    <3> QED  BY <3>1 DEF ROOT
  <2>2. ASSUME NEW j \in MatchSet(i)  PROVE j \in DOMAIN Archive
    <3>1. j \in Files /\ headers[j] # EndMark
      BY <2>1 DEF MatchSet
    <3> HIDE DEF headers, Files
    <3> QED  BY <3>1, HeadersAre
  <2> QED  BY <2>2
<1>10. ChildSet(i) \subseteq DOMAIN Archive
  BY DEF ChildSet
<1>11. i \in MatchSet(i)
  BY <1>1, <1>8
<1>12. ASSUME NEW j \in MatchSet(i), j # i
       PROVE  j \in ChildSet(i) /\ i <= j
  <2>1. j \in DOMAIN Archive /\ Head(P[j]) = Head(P[i])
    BY <1>8, <1>9
  <2>2. Len(P[j]) \in 1 .. 2 /\ Len(P[j]) # 1
    BY <1>3, <1>6, <1>12, <2>1
  <2>3. Len(P[j]) = 2
    BY <2>2
  <2>4. j \in ChildSet(i)
    BY <1>7, <1>8, <2>1, <2>3
  <2>5. PICK l \in 1 .. j - 1 : Archive[l].parts = << Head(P[j]) >>
    <3>1. ~Archive[j].slash /\ Archive[j].parts = P[j]
      <4>1. Archive[j].parts = P[j]
        BY <1>2, <2>1
      <4>2. Len(Archive[j].parts) # 1
        BY ONLY <2>3, <4>1
      <4>3. Archive[j].slash <=> Len(Archive[j].parts) = 1
        BY <2>1, NamesAre
      <4> QED  BY ONLY <4>1, <4>2, <4>3
    <3>2. ~Archive[j].slash => \E l \in 1 .. j - 1 :
                                 Archive[l].parts = << Head(Archive[j].parts) >>
      BY <2>1, ArchiveAssumption
    <3> QED  BY <3>1, <3>2
  <2>6. l \in DOMAIN Archive /\ l \in Nat /\ j \in Nat /\ l < j
    BY <2>1, HeadersAre
  <2>7. P[l] = << Head(P[j]) >>
    BY <1>2, <2>5, <2>6
  <2>8. Len(P[l]) = 1 /\ Head(P[l]) = Head(P[i])
    BY <2>1, <2>7
  <2>9. l = i
    BY <1>6, <2>6, <2>8
  <2> QED  BY <2>4, <2>6, <2>9
<1>13. ASSUME NEW j \in ChildSet(i)  PROVE j \in MatchSet(i) /\ j # i
  BY <1>4, <1>7, <1>8, <1>10
<1>14. i <= i
  BY <1>1, <1>3
<1> QED  BY <1>11, <1>12, <1>13, <1>14

(* Whatever the program does between the calls, and whatever the other     *)
(* programs do, a directory that is read to its end yields each of its     *)
(* files once and in the order of the archive.                             *)
THEOREM ListingsComplete == Spec => []ListingComplete
<1>1. DescriptorInv => ListingComplete
  <2>1. SUFFICES ASSUME DescriptorInv, NEW t \in alive, NEW f \in DOMAIN mine[t],
                        mine[t][f].done, ~mine[t][f].closed,
                        mine[t][f].file \in Files, headers[mine[t][f].file].slash
                 PROVE  mine[t][f].items = Children(mine[t][f].file)
    BY DEF ListingComplete
  <2>2. PICK m, d, i : m = mine[t][f] /\ d = fd[t][f] /\ i = m.file
    OBVIOUS
  <2>3. /\ Faithful(m, d) /\ m.done /\ ~m.closed /\ i \in Files /\ headers[i].slash
    BY <2>1, <2>2 DEF DescriptorInv, SlotInv
  <2>4. d.file_name = i /\ Listed(m, d)
    <3>1. i # ROOT
      BY <2>3, FilesAreNumbers
    <3>2. headers[i] # EndMark
      BY <2>3 DEF EndMark
    <3>3. FileName(i) = i
      BY <3>2 DEF FileName
    <3> QED  BY <2>2, <2>3, <3>1, <3>3 DEF Faithful
  <2>5. PICK S : S = MatchSet(i)
    OBVIOUS
  <2>6. /\ i \in S /\ (\A j \in S : i <= j) /\ ChildSet(i) = S \ {i}
    BY <2>3, <2>5, ChildrenMatch
  <2>7. S \subseteq Nat /\ IsFiniteSet(S)
    BY <2>5, MatchesAre
  <2>8. /\ Cardinality(S) >= 1 /\ Cardinality(S \ {i}) = Cardinality(S) - 1
        /\ \A k \in 1 .. Cardinality(S) - 1 : Sorted(S \ {i})[k] = Sorted(S)[k + 1]
    BY <2>6, <2>7, SortedDrop
  <2>9. Cardinality(S) \in Nat
    BY <2>7, FS_CardinalityType
  <2>10. PICK n : n = Cardinality(S) - 1
    OBVIOUS
  <2>11. m.items = Listing(S, n)
    <3>1. /\ m.items = Listing(S, NextEntry(d.entry) - 2)
          /\ Cardinality(S) = 0 \/ d.entry = Cardinality(S)
      BY <2>3, <2>4, <2>5 DEF Listed
    <3>2. NextEntry(d.entry) - 2 = n
      BY <2>8, <2>9, <2>10, <3>1 DEF NextEntry
    <3> QED  BY <3>1, <3>2
  <2>12. Listing(S, n) = [k \in 1 .. n |-> Sorted(S \ {i})[k]]
    BY <2>8, <2>10 DEF Listing
  <2>13. Sorted(S \ {i}) = [k \in 1 .. n |-> Sorted(S \ {i})[k]]
    <3>1. PICK T, s : T = S \ {i} /\ s = Sorted(T)
      OBVIOUS
    <3>2. Cardinality(T) = n
      BY ONLY <2>8, <2>10, <3>1
    <3>3. s = [k \in 1 .. Cardinality(T) |-> CHOOSE x \in T : Cardinality(UpTo(T, x)) = k]
      BY ONLY <3>1 DEF Sorted, UpTo
    <3>4. s = [k \in 1 .. n |-> s[k]]
      BY ONLY <3>2, <3>3
    <3> QED  BY ONLY <3>1, <3>4
  <2>14. Children(i) = Sorted(S \ {i})
    <3>1. Children(i) = Sorted(ChildSet(i))
      BY DEF Children, ChildSet
    <3> QED  BY <2>6, <3>1
  <2> QED  BY <2>2, <2>11, <2>12, <2>13, <2>14
<1> QED  BY <1>1, InitDescriptors, StepDescriptors, PTL DEF Spec
=============================================================================
