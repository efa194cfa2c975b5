-------------------------------- MODULE Tarfs --------------------------------
(***************************************************************************)
(* The read-only file system of sys/tarfs.c and what the task table keeps  *)
(* for it: the working directory (chdir(), getCurrentDirectory() in        *)
(* sys/process.c) and the descriptors of every slot.  A task is a slot of  *)
(* the table; a slot is used again and keeps its descriptors.              *)
(*                                                                         *)
(* A path is a sequence of parts, absolute or not, with or without a slash *)
(* at its end; a file is its index in the archive.                         *)
(***************************************************************************)
EXTENDS Integers, FiniteSets, SequencesExt, Ascending

CONSTANTS
  Archive,       \* the names of the archive in its order: [parts, slash]
  MaxScan,       \* headers that lookups and listings look at (32)
  Tasks,         \* slots of user tasks
  TableSize,     \* file_t's of a slot (100)
  MaxOwn,        \* bounds on the descriptors a program has open at a time
  Paths,         \* what programs pass to open(), opendir() and chdir()
  Commands,      \* what they pass to execvpe(): [here, name], here for "./"
  OpenBeyond     \* whether a slot goes on opening when its table is full

Up   == ".."
Name(e) == e.parts

(* init_tarfs() takes the block of zeroes behind the last file for a       *)
(* header, too: its name is empty.                                         *)
EndMark == [parts |-> <<>>, slash |-> FALSE]
headers == Append(Archive, EndMark)

(* The archive that the Makefile builds: directories one level deep, named *)
(* with a slash at the end and in front of what they hold.  (starts_with() *)
(* takes two names with the same first two characters for a match; the     *)
(* directories bin, etc, lib and usr have none.)                           *)
ASSUME ArchiveAssumption ==
  /\ Archive \in Seq([parts : Seq(STRING), slash : BOOLEAN])
  /\ \A i \in DOMAIN Archive :
       /\ Len(Archive[i].parts) \in 1 .. 2
       /\ \A k \in DOMAIN Archive[i].parts : Archive[i].parts[k] # Up
       /\ Archive[i].slash <=> Len(Archive[i].parts) = 1
       /\ ~Archive[i].slash => \E j \in 1 .. i - 1 :
                                 Archive[j].parts = <<Head(Archive[i].parts)>>
       /\ \A j \in 1 .. i - 1 : Archive[i].parts # Archive[j].parts
  /\ MaxScan \in Nat /\ Len(headers) <= MaxScan

ASSUME TableAssumption ==
  /\ Tasks \subseteq Nat /\ Tasks # {}
  /\ TableSize \in Nat /\ TableSize >= 3
  /\ MaxOwn \in [Tasks -> Nat] /\ OpenBeyond \in BOOLEAN

VARIABLES
  alive,         \* slots with a task
  curr_dir,      \* the parts of the working directory, <<>> for "/"
  fd, fd_c,      \* the descriptors of a slot, and how many it has opened
  mine,          \* what the program in the slot knows of its descriptors
  overrun        \* a slot has written behind its descriptors

vars == <<alive, curr_dir, fd, fd_c, mine, overrun>>

Files == DOMAIN headers
None  == 0
ROOT  == -1        \* the file name "/" that openDirFile() stores

Zeroed == [file_name |-> None, entry |-> 0, address |-> None, size |-> None]

Init ==
  /\ alive = {CHOOSE t \in Tasks : \A u \in Tasks : t <= u}
  /\ curr_dir = [t \in Tasks |-> <<>>]
  /\ fd = [t \in Tasks |-> [i \in 0 .. TableSize - 1 |-> Zeroed]]
  /\ fd_c = [t \in Tasks |-> 0]
  /\ mine = [t \in Tasks |-> << >>]
  /\ overrun = FALSE

-----------------------------------------------------------------------------
(* Lookup *)

(* ".." wipes out the last part; in the root it wipes out nothing.         *)
Walk(parts, part) == IF part # Up THEN Append(parts, part)
                     ELSE IF parts = <<>> THEN <<>> ELSE Front(parts)

(* Where the parts of a path lead from a directory. *)
Walked(from, parts) ==
  LET walked[k \in 0 .. Len(parts)] ==
        IF k = 0 THEN from ELSE Walk(walked[k - 1], parts[k])
  IN  walked[Len(parts)]

(* Seeded fault: a relative path is looked up from the root. *)
FromRoot(cwd, path) ==
  LET parts == Walked(<<>>, path.parts)
  IN  [parts |-> parts, slash |-> path.slash /\ parts # <<>>]

deriveRelative(cwd, path) ==
  LET parts == Walked(IF path.abs THEN <<>> ELSE cwd, path.parts)
  IN  [parts |-> parts, slash |-> path.slash /\ parts # <<>>]

(* The first header of that name; the empty name is that of EndMark.       *)
isfileexists(cwd, path) ==
  LET named == {i \in Files : i <= MaxScan /\ headers[i] = deriveRelative(cwd, path)}
  IN  IF named = {} THEN None ELSE CHOOSE i \in named : \A j \in named : i <= j

(* Seeded fault: whatever the path names will do. *)
AnyFile(cwd, path) == isfileexists(cwd, path)

isValidDirectory(cwd, path) ==
  LET i == isfileexists(cwd, path)
  IN  IF i # None /\ headers[i].slash THEN i ELSE None

(* chdir() of libc adds the slash that the path may lack.                  *)
WithSlash(path) == [path EXCEPT !.slash = TRUE]
UpOnly == [abs |-> FALSE, parts |-> <<Up>>, slash |-> TRUE]

(* Only "../" can lead to the root: the empty name that every other path   *)
(* to it derives is no directory.                                          *)
Chdir(t, path) ==
  LET to == deriveRelative(curr_dir[t], WithSlash(path)).parts
  IN  /\ \/ WithSlash(path) = UpOnly /\ to = <<>>
         \/ isValidDirectory(curr_dir[t], WithSlash(path)) # None
      /\ curr_dir' = [curr_dir EXCEPT ![t] = to]
      /\ UNCHANGED <<alive, fd, fd_c, mine, overrun>>

(* The path that ls takes when it has no argument.                         *)
getCurrentDirectory(t) == [abs |-> TRUE, parts |-> curr_dir[t], slash |-> TRUE]

-----------------------------------------------------------------------------
(* Descriptors *)

(* The name of EndMark is empty. *)
FileName(i) == IF headers[i] = EndMark THEN None ELSE i

Fresh(i) == [file |-> i, items |-> <<>>, done |-> FALSE, closed |-> FALSE]

(* Seeded fault: one of the numbers is that of stderr. *)
NextFdLow(t) == fd_c[t] + 2

(* The number of the next descriptor; a number is never used again, and    *)
(* nothing compares it with the size of the table.                         *)
NextFd(t) == fd_c[t] + 3

InUse(t, f) == f \in DOMAIN mine[t] /\ ~mine[t][f].closed
InUseBy(t)  == Cardinality({f \in DOMAIN mine[t] : InUse(t, f)})

(* A program that is given the number of a descriptor it still uses goes   *)
(* on taking it for the old one.                                           *)
Opened(t, desc, i) ==
  /\ InUseBy(t) < MaxOwn[t]
  /\ NextFd(t) < TableSize
  /\ fd' = [fd EXCEPT ![t][NextFd(t)] = desc]
  /\ fd_c' = [fd_c EXCEPT ![t] = @ + 1]
  /\ mine' = [mine EXCEPT ![t] =
                [f \in DOMAIN @ \cup {NextFd(t)} |->
                   IF f = NextFd(t) /\ ~InUse(t, f) THEN Fresh(i) ELSE @[f]]]
  /\ UNCHANGED <<alive, curr_dir, overrun>>

(* setCurrentTaskVal() *)
Descriptor(i) == [file_name |-> FileName(i), entry |-> 0, address |-> i,
                  size |-> IF headers[i] = EndMark THEN None ELSE i]

Open(t, path) ==
  LET i == isfileexists(curr_dir[t], path)
  IN  i # None /\ Opened(t, Descriptor(i), i)

(* openDirFile(): for "/" it stores the name and the entry only.           *)
IsRoot(path) == path.abs /\ path.parts = <<>>

OpenRoot(t, path) ==
  /\ IsRoot(path)
  /\ Opened(t, [fd[t][NextFd(t)] EXCEPT !.file_name = ROOT, !.entry = 0], ROOT)

OpenDir(t, path) ==
  LET i == isValidDirectory(curr_dir[t], path)
  IN  ~IsRoot(path) /\ i # None /\ Opened(t, Descriptor(i), i)

(* One open too many writes behind fd[], to fd_c and the saved registers:  *)
(* nothing is modelled after it.                                           *)
OpenBehind(t, path) ==
  /\ OpenBeyond
  /\ InUseBy(t) < MaxOwn[t]
  /\ NextFd(t) >= TableSize
  /\ isfileexists(curr_dir[t], path) # None
  /\ overrun' = TRUE
  /\ UNCHANGED <<alive, curr_dir, fd, fd_c, mine>>

(* What the loop of readDirTarfsFile() counts. *)
Matches(name) ==
  Sorted({i \in Files : /\ i <= MaxScan
                        /\ \/ name = ROOT
                           \/ /\ name # None
                              /\ headers[i] # EndMark
                              /\ Head(headers[i].parts) = Head(headers[name].parts)})

(* Seeded fault: the first match is not skipped. *)
EntryFromFirst(entry) == entry + 1

(* The first match is the directory itself, which is not listed.           *)
NextEntry(entry) == (IF entry = 0 THEN 1 ELSE entry) + 1

ReadDir(t, f) ==
  LET desc    == fd[t][f]
      matches == Matches(desc.file_name)
      k       == NextEntry(desc.entry)
  IN  /\ \/ /\ k <= Len(matches)
            /\ fd' = [fd EXCEPT ![t][f].entry = k]
            /\ mine' = [mine EXCEPT ![t][f].items = Append(@, matches[k])]
         \/ /\ k > Len(matches)
            /\ fd' = [fd EXCEPT ![t][f].entry = IF matches = <<>> THEN @ ELSE k - 1]
            /\ mine' = [mine EXCEPT ![t][f].done = TRUE]
      /\ UNCHANGED <<alive, curr_dir, fd_c, overrun>>

(* Seeded fault: closing gives the number back. *)
GiveBack(t) == fd_c' = [fd_c EXCEPT ![t] = @ - 1]

KeepCount(t) == UNCHANGED fd_c

(* closeTarfsFile() leaves the address. *)
Close(t, f) ==
  /\ fd' = [fd EXCEPT ![t][f].file_name = None, ![t][f].size = None]
  /\ mine' = [mine EXCEPT ![t][f].closed = TRUE]
  /\ KeepCount(t)
  /\ UNCHANGED <<alive, curr_dir, overrun>>

(* readTarfsFile() changes nothing but the buffer.  It stores bytes of the *)
(* header at the address, as many as the size says, if any.                *)
readTarfsFile(t, f) == [from |-> fd[t][f].address, size |-> fd[t][f].size]

-----------------------------------------------------------------------------
(* Tasks *)

newPID == CHOOSE u \in Tasks \ alive : \A v \in Tasks \ alive : u <= v

(* copytask() copies the working directory and no descriptor.              *)
Fork(t) ==
  /\ alive # Tasks
  /\ alive' = alive \cup {newPID}
  /\ curr_dir' = [curr_dir EXCEPT ![newPID] = curr_dir[t]]
  /\ mine' = [mine EXCEPT ![newPID] = << >>]
  /\ UNCHANGED <<fd, fd_c, overrun>>

(* get_file_address() looks at every header. *)
get_file_address(parts) ==
  LET named == {i \in Files : headers[i] = [parts |-> parts, slash |-> FALSE]}
  IN  IF named = {} THEN None ELSE CHOOSE i \in named : \A j \in named : i <= j

(* "./x" is a script of the working directory, for the shell to run, even  *)
(* if it is a program; every other name is one in bin.                     *)
setFileAddress(t, command) ==
  IF ~command.here THEN get_file_address(<<"bin", command.name>>)
  ELSE IF get_file_address(curr_dir[t] \o <<command.name>>) = None THEN None
  ELSE get_file_address(<<"bin", "sbush">>)

(* A new program knows nothing of the descriptors the slot keeps.          *)
Exec(t, command) ==
  /\ setFileAddress(t, command) # None
  /\ mine' = [mine EXCEPT ![t] = << >>]
  /\ UNCHANGED <<alive, curr_dir, fd, fd_c, overrun>>

(* exit(), and the wait() that makes the slot READY again.                 *)
Exit(t) ==
  /\ Cardinality(alive) > 1
  /\ alive' = alive \ {t}
  /\ mine' = [mine EXCEPT ![t] = << >>]
  /\ UNCHANGED <<curr_dir, fd, fd_c, overrun>>

Call(t) ==
  \/ \E path \in Paths : Chdir(t, path) \/ Open(t, path) \/ OpenBehind(t, path)
  \/ \E path \in Paths \cup {getCurrentDirectory(t)} :
        OpenRoot(t, path) \/ OpenDir(t, path)
  \/ \E f \in DOMAIN mine[t] : ReadDir(t, f)
  \/ \E f \in DOMAIN mine[t] : InUse(t, f) /\ Close(t, f)
  \/ \E command \in Commands : Exec(t, command)
  \/ Fork(t) \/ Exit(t)

Next == ~overrun /\ \E t \in alive : Call(t)

Spec == Init /\ [][Next]_vars

-----------------------------------------------------------------------------
(* Properties *)

(* Type correctness; every descriptor a program knows lies in its table.   *)
TypeOK ==
  /\ alive \subseteq Tasks /\ alive # {}
  /\ \A t \in Tasks : \A k \in DOMAIN curr_dir[t] : curr_dir[t][k] # Up
  /\ \A t \in Tasks : \A f \in 0 .. TableSize - 1 :
        fd[t][f] \in [file_name : Files \cup {None, ROOT}, entry : 0 .. Len(headers),
                     address : Files \cup {None}, size : Files \cup {None}]
  /\ fd_c \in [Tasks -> 0 .. TableSize - 3]
  /\ \A t \in Tasks : DOMAIN mine[t] \subseteq 3 .. TableSize - 1
  /\ overrun \in BOOLEAN

(* A program that has opened a file and not closed it reaches that file    *)
(* through the descriptor, whatever else was opened, closed or forked and  *)
(* whoever had the slot before; through a closed one it reaches nothing.   *)
OwnDescriptors ==
  \A t \in alive : \A f \in DOMAIN mine[t] :
    LET file == mine[t][f].file
        name == fd[t][f].file_name
        read == readTarfsFile(t, f)
    IN  IF mine[t][f].closed THEN name = None /\ read.size = None
        ELSE IF file = ROOT THEN name = ROOT
        ELSE name = FileName(file) /\ read.from = file

Ups(n)     == [k \in 1 .. n |-> Up]
Dir(parts) == [parts |-> parts, slash |-> TRUE]

Children(i) == Sorted({j \in DOMAIN Archive :
                         /\ Len(Archive[j].parts) = Len(headers[i].parts) + 1
                         /\ Front(Archive[j].parts) = headers[i].parts})

(* The working directory is the root or a directory of the archive, and    *)
(* from there every file is found: by its bare name if it lies in it, and  *)
(* else up to the root and down.                                           *)
NamesResolve ==
  \A t \in alive : \A i \in DOMAIN Archive :
    LET finds(parts) == isfileexists(curr_dir[t],
                          [abs |-> FALSE, parts |-> parts, slash |-> Archive[i].slash]) = i
    IN  /\ Dir(curr_dir[t]) \in Range(Archive) \cup {Dir(<<>>)}
        /\ finds(Ups(Len(curr_dir[t])) \o Archive[i].parts)
        /\ Front(Archive[i].parts) = curr_dir[t] => finds(<<Last(Archive[i].parts)>>)

(* Reading a directory below the root to its end yields each of its files  *)
(* once, in the order of the archive, however the calls are interleaved    *)
(* with others.                                                            *)
ListingComplete ==
  \A t \in alive : \A f \in DOMAIN mine[t] :
    LET m == mine[t][f]
    IN  (m.done /\ ~m.closed /\ m.file \in Files /\ headers[m.file].slash)
           => m.items = Children(m.file)

(* Every descriptor lies in the table of its slot.                         *)
DescriptorsInTable == ~overrun
=============================================================================
