------------------------------- MODULE Process -------------------------------
(***************************************************************************)
(* The process subsystem of lateOS: the task table of sys/process.c, the   *)
(* round-robin schedule(), the system calls that create, block, wake and   *)
(* destroy tasks, the idle and init threads, and the timer and keyboard    *)
(* interrupt handlers as far as they touch the task table.                 *)
(*                                                                         *)
(* One CPU runs everything.  Kernel code runs with interrupts off, so the  *)
(* code between two calls of schedule() is one atomic step; pc[t] is the   *)
(* place where task t goes on when it gets the CPU back.  The interrupt    *)
(* flag is a variable of the model, changed exactly where the code changes *)
(* it (cli, sti, the interrupt gates, iretq), so that "nothing interrupts  *)
(* a user task" is a result and not an assumption.                         *)
(***************************************************************************)
EXTENDS Integers, FiniteSetsExt

CONSTANTS
  MAX,              \* slots of the task table (1100 in the code)
  TicksPerSecond,   \* timer interrupts per second of sleep (20 in the code)
  IntLimit,         \* the least unsigned an int cannot hold (2^31 in the code)
  SleepArgs,        \* arguments user tasks pass to sleep()
  KillClasses,      \* which targets user tasks pass to kill(), see KillClass
  MaxLines,         \* bound on the input lines that wait to be read
  ForkWhenFull      \* whether user tasks fork when no slot is free

AllKillClasses == {"self", "init", "idle", "listed", "unlisted"}

ASSUME ConstantsAssumption ==
  /\ MAX \in Nat /\ MAX >= 3
  /\ TicksPerSecond \in Nat \ {0}
  /\ IntLimit \in Nat \ {0}
  /\ SleepArgs \subseteq 0 .. 2 * IntLimit - 1
  /\ KillClasses \subseteq AllKillClasses
  /\ MaxLines \in Nat
  /\ ForkWhenFull \in BOOLEAN

Pids  == 0 .. MAX - 1
Init0 == 0          \* the "init" thread, running in()
Idle1 == 1          \* the "idle" thread, running idle()
Shell == 2          \* the first user task, bin/sbush

(* The enum of taskStruct; IDLE exists there and is never assigned. *)
States == {"RUNNING", "SLEEP", "ZOMBIE", "IDLE", "READY", "WAIT", "HANG"}

(* Where a task goes on.  "user": in ring 3; "sysret": at the end of       *)
(* isr128, about to return to ring 3; "wait", "waitpid", "intRead": in the *)
(* loop of that function; "idle": at the top of idle()'s loop; "hlt":      *)
(* halted with interrupts on; "woken": after hlt, before cli; "tick":      *)
(* inside intTimer, after its call of schedule().                          *)
Places == {"user", "sysret", "wait", "waitpid", "intRead",
           "idle", "hlt", "woken", "tick"}

(* What a slot's pml4e and vm describe: nothing yet, the kernel's own page *)
(* tables, a task's address space, or one that removeProcess() tore down.  *)
Spaces == {"none", "kernel", "task", "freed"}

VARIABLES
  state,        \* taskQueue[i].state
  ppid,         \* taskQueue[i].ppid
  time,         \* taskQueue[i].time, seconds a sleeper has left
  space,        \* what taskQueue[i].pml4e and .vm describe
  currentTask,  \* the slot currentTask points to
  pc,           \* where each task goes on (its kernel stack and regs.rip)
  target,       \* the argument of a task's waitpid() call, 0 outside it
  interrupted,  \* the place intTimer returns to while pc[t] = "tick"
  userIF,       \* the interrupt flag in the frame iretq takes to ring 3
  IF_flag,      \* the CPU's interrupt flag
  timerCount,   \* timerCount of idt.c
  lineCount,    \* lineCount of keyboard.c: lines entered and not yet read
  overrun       \* createChild() has written outside the task table

table   == <<state, ppid, time, space>>
cpu     == <<currentTask, pc, target, interrupted, userIF, IF_flag>>
devices == <<timerCount, lineCount>>
vars    == <<state, ppid, time, space, currentTask, pc, target, interrupted,
             userIF, IF_flag, timerCount, lineCount, overrun>>

-----------------------------------------------------------------------------
(* Helpers *)

(* The tasks ps prints. *)
stillAlive(p) == state[p] \in {"RUNNING", "SLEEP", "WAIT", "HANG"}

(* Seeded fault: checkTaskState() also accepts a zombie's slot. *)
UnoccupiedSlots == {p \in Pids : state[p] \in {"READY", "ZOMBIE"}}

FreeSlots == {p \in Pids : state[p] = "READY"}

(* newPID(): the lowest READY slot; asked for only when there is one. *)
newPID == Min(FreeSlots)

(* Seeded faults: the search of schedule() accepts every live task, or     *)
(* starts at slot 2, so that init and idle run only when nothing else can. *)
NextLiveTask(st, p) ==
  LET alive == {q \in Pids \ {p} : st[q] \notin {"READY", "ZOMBIE"}}
      above == {q \in alive : q > p}
  IN  IF above # {} THEN Min(above)
      ELSE IF alive # {} THEN Min(alive)
      ELSE p

NextUserTask(st, p) ==
  LET runnable == {q \in Pids : st[q] = "RUNNING"}
      users    == {q \in runnable : q >= Shell}
  IN  IF users # {} THEN Min(users)
      ELSE IF runnable # {} THEN Min(runnable)
      ELSE p

(* The first RUNNING slot after p in cyclic order, p itself if none is. *)
NextTask(st, p) ==
  LET runnable == {q \in Pids \ {p} : st[q] = "RUNNING"}
      above    == {q \in runnable : q > p}
  IN  IF above # {} THEN Min(above)
      ELSE IF runnable # {} THEN Min(runnable)
      ELSE p

(* Task t calls schedule() when the states are st and will go on at place: *)
(* every caller runs with the interrupt flag off, and it stays off.        *)
Schedule(st, t, place) ==
  /\ currentTask' = NextTask(st, t)
  /\ pc' = [pc EXCEPT ![t] = place]
  /\ IF_flag' = FALSE

(* Seeded fault: the loop over the children is missing. *)
NotOrphaned(p) == ppid

(* Children of p become children of init, whatever state they are in. *)
Orphaned(p) == [i \in Pids |-> IF ppid[i] = p THEN Init0 ELSE ppid[i]]

(* Seeded faults: the parent is not woken; the parent is woken whatever   *)
(* it is doing.                                                            *)
DeadUnnoticed(p) == [state EXCEPT ![p] = "ZOMBIE"]

DeadWakingAll(p) ==
  [state EXCEPT ![p] = "ZOMBIE", ![Orphaned(p)[p]] = "RUNNING"]

(* p becomes a zombie, then its parent is woken if it is in WAIT. *)
Dead(p) ==
  LET st     == [state EXCEPT ![p] = "ZOMBIE"]
      parent == Orphaned(p)[p]
  IN  IF st[parent] = "WAIT" THEN [st EXCEPT ![parent] = "RUNNING"] ELSE st

ZombieChildren(t) == {i \in Pids : ppid[i] = t /\ state[i] = "ZOMBIE"}

(* Seeded fault: the slot of the removed process is not given back. *)
ReapOnly(z) ==
  /\ space' = [space EXCEPT ![z] = "freed"]
  /\ state' = state

(* removeProcess(z) and the assignment that follows it at every call. *)
Reap(z) ==
  /\ space' = [space EXCEPT ![z] = "freed"]
  /\ state' = [state EXCEPT ![z] = "READY"]

(* Seeded fault: only the first waiting line wakes a reader. *)
AwakenedIfEmpty ==
  LET sleepers == {p \in Pids : state[p] = "SLEEP"}
  IN  IF sleepers = {} \/ lineCount > 0 THEN state
      ELSE [state EXCEPT ![Min(sleepers)] = "RUNNING"]

(* wake_process(): the lowest SLEEP slot, if any, becomes RUNNING. *)
Awakened ==
  LET sleepers == {p \in Pids : state[p] = "SLEEP"}
  IN  IF sleepers = {} THEN state
      ELSE [state EXCEPT ![Min(sleepers)] = "RUNNING"]

(* Seeded fault: the field that holds the seconds is wider than an int. *)
AsWideInt(n) == n

(* An unsigned int stored in an int of the same width. *)
AsInt(n) == IF n < IntLimit THEN n ELSE n - 2 * IntLimit

(* taskTimer() on one slot: count a sleeper down, wake it at zero. *)
CountedDown(p) == IF state[p] = "HANG" /\ time[p] > 0 THEN time[p] - 1 ELSE time[p]

InUser(t)       == currentTask = t /\ pc[t] = "user"
InKernel(t, at) == currentTask = t /\ pc[t] = at

(* isr128 ends with sti; iretq.  sti takes effect after the next           *)
(* instruction, which reloads the flag from the task's own frame.          *)
ReturnToUser(t) == IF_flag' = userIF[t]

-----------------------------------------------------------------------------
(* The state createNewTask() leaves when it enters ring 3: slots 0 and 1   *)
(* hold the kernel threads, slot 2 the shell, every ppid is 0, and the     *)
(* flags pushed for iretq are those of boot(), which executed cli.         *)
Init ==
  /\ state = [p \in Pids |-> IF p <= Shell THEN "RUNNING" ELSE "READY"]
  /\ ppid  = [p \in Pids |-> 0]
  /\ time  = [p \in Pids |-> 0]
  /\ space = [p \in Pids |-> IF p = Shell THEN "task"
                             ELSE IF p < Shell THEN "kernel" ELSE "none"]
  /\ currentTask = Shell
  /\ pc = [p \in Pids |-> IF p = Init0 THEN "wait"
                          ELSE IF p = Idle1 THEN "idle"
                          ELSE IF p = Shell THEN "user" ELSE "sysret"]
  /\ target = [p \in Pids |-> 0]
  /\ interrupted = [p \in Pids |-> "woken"]
  /\ userIF = [p \in Pids |-> FALSE]
  /\ IF_flag = FALSE
  /\ timerCount = 0
  /\ lineCount = 0
  /\ overrun = FALSE

-----------------------------------------------------------------------------
(* System calls of the current user task *)

(* fork(): the child gets the lowest READY slot and the parent's kernel    *)
(* stack, so it leaves isr128 like its parent, with a result of its own.   *)
Fork(t) ==
  /\ InUser(t)
  /\ FreeSlots # {}
  /\ state'  = [state EXCEPT ![newPID] = "RUNNING"]
  /\ ppid'   = [ppid EXCEPT ![newPID] = t]
  /\ space'  = [space EXCEPT ![newPID] = "task"]
  /\ pc'     = [pc EXCEPT ![newPID] = "sysret"]
  /\ target' = [target EXCEPT ![newPID] = target[t]]
  /\ userIF' = [userIF EXCEPT ![newPID] = userIF[t]]
  /\ ReturnToUser(t)
  /\ UNCHANGED <<time, currentTask, interrupted, devices, overrun>>

(* fork() with no READY slot: newPID() is -1, createChild() does not look, *)
(* and the "child" is written in front of the table.  What that hits is up *)
(* to the linker, so nothing is modelled after it.                         *)
ForkTableFull(t) ==
  /\ ForkWhenFull
  /\ InUser(t)
  /\ FreeSlots = {}
  /\ overrun' = TRUE
  /\ ReturnToUser(t)
  /\ UNCHANGED <<table, currentTask, pc, target, interrupted, userIF, devices>>

(* Seeded fault: exec starts the program with interrupts on. *)
ExecFlagOn == TRUE

(* A successful execvpe() does not come back through isr128: it pushes the *)
(* flags it runs with itself, and those have interrupts off.               *)
ExecFlag == FALSE

Exec(t) ==
  /\ InUser(t)
  /\ userIF'  = [userIF EXCEPT ![t] = ExecFlag]
  /\ IF_flag' = ExecFlag
  /\ UNCHANGED <<table, currentTask, pc, target, interrupted, devices, overrun>>

(* exit(), also what a segmentation fault ends in. *)
Exit(t) ==
  /\ InUser(t)
  /\ state' = Dead(t)
  /\ ppid'  = Orphaned(t)
  /\ Schedule(state', t, "sysret")
  /\ UNCHANGED <<time, space, target, interrupted, userIF, devices, overrun>>

(* kill() does not look at its target.  The classes let a run choose what  *)
(* the callers do: kill what ps lists, or also other slots.                *)
KillClass(t, p) ==
  CASE p = t     -> "self"
    [] p = Init0 /\ p # t -> "init"
    [] p = Idle1 /\ p # t -> "idle"
    [] p \notin {t, Init0, Idle1} /\ stillAlive(p) -> "listed"
    [] OTHER -> "unlisted"

Kill(t, p) ==
  /\ InUser(t)
  /\ KillClass(t, p) \in KillClasses
  /\ state' = Dead(p)
  /\ ppid'  = Orphaned(p)
  /\ ReturnToUser(t)
  /\ UNCHANGED <<time, space, currentTask, pc, target, interrupted, userIF,
                 devices, overrun>>

(* waitpid(c) of a child that is a zombie already. *)
WaitpidReap(t, c) ==
  /\ InUser(t)
  /\ c \in ZombieChildren(t)
  /\ Reap(c)
  /\ ReturnToUser(t)
  /\ UNCHANGED <<ppid, time, currentTask, pc, target, interrupted, userIF,
                 devices, overrun>>

(* waitpid(c) of a child that lives; the state is set to WAIT only once.   *)
WaitpidBlock(t, c) ==
  /\ InUser(t)
  /\ ppid[c] = t /\ stillAlive(c)
  /\ state'  = [state EXCEPT ![t] = "WAIT"]
  /\ target' = [target EXCEPT ![t] = c]
  /\ Schedule(state', t, "waitpid")
  /\ UNCHANGED <<ppid, time, space, interrupted, userIF, devices, overrun>>

(* One turn of waitpid()'s loop after schedule() came back. *)
WaitpidResume(t) ==
  /\ InKernel(t, "waitpid")
  /\ IF target[t] \in ZombieChildren(t)
     THEN /\ Reap(target[t])
          /\ pc' = [pc EXCEPT ![t] = "user"]
          /\ target' = [target EXCEPT ![t] = 0]
          /\ ReturnToUser(t)
          /\ UNCHANGED currentTask
     ELSE /\ Schedule(state, t, "waitpid")
          /\ UNCHANGED <<state, space, target>>
  /\ UNCHANGED <<ppid, time, interrupted, userIF, devices, overrun>>

(* sleep(n); sleep(0) returns at once and changes nothing. *)
Sleep(t, n) ==
  /\ InUser(t)
  /\ n > 0
  /\ time'  = [time EXCEPT ![t] = AsInt(n)]
  /\ state' = [state EXCEPT ![t] = "HANG"]
  /\ Schedule(state', t, "sysret")
  /\ UNCHANGED <<ppid, space, target, interrupted, userIF, devices, overrun>>

(* The three ways through intRead()'s loop, when read(0) is called and     *)
(* each time schedule() comes back.  Module Keyboard has the buffer itself *)
(* and says when a counted line is missing from it.                        *)
TakeLine(t) ==
  /\ lineCount > 0
  /\ lineCount' = lineCount - 1
  /\ state' = [state EXCEPT ![t] = "RUNNING"]
  /\ pc' = [pc EXCEPT ![t] = "user"]
  /\ ReturnToUser(t)
  /\ UNCHANGED currentTask

(* Seeded fault: a reader blocks in the state of wait(). *)
AwaitLineInWait(t) ==
  /\ lineCount = 0
  /\ state' = [state EXCEPT ![t] = "WAIT"]
  /\ Schedule(state', t, "intRead")
  /\ UNCHANGED lineCount

AwaitLine(t) ==
  /\ lineCount = 0
  /\ state' = [state EXCEPT ![t] = "SLEEP"]
  /\ Schedule(state', t, "intRead")
  /\ UNCHANGED lineCount

MissLine(t) ==
  /\ lineCount > 0
  /\ Schedule(state, t, "intRead")
  /\ UNCHANGED <<state, lineCount>>

Read(t) ==
  /\ InUser(t) \/ InKernel(t, "intRead")
  /\ TakeLine(t) \/ AwaitLine(t) \/ MissLine(t)
  /\ UNCHANGED <<ppid, time, space, target, interrupted, userIF, timerCount,
                 overrun>>

(* The end of isr128 for a task that was switched away in sleep(), for a   *)
(* forked child, and for exit() if schedule() ever returns there.          *)
SysReturn(t) ==
  /\ InKernel(t, "sysret")
  /\ pc' = [pc EXCEPT ![t] = "user"]
  /\ ReturnToUser(t)
  /\ UNCHANGED <<table, currentTask, target, interrupted, userIF, devices, overrun>>

-----------------------------------------------------------------------------
(* Kernel threads *)

(* in() calls wait() for ever; wait() scans before and after schedule() in *)
(* the same way, so both scans are this step.                              *)
WaitReap(t) ==
  /\ InKernel(t, "wait")
  /\ ZombieChildren(t) # {}
  /\ Reap(Min(ZombieChildren(t)))
  /\ UNCHANGED <<ppid, time, cpu, devices, overrun>>

WaitBlock(t) ==
  /\ InKernel(t, "wait")
  /\ ZombieChildren(t) = {}
  /\ state' = [state EXCEPT ![t] = "WAIT"]
  /\ Schedule(state', t, "wait")
  /\ UNCHANGED <<ppid, time, space, target, interrupted, userIF, devices, overrun>>

(* idle(): sti; hlt *)
IdleHalt(t) ==
  /\ InKernel(t, "idle")
  /\ pc' = [pc EXCEPT ![t] = "hlt"]
  /\ IF_flag' = TRUE
  /\ UNCHANGED <<table, currentTask, target, interrupted, userIF, devices, overrun>>

(* idle(): cli; schedule() *)
IdleSchedule(t) ==
  /\ InKernel(t, "woken")
  /\ Schedule(state, t, "idle")
  /\ UNCHANGED <<table, target, interrupted, userIF, devices, overrun>>

-----------------------------------------------------------------------------
(* Interrupts: taken whenever the flag is on, whatever task that hits. *)

(* Where iretq returns to; an interrupt ends hlt. *)
AfterIret(place) == IF place = "hlt" THEN "woken" ELSE place

TimerTick(t) ==
  /\ currentTask = t /\ IF_flag
  /\ timerCount + 1 # TicksPerSecond
  /\ timerCount' = timerCount + 1
  /\ pc' = [pc EXCEPT ![t] = AfterIret(@)]
  /\ UNCHANGED <<table, currentTask, target, interrupted, userIF, IF_flag,
                 lineCount, overrun>>

(* The tick that completes a second switches tasks first and updates the   *)
(* clock when the interrupted task is resumed.                             *)
TimerSecond(t) ==
  /\ currentTask = t /\ IF_flag
  /\ timerCount + 1 = TicksPerSecond
  /\ timerCount' = timerCount + 1
  /\ interrupted' = [interrupted EXCEPT ![t] = AfterIret(pc[t])]
  /\ Schedule(state, t, "tick")
  /\ UNCHANGED <<table, target, userIF, lineCount, overrun>>

(* Seeded fault: the tick counter is not reset. *)
noResetTimer == UNCHANGED timerCount

resetTimer == timerCount' = 0

(* Seeded faults: whoever has no time left is woken, sleeping or not; the *)
(* task that reaches zero is not woken.                                    *)
DueInAnyState(p) == state[p] # "READY" /\ p > Idle1 /\ CountedDown(p) = 0

DueNextTime(p) == state[p] = "HANG" /\ time[p] < 0

(* taskTimer() for one slot: is it woken? *)
Due(p) == state[p] = "HANG" /\ CountedDown(p) = 0

TimerResume(t) ==
  /\ InKernel(t, "tick")
  /\ resetTimer
  /\ time'  = [p \in Pids |-> CountedDown(p)]
  /\ state' = [p \in Pids |-> IF Due(p) THEN "RUNNING" ELSE state[p]]
  /\ pc' = [pc EXCEPT ![t] = interrupted[t]]
  /\ IF_flag' = TRUE
  /\ UNCHANGED <<ppid, space, currentTask, target, interrupted, userIF,
                 lineCount, overrun>>

(* intWrite() for Enter, and for every other key. *)
KeyEnter(t) ==
  /\ currentTask = t /\ IF_flag
  /\ lineCount < MaxLines
  /\ lineCount' = lineCount + 1
  /\ state' = Awakened
  /\ pc' = [pc EXCEPT ![t] = AfterIret(@)]
  /\ UNCHANGED <<ppid, time, space, currentTask, target, interrupted, userIF,
                 IF_flag, timerCount, overrun>>

KeyOther(t) ==
  /\ currentTask = t /\ IF_flag
  /\ pc' = [pc EXCEPT ![t] = AfterIret(@)]
  /\ UNCHANGED <<table, currentTask, target, interrupted, userIF, IF_flag,
                 devices, overrun>>

-----------------------------------------------------------------------------
UserCall(t) ==
  \/ Fork(t) \/ ForkTableFull(t) \/ Exec(t) \/ Exit(t) \/ Read(t)
  \/ \E p \in Pids : Kill(t, p) \/ WaitpidReap(t, p) \/ WaitpidBlock(t, p)
  \/ \E n \in SleepArgs : Sleep(t, n)

KernelStep(t) ==
  \/ WaitpidResume(t) \/ SysReturn(t) \/ WaitReap(t) \/ WaitBlock(t)
  \/ IdleHalt(t) \/ IdleSchedule(t) \/ TimerResume(t)

Timer(t)     == TimerTick(t) \/ TimerSecond(t)
Interrupt(t) == Timer(t) \/ KeyEnter(t) \/ KeyOther(t)

Next == ~overrun /\ \E t \in Pids : UserCall(t) \/ KernelStep(t) \/ Interrupt(t)

Spec == Init /\ [][Next]_vars

(* The calls by which a user task gives up the CPU. *)
Yield(t) ==
  \/ Exit(t) \/ Read(t)
  \/ \E p \in Pids : WaitpidBlock(t, p)
  \/ \E n \in SleepArgs : Sleep(t, n)

(* The CPU does not stop; the interrupt controller keeps a timer interrupt *)
(* pending until it can be taken; and, the assumption of a cooperative     *)
(* system, a user task goes on to a call that gives up the CPU.            *)
Fairness ==
  /\ WF_vars(\E t \in Pids : KernelStep(t))
  /\ SF_vars(\E t \in Pids : Timer(t))
  /\ WF_vars(\E t \in Pids : Yield(t))

FairSpec == Spec /\ Fairness

-----------------------------------------------------------------------------
(* Properties *)

(* Type correctness: every field keeps the range its C type and the        *)
(* assignments of sys/process.c and sys/idt.c give it; a sleeper's time is *)
(* a signed int.                                                           *)
TypeOK ==
  /\ state \in [Pids -> States \ {"IDLE"}]
  /\ ppid \in [Pids -> Pids]
  /\ time \in [Pids -> -IntLimit .. IntLimit - 1]
  /\ space \in [Pids -> Spaces]
  /\ currentTask \in Pids
  /\ pc \in [Pids -> Places]
  /\ target \in [Pids -> Pids]
  /\ interrupted \in [Pids -> Places]
  /\ userIF \in [Pids -> BOOLEAN]
  /\ IF_flag \in BOOLEAN
  /\ timerCount \in 0 .. TicksPerSecond
  /\ lineCount \in 0 .. MaxLines
  /\ overrun \in BOOLEAN

(* The task on the CPU is one schedule() may choose: its fall-back to the  *)
(* caller itself never keeps a blocked or dead task running.               *)
OnCpuRunnable == state[currentTask] = "RUNNING"

(* "Cooperative multi-tasking": an interrupt is only taken in idle(), so   *)
(* nothing is ever preempted, in ring 3 or in the kernel.                  *)
InterruptsOnlyIdle == IF_flag => currentTask = Idle1

(* intTimer() tests timerCount == 20 and resets it only after its          *)
(* schedule() call has come back; no tick falls in between, which would    *)
(* make the counter miss the value 20 and stop the clock for ever.         *)
TimerInStep ==
  \/ timerCount < TicksPerSecond
  \/ timerCount = TicksPerSecond /\ pc[Idle1] = "tick"

(* A task blocked in waitpid() is not waiting for a zombie: the exit() or  *)
(* kill() of the child and the test in waitpid() never miss each other.    *)
NoLostChildExit ==
  \A t \in Pids : pc[t] = "waitpid" /\ state[t] = "WAIT"
                    => target[t] \notin ZombieChildren(t)

(* The child a task waits for stays its child, and its slot is not given   *)
(* to anybody else, until the waiter itself removes it.                    *)
WaitTargetStaysChild ==
  \A t \in Pids : pc[t] = "waitpid" /\ state[t] \in {"WAIT", "RUNNING"}
                    => /\ ppid[target[t]] = t
                       /\ state[target[t]] # "READY"

(* The parent of every process is alive, so somebody can remove it: exit() *)
(* and kill() hand all children of the dead process to init.               *)
ParentLives ==
  \A p \in Pids : p > Idle1 /\ state[p] # "READY"
                    => state[ppid[p]] \notin {"READY", "ZOMBIE"}

(* What removeProcess() tears down is the address space of a task, and     *)
(* nobody has torn it down before; no live task runs without one.          *)
SpaceOwned ==
  \A p \in Pids :
     /\ state[p] = "ZOMBIE" => space[p] = "task"
     /\ stillAlive(p) => space[p] = IF p < Shell THEN "kernel" ELSE "task"

(* Each blocking state belongs to one loop, and its waker (a child's exit, *)
(* Enter, the timer) wakes nobody who waits for something else.            *)
BlockedWhereItWaits ==
  \A p \in Pids :
     /\ state[p] = "WAIT"  => pc[p] \in {"wait", "waitpid"}
     /\ state[p] = "SLEEP" => pc[p] = "intRead"
     /\ state[p] = "HANG"  => pc[p] = "sysret"

(* No lost wake-up at the keyboard: while a reader sleeps, every entered   *)
(* line has a woken reader of its own on the way to it.                    *)
NoStrandedReader ==
  (\E p \in Pids : state[p] = "SLEEP")
    => lineCount <= Cardinality({p \in Pids : state[p] = "RUNNING" /\ pc[p] = "intRead"})

(* A dead process is never made runnable again by a wake-up that comes     *)
(* late; it can only be removed.                                           *)
ZombieStaysDead ==
  [][\A p \in Pids : state[p] = "ZOMBIE" => state'[p] \in {"ZOMBIE", "READY"}]_vars

(* newPID() must find a slot or fork() must fail: bin/sbush prints "Failed *)
(* to fork" for that case, and the kernel must not write elsewhere.        *)
ForkStaysInTable == ~overrun

(* Idle, and with it the devices, gets the CPU again and again: waitpid()  *)
(* loops that spin in RUNNING and new children do not shut it out.         *)
InterruptsServed == []<>IF_flag

(* A sleeper with time left leaves HANG when that many seconds are over.   *)
SleeperWakes ==
  \A p \in Pids : (state[p] = "HANG" /\ time[p] > 0) ~> (state[p] # "HANG")

(* waitpid() returns once the child is a zombie, unless the waiter itself  *)
(* is killed.                                                              *)
WaitpidReturns ==
  \A t \in Pids :
     (pc[t] = "waitpid" /\ state[t] # "ZOMBIE" /\ target[t] \in ZombieChildren(t))
       ~> (pc[t] # "waitpid" \/ state[t] = "ZOMBIE")

(* init removes every zombie it owns while it is runnable.  (It is not     *)
(* woken for a zombie it inherits: see the README.)                        *)
InitReaps ==
  \A p \in Pids :
     (state[Init0] = "RUNNING" /\ p \in ZombieChildren(Init0)) ~> (state[p] = "READY")
=============================================================================
