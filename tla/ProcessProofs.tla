---------------------------- MODULE ProcessProofs ----------------------------
(***************************************************************************)
(* Proofs about module Process, for every size of the task table, every    *)
(* length of a second, and every set of arguments of sleep(): the types,   *)
(* the kernel's slots and the parents, and then the life of a task: where  *)
(* it blocks, who wakes it, who removes it, and that its address space is  *)
(* torn down once.                                                         *)
(***************************************************************************)
EXTENDS Process, AscendingProofs

-----------------------------------------------------------------------------
(* Lemmas about the operators *)

(* newPID(), schedule(), wait() and wake_process() search the table for    *)
(* its first slot of some kind: it has one if it has any.                  *)
LEMMA MinExists ==
  ASSUME NEW S, S \subseteq Nat, S # {}
  PROVE  Min(S) \in S /\ \A y \in S : Min(S) =< y
BY FirstExists DEF Min

(* The same for a set of pids: what newPID and wake_process() choose.      *)
LEMMA MinPid ==
  ASSUME NEW S \in SUBSET Pids, S # {}
  PROVE  Min(S) \in S
<1> S \subseteq Nat
  BY ConstantsAssumption DEF Pids
<1> QED  BY MinExists

(* newPID() returns a slot that is free. *)
LEMMA NewPidFree ==
  ASSUME FreeSlots # {}
  PROVE  newPID \in Pids /\ state[newPID] = "READY"
<1> FreeSlots \in SUBSET Pids
  BY DEF FreeSlots
<1> newPID \in FreeSlots
  BY MinPid DEF newPID
<1> QED  BY DEF FreeSlots

(* schedule() stays in the table, and takes a RUNNING task or the caller.  *)
LEMMA NextTaskRunnable ==
  ASSUME NEW st, NEW p \in Pids
  PROVE  /\ NextTask(st, p) \in Pids
         /\ st[NextTask(st, p)] = "RUNNING" \/ NextTask(st, p) = p
         /\ \A q \in Pids : st[q] = "RUNNING" => st[NextTask(st, p)] = "RUNNING"
<1> DEFINE runnable == {q \in Pids \ {p} : st[q] = "RUNNING"}
           above    == {q \in runnable : q > p}
<1>1. CASE above # {}
  <2>1. Min(above) \in above
    <3> above \in SUBSET Pids  OBVIOUS
    <3> QED  BY <1>1, MinPid
  <2> QED  BY <1>1, <2>1 DEF NextTask
<1>2. CASE above = {} /\ runnable # {}
  <2>1. Min(runnable) \in runnable
    <3> runnable \in SUBSET Pids  OBVIOUS
    <3> QED  BY <1>2, MinPid
  <2> QED  BY <1>2, <2>1 DEF NextTask
<1>3. CASE runnable = {}
  <2>1. NextTask(st, p) = p
    BY <1>3 DEF NextTask
  <2> QED  BY <1>3, <2>1
<1> QED  BY <1>1, <1>2, <1>3

-----------------------------------------------------------------------------
(* The kernel threads, the CPU and the types *)

(* The assumption of the theorems: a user task kills only other tasks that *)
(* ps lists.  kill() itself checks nothing.                                *)
OnlyListedKilled == KillClasses \subseteq {"listed"}

(* What the kernel threads, ring 3 and the timer keep true of each other.  *)
(* TypeOK needs it: a tick is counted only while idle waits in hlt, and    *)
(* then the counter is below its limit.                                    *)
KernelInv ==
  /\ state[Idle1] = "RUNNING"
  /\ pc[Idle1] \in {"idle", "hlt", "woken", "tick"}
  /\ interrupted[Idle1] = "woken"
  /\ state[Init0] \in {"RUNNING", "WAIT"}
  /\ pc[Init0] = "wait"
  /\ \A p \in Pids : p > Idle1 => pc[p] \in {"user", "sysret", "waitpid", "intRead"}
  /\ \A p \in Pids : userIF[p] = FALSE
  /\ IF_flag => currentTask = Idle1 /\ pc[Idle1] \in {"hlt", "woken"}
  /\ IF pc[Idle1] = "tick" THEN timerCount = TicksPerSecond
                           ELSE timerCount < TicksPerSecond
  /\ OnCpuRunnable

(* What the helpers of exit(), kill(), intWrite() and sleep() return.      *)
LEMMA HelperTypes ==
  ASSUME TypeOK
  PROVE  /\ \A p \in Pids : Orphaned(p) \in [Pids -> Pids]
         /\ \A p \in Pids : Dead(p) \in [Pids -> States \ {"IDLE"}]
         /\ Awakened \in [Pids -> States \ {"IDLE"}]
         /\ \A n \in SleepArgs : AsInt(n) \in -IntLimit .. IntLimit - 1
         /\ \A p \in Pids : CountedDown(p) \in -IntLimit .. IntLimit - 1
<1>0. Init0 \in Pids
  BY ConstantsAssumption DEF Pids, Init0
<1>1. ASSUME NEW p \in Pids PROVE Orphaned(p) \in [Pids -> Pids]
  BY <1>0 DEF TypeOK, Orphaned
<1>2. ASSUME NEW p \in Pids PROVE Dead(p) \in [Pids -> States \ {"IDLE"}]
  BY <1>1 DEF TypeOK, Dead, States
<1>3. Awakened \in [Pids -> States \ {"IDLE"}]
  BY DEF TypeOK, Awakened, States
<1>4. ASSUME NEW n \in SleepArgs PROVE AsInt(n) \in -IntLimit .. IntLimit - 1
  BY ConstantsAssumption DEF AsInt
<1>5. ASSUME NEW p \in Pids PROVE CountedDown(p) \in -IntLimit .. IntLimit - 1
  BY ConstantsAssumption DEF TypeOK, CountedDown
<1> QED  BY <1>1, <1>2, <1>3, <1>4, <1>5

(* schedule() leaves a task on the CPU and a place for the caller.         *)
LEMMA ScheduleTypes ==
  ASSUME TypeOK, NEW STATE st, NEW t \in Pids, NEW place \in Places,
         Schedule(st, t, place)
  PROVE  currentTask' \in Pids /\ pc' \in [Pids -> Places] /\ IF_flag' \in BOOLEAN
<1>1. NextTask(st, t) \in Pids
  BY NextTaskRunnable
<1> QED  BY <1>1 DEF Schedule, TypeOK

(* Returning from an interrupt leads to a place again.                     *)
LEMMA AfterIretPlace == \A place \in Places : AfterIret(place) \in Places
BY DEF AfterIret, Places

(* The state createNewTask() leaves is well typed.                         *)
LEMMA InitTyped ==
  ASSUME Init
  PROVE  TypeOK
<1>1. /\ 0 \in Pids /\ Shell \in Pids
      /\ \A p \in Pids : p \in Nat
      /\ 0 \in -IntLimit .. IntLimit - 1
      /\ 0 \in 0 .. TicksPerSecond
      /\ 0 \in 0 .. MaxLines
  BY ConstantsAssumption DEF Pids, Shell
<1>2. state \in [Pids -> States \ {"IDLE"}] /\ ppid \in [Pids -> Pids]
  BY <1>1 DEF Init, States
<1>3. time \in [Pids -> -IntLimit .. IntLimit - 1] /\ space \in [Pids -> Spaces]
  BY <1>1 DEF Init, Spaces
<1>4. pc \in [Pids -> Places] /\ interrupted \in [Pids -> Places]
  BY <1>1 DEF Init, Places
<1> QED  BY <1>1, <1>2, <1>3, <1>4 DEF Init, TypeOK

(* Every system call, kernel step and interrupt keeps the types.           *)
LEMMA StepTyped ==
  ASSUME TypeOK, KernelInv, [Next]_vars
  PROVE  TypeOK'
<1> USE DEF TypeOK, States, Places, Spaces, table, cpu, devices
<1>1. CASE UNCHANGED vars
  BY <1>1 DEF vars
<1>2. CASE Next
  <2>1. PICK t \in Pids : UserCall(t) \/ KernelStep(t) \/ Interrupt(t)
    BY <1>2 DEF Next
  <2>2. CASE Fork(t)
    BY <2>2, NewPidFree DEF Fork, ReturnToUser
  <2>3. CASE ForkTableFull(t)
    BY <2>3 DEF ForkTableFull, ReturnToUser
  <2>4. CASE Exec(t)
    BY <2>4 DEF Exec, ExecFlag
  <2>5. CASE Exit(t)
    BY <2>5, HelperTypes, NextTaskRunnable DEF Exit, Schedule
  <2>6. CASE Read(t)
    <3>1. CASE TakeLine(t)
      BY <2>6, <3>1, ConstantsAssumption DEF Read, TakeLine, ReturnToUser
    <3>2. CASE AwaitLine(t)
      <4>1. Schedule([state EXCEPT ![t] = "SLEEP"], t, "intRead")
        BY <3>2 DEF AwaitLine, Schedule
      <4> QED  BY <2>6, <3>2, <4>1, ScheduleTypes DEF Read, AwaitLine
    <3>3. CASE MissLine(t)
      <4>1. Schedule(state, t, "intRead")
        BY <3>3 DEF MissLine
      <4> QED  BY <2>6, <3>3, <4>1, ScheduleTypes DEF Read, MissLine
    <3> QED  BY <2>6, <3>1, <3>2, <3>3 DEF Read
  <2>7. CASE \E p \in Pids : Kill(t, p)
    BY <2>7, HelperTypes DEF Kill, ReturnToUser
  <2>8. CASE \E p \in Pids : WaitpidReap(t, p)
    BY <2>8 DEF WaitpidReap, Reap, ReturnToUser
  <2>9. CASE \E p \in Pids : WaitpidBlock(t, p)
    <3>1. PICK p \in Pids : WaitpidBlock(t, p)
      BY <2>9
    <3>2. Schedule([state EXCEPT ![t] = "WAIT"], t, "waitpid")
      BY <3>1 DEF WaitpidBlock, Schedule
    <3> QED  BY <3>1, <3>2, ScheduleTypes DEF WaitpidBlock
  <2>10. CASE \E n \in SleepArgs : Sleep(t, n)
    <3>1. PICK n \in SleepArgs : Sleep(t, n)
      BY <2>10
    <3>2. Schedule([state EXCEPT ![t] = "HANG"], t, "sysret")
      BY <3>1 DEF Sleep, Schedule
    <3>3. AsInt(n) \in -IntLimit .. IntLimit - 1
      BY HelperTypes
    <3>4. time' \in [Pids -> -IntLimit .. IntLimit - 1]
      BY <3>1, <3>3 DEF Sleep
    <3> QED  BY <3>1, <3>2, <3>4, ScheduleTypes DEF Sleep
  <2>11. CASE WaitpidResume(t)
    <3>1. CASE target[t] \in ZombieChildren(t)
      <4>1. 0 \in Pids
        BY ConstantsAssumption DEF Pids
      <4> QED  BY <2>11, <3>1, <4>1 DEF WaitpidResume, Reap, ReturnToUser
    <3>2. CASE target[t] \notin ZombieChildren(t)
      <4>1. Schedule(state, t, "waitpid")
        BY <2>11, <3>2 DEF WaitpidResume
      <4> QED  BY <2>11, <3>2, <4>1, ScheduleTypes DEF WaitpidResume
    <3> QED  BY <3>1, <3>2
  <2>12. CASE SysReturn(t)
    BY <2>12 DEF SysReturn, ReturnToUser
  <2>13. CASE WaitReap(t)
    BY <2>13 DEF WaitReap, Reap
  <2>14. CASE WaitBlock(t)
    BY <2>14, NextTaskRunnable DEF WaitBlock, Schedule
  <2>15. CASE IdleHalt(t)
    BY <2>15 DEF IdleHalt
  <2>16. CASE IdleSchedule(t)
    BY <2>16, NextTaskRunnable DEF IdleSchedule, Schedule
  <2>17. CASE TimerResume(t)
    BY <2>17, HelperTypes, ConstantsAssumption DEF TimerResume, resetTimer, Due
  <2>18. CASE TimerTick(t)
    <3>1. timerCount' \in 0 .. TicksPerSecond
      BY <2>18, ConstantsAssumption DEF TimerTick, KernelInv
    <3>2. pc' \in [Pids -> Places]
      BY <2>18, AfterIretPlace DEF TimerTick
    <3> QED  BY <2>18, <3>1, <3>2 DEF TimerTick
  <2>19. CASE TimerSecond(t)
    <3>1. timerCount' \in 0 .. TicksPerSecond
      BY <2>19, ConstantsAssumption DEF TimerSecond
    <3>2. interrupted' \in [Pids -> Places]
      BY <2>19, AfterIretPlace DEF TimerSecond
    <3>3. Schedule(state, t, "tick")
      BY <2>19 DEF TimerSecond
    <3> QED  BY <2>19, <3>1, <3>2, <3>3, ScheduleTypes DEF TimerSecond
  <2>20. CASE KeyEnter(t)
    BY <2>20, HelperTypes, ConstantsAssumption DEF KeyEnter, AfterIret
  <2>21. CASE KeyOther(t)
    BY <2>21 DEF KeyOther, AfterIret
  <2> QED
    BY <2>1, <2>2, <2>3, <2>4, <2>5, <2>6, <2>7, <2>8, <2>9, <2>10, <2>11, <2>12, <2>13, <2>14, <2>15, <2>16, <2>17, <2>18, <2>19, <2>20, <2>21
       DEF UserCall, KernelStep, Interrupt, Timer
<1> QED  BY <1>1, <1>2

-----------------------------------------------------------------------------
(* The kernel threads and the CPU *)

(* Who runs in ring 3 and who is in which kernel loop.                     *)
LEMMA WhoIsWhere ==
  ASSUME TypeOK, KernelInv, NEW t \in Pids
  PROVE  /\ InUser(t) => t > Idle1
         /\ InKernel(t, "wait") => t = Init0
         /\ InKernel(t, "waitpid") \/ InKernel(t, "intRead") \/ InKernel(t, "sysret")
              => t > Idle1
         /\ InKernel(t, "idle") \/ InKernel(t, "woken") \/ InKernel(t, "tick")
              => t = Idle1
         /\ currentTask = t /\ IF_flag => t = Idle1
<1>1. t = Init0 \/ t = Idle1 \/ t > Idle1
  BY ConstantsAssumption DEF Pids, Init0, Idle1
<1> QED  BY <1>1 DEF KernelInv, InUser, InKernel, Init0, Idle1

(* exit() and kill() of a user task leave everybody else's state alone,    *)
(* but for a waiting parent.                                               *)
LEMMA DeadStates ==
  ASSUME TypeOK, NEW p \in Pids
  PROVE  /\ \A q \in Pids :
              q # p => \/ Dead(p)[q] = state[q]
                       \/ state[q] = "WAIT" /\ Dead(p)[q] = "RUNNING"
         /\ Dead(p)[p] = "ZOMBIE"
<1> DEFINE st     == [state EXCEPT ![p] = "ZOMBIE"]
           parent == Orphaned(p)[p]
<1>1. parent \in Pids
  BY HelperTypes
<1>a. state = [q \in Pids |-> state[q]]
  BY DEF TypeOK
<1>2. CASE st[parent] = "WAIT"
  <2>1. Dead(p) = [st EXCEPT ![parent] = "RUNNING"]
    BY <1>2 DEF Dead
  <2>2. parent # p /\ state[parent] = "WAIT"
    BY <1>a, <1>1, <1>2
  <2> QED  BY <1>a, <1>1, <2>1, <2>2
<1>3. CASE st[parent] # "WAIT"
  <2>1. Dead(p) = st
    BY <1>3 DEF Dead
  <2> QED  BY <1>a, <2>1
<1> QED  BY <1>2, <1>3

(* Enter wakes one sleeping reader and changes nobody else.                *)
LEMMA AwakenedStates ==
  ASSUME TypeOK, NEW p \in Pids
  PROVE  \/ Awakened[p] = state[p]
         \/ state[p] = "SLEEP" /\ Awakened[p] = "RUNNING"
<1> DEFINE sleepers == {q \in Pids : state[q] = "SLEEP"}
<1>1. CASE sleepers = {}
  BY <1>1 DEF Awakened
<1>2. CASE sleepers # {}
  <2>1. Min(sleepers) \in sleepers
    <3> sleepers \in SUBSET Pids  OBVIOUS
    <3> QED  BY <1>2, MinPid
  <2>2. Awakened = [state EXCEPT ![Min(sleepers)] = "RUNNING"]
    BY <1>2 DEF Awakened
  <2> QED  BY <2>1, <2>2 DEF TypeOK
<1> QED  BY <1>1, <1>2

(* Whom a user task may kill under the assumption.                         *)
LEMMA ListedTarget ==
  ASSUME OnlyListedKilled, NEW t, NEW p, KillClass(t, p) \in KillClasses
  PROVE  p # t /\ p # Init0 /\ p # Idle1 /\ stillAlive(p)
<1>1. KillClass(t, p) = "listed"
  BY DEF OnlyListedKilled
<1>2. CASE p = t
  BY <1>1, <1>2 DEF KillClass
<1>3. CASE p # t /\ p = Init0
  BY <1>1, <1>3 DEF KillClass
<1>4. CASE p # t /\ p # Init0 /\ p = Idle1
  BY <1>1, <1>4 DEF KillClass, Init0, Idle1
<1>5. CASE p \notin {t, Init0, Idle1} /\ ~stillAlive(p)
  BY <1>1, <1>5 DEF KillClass
<1> QED  BY <1>2, <1>3, <1>4, <1>5

(* Any task but idle may call schedule(): idle is there to be chosen.      *)
LEMMA GiveUpCpu ==
  ASSUME TypeOK, KernelInv, NEW t \in Pids, NEW place,
         \/ t > Idle1 /\ place \in {"user", "sysret", "waitpid", "intRead"}
         \/ t = Init0 /\ place = "wait",
         state'[Idle1] = "RUNNING", state'[Init0] \in {"RUNNING", "WAIT"},
         Schedule(state', t, place),
         UNCHANGED <<interrupted, userIF, timerCount>>
  PROVE  KernelInv'
<1>0. /\ Init0 \in Pids /\ Idle1 \in Pids
      /\ Init0 # Idle1 /\ ~(Init0 > Idle1) /\ ~(Idle1 > Idle1)
  BY ConstantsAssumption DEF Pids, Init0, Idle1
<1>1. state'[currentTask'] = "RUNNING"
  BY <1>0, NextTaskRunnable DEF Schedule
<1>2. /\ pc'[Idle1] = pc[Idle1]
      /\ pc'[Init0] = "wait"
      /\ \A p \in Pids : p > Idle1 => pc'[p] \in {"user", "sysret", "waitpid", "intRead"}
  <2>1. pc = [p \in Pids |-> pc[p]]
    BY DEF TypeOK
  <2>2. pc' = [pc EXCEPT ![t] = place]
    BY DEF Schedule
  <2> QED  BY <1>0, <2>1, <2>2 DEF KernelInv
<1>3. IF_flag' = FALSE
  BY DEF Schedule
<1> QED  BY <1>1, <1>2, <1>3 DEF KernelInv, OnCpuRunnable

(* A user task that is on the CPU goes on, in ring 3.                      *)
LEMMA GoOnInUser ==
  ASSUME TypeOK, KernelInv, NEW t \in Pids, t > Idle1, currentTask = t,
         state'[t] = "RUNNING",
         state'[Idle1] = "RUNNING", state'[Init0] \in {"RUNNING", "WAIT"},
         pc' = pc \/ pc' = [pc EXCEPT ![t] = "user"],
         ReturnToUser(t),
         UNCHANGED <<currentTask, interrupted, userIF, timerCount>>
  PROVE  KernelInv'
<1>0. /\ Init0 \in Pids /\ Idle1 \in Pids
      /\ Init0 # Idle1 /\ ~(Init0 > Idle1) /\ ~(Idle1 > Idle1)
  BY ConstantsAssumption DEF Pids, Init0, Idle1
<1>1. /\ pc'[Idle1] = pc[Idle1]
      /\ pc'[Init0] = "wait"
      /\ \A p \in Pids : p > Idle1 => pc'[p] \in {"user", "sysret", "waitpid", "intRead"}
  <2>1. pc = [p \in Pids |-> pc[p]]
    BY DEF TypeOK
  <2> QED  BY <1>0, <2>1 DEF KernelInv
<1>2. IF_flag' = FALSE
  BY DEF ReturnToUser, KernelInv
<1> QED  BY <1>1, <1>2 DEF KernelInv, OnCpuRunnable

(* createNewTask() leaves idle at the top of its loop, init in wait() and  *)
(* interrupts off.                                                         *)
LEMMA InitKernel ==
  ASSUME Init
  PROVE  KernelInv
BY ConstantsAssumption
   DEF Init, KernelInv, OnCpuRunnable, Pids, Init0, Idle1, Shell

(* No call, kernel step or interrupt disturbs idle, init, the flags or the *)
(* tick counter, if only listed tasks are killed.                          *)
LEMMA StepKernel ==
  ASSUME OnlyListedKilled, TypeOK, KernelInv, [Next]_vars
  PROVE  KernelInv'
<1> USE DEF KernelInv, OnCpuRunnable, table, cpu, devices
<1>0. /\ Init0 \in Pids /\ Idle1 \in Pids
      /\ Init0 # Idle1 /\ ~(Init0 > Idle1) /\ ~(Idle1 > Idle1)
  BY ConstantsAssumption DEF Pids, Init0, Idle1
<1>1. CASE UNCHANGED vars
  BY <1>1 DEF vars
<1>2. CASE Next
  <2>1. PICK t \in Pids : UserCall(t) \/ KernelStep(t) \/ Interrupt(t)
    BY <1>2 DEF Next
  <2>2. CASE Fork(t)
    BY <1>0, <2>2, WhoIsWhere, NewPidFree DEF TypeOK, Fork, ReturnToUser, InUser
  <2>3. CASE ForkTableFull(t)
    BY <1>0, <2>3, WhoIsWhere DEF TypeOK, ForkTableFull, ReturnToUser
  <2>4. CASE Exec(t)
    BY <1>0, <2>4, WhoIsWhere DEF TypeOK, Exec, ExecFlag
  <2>5. CASE Exit(t)
    <3>1. t > Idle1
      BY <2>5, WhoIsWhere DEF Exit
    <3>2. state'[Idle1] = "RUNNING" /\ state'[Init0] \in {"RUNNING", "WAIT"}
      BY <1>0, <2>5, <3>1, DeadStates DEF Exit
    <3> QED  BY <2>5, <3>1, <3>2, GiveUpCpu DEF Exit
  <2>6. CASE Read(t)
    <3>1. t > Idle1 /\ currentTask = t /\ state[t] = "RUNNING"
      BY <2>6, WhoIsWhere DEF Read, InUser, InKernel
    <3>2. state'[Idle1] = "RUNNING" /\ state'[Init0] \in {"RUNNING", "WAIT"}
      BY <1>0, <2>6, <3>1 DEF Read, TakeLine, AwaitLine, MissLine, TypeOK
    <3>3. CASE TakeLine(t)
      BY <2>6, <3>1, <3>2, <3>3, GoOnInUser DEF Read, TakeLine, TypeOK
    <3>4. CASE AwaitLine(t)
      BY <2>6, <3>1, <3>2, <3>4, GiveUpCpu DEF Read, AwaitLine
    <3>5. CASE MissLine(t)
      <4>1. Schedule(state', t, "intRead")
        BY <3>5 DEF MissLine, Schedule
      <4> QED  BY <2>6, <3>1, <3>2, <4>1, GiveUpCpu DEF Read
    <3> QED  BY <2>6, <3>3, <3>4, <3>5 DEF Read
  <2>7. CASE \E p \in Pids : Kill(t, p)
    <3>1. PICK p \in Pids : Kill(t, p)
      BY <2>7
    <3>2. p # t /\ p # Init0 /\ p # Idle1
      BY <3>1, ListedTarget DEF Kill
    <3>3. t > Idle1 /\ currentTask = t /\ state[t] = "RUNNING"
      BY <3>1, WhoIsWhere DEF Kill, InUser
    <3>4. /\ state'[Idle1] = "RUNNING" /\ state'[Init0] \in {"RUNNING", "WAIT"}
          /\ state'[t] = "RUNNING"
      BY <1>0, <3>1, <3>2, <3>3, DeadStates DEF Kill
    <3> QED  BY <3>1, <3>3, <3>4, GoOnInUser DEF Kill
  <2>8. CASE \E p \in Pids : WaitpidReap(t, p)
    <3>1. PICK p \in Pids : WaitpidReap(t, p)
      BY <2>8
    <3>2. t > Idle1 /\ currentTask = t /\ state[t] = "RUNNING"
      BY <3>1, WhoIsWhere DEF WaitpidReap, InUser
    <3>3. /\ state'[Idle1] = "RUNNING" /\ state'[Init0] \in {"RUNNING", "WAIT"}
          /\ state'[t] = "RUNNING"
      BY <1>0, <3>1, <3>2 DEF WaitpidReap, Reap, ZombieChildren, TypeOK
    <3> QED  BY <3>1, <3>2, <3>3, GoOnInUser DEF WaitpidReap
  <2>9. CASE \E p \in Pids : WaitpidBlock(t, p)
    <3>1. PICK p \in Pids : WaitpidBlock(t, p)
      BY <2>9
    <3>2. t > Idle1
      BY <3>1, WhoIsWhere DEF WaitpidBlock
    <3>3. state'[Idle1] = "RUNNING" /\ state'[Init0] \in {"RUNNING", "WAIT"}
      BY <1>0, <3>1, <3>2 DEF WaitpidBlock, TypeOK
    <3> QED  BY <3>1, <3>2, <3>3, GiveUpCpu DEF WaitpidBlock
  <2>10. CASE \E n \in SleepArgs : Sleep(t, n)
    <3>1. PICK n \in SleepArgs : Sleep(t, n)
      BY <2>10
    <3>2. t > Idle1
      BY <3>1, WhoIsWhere DEF Sleep
    <3>3. state'[Idle1] = "RUNNING" /\ state'[Init0] \in {"RUNNING", "WAIT"}
      BY <1>0, <3>1, <3>2 DEF Sleep, TypeOK
    <3> QED  BY <3>1, <3>2, <3>3, GiveUpCpu DEF Sleep
  <2>11. CASE WaitpidResume(t)
    <3>1. t > Idle1 /\ currentTask = t /\ state[t] = "RUNNING"
      BY <2>11, WhoIsWhere DEF WaitpidResume, InKernel
    <3>2. CASE target[t] \in ZombieChildren(t)
      <4>1. /\ state'[Idle1] = "RUNNING" /\ state'[Init0] \in {"RUNNING", "WAIT"}
            /\ state'[t] = "RUNNING"
        BY <1>0, <2>11, <3>1, <3>2 DEF WaitpidResume, Reap, ZombieChildren, TypeOK
      <4> QED  BY <2>11, <3>1, <3>2, <4>1, GoOnInUser DEF WaitpidResume
    <3>3. CASE target[t] \notin ZombieChildren(t)
      <4>1. Schedule(state', t, "waitpid")
        BY <2>11, <3>3 DEF WaitpidResume, Schedule
      <4>2. state'[Idle1] = "RUNNING" /\ state'[Init0] \in {"RUNNING", "WAIT"}
        BY <2>11, <3>3 DEF WaitpidResume
      <4> QED  BY <2>11, <3>1, <3>3, <4>1, <4>2, GiveUpCpu DEF WaitpidResume
    <3> QED  BY <3>2, <3>3
  <2>12. CASE SysReturn(t)
    <3>1. t > Idle1 /\ currentTask = t /\ state[t] = "RUNNING"
      BY <2>12, WhoIsWhere DEF SysReturn, InKernel
    <3> QED  BY <2>12, <3>1, GoOnInUser DEF SysReturn
  <2>13. CASE WaitReap(t)
    <3>1. PICK z \in ZombieChildren(t) : Reap(z)
      <4>1. ZombieChildren(t) \in SUBSET Pids
        BY DEF ZombieChildren
      <4>2. Min(ZombieChildren(t)) \in ZombieChildren(t)
        BY <2>13, <4>1, MinPid DEF WaitReap
      <4> QED  BY <2>13, <4>2 DEF WaitReap
    <3>2. \A p \in Pids : state[p] # "ZOMBIE" => state'[p] = state[p]
      BY <3>1 DEF Reap, ZombieChildren, TypeOK
    <3>3. currentTask \in Pids
      BY DEF TypeOK
    <3> QED  BY <1>0, <2>13, <3>2, <3>3 DEF WaitReap
  <2>14. CASE WaitBlock(t)
    <3>1. t = Init0
      BY <2>14, WhoIsWhere DEF WaitBlock
    <3>2. state'[Idle1] = "RUNNING" /\ state'[Init0] \in {"RUNNING", "WAIT"}
      BY <1>0, <2>14, <3>1 DEF WaitBlock, TypeOK
    <3> QED  BY <2>14, <3>1, <3>2, GiveUpCpu DEF WaitBlock
  <2>15. CASE IdleHalt(t)
    <3>1. t = Idle1 /\ currentTask = t
      BY <2>15, WhoIsWhere DEF IdleHalt, InKernel
    <3>2. pc' = [pc EXCEPT ![Idle1] = "hlt"] /\ pc[Idle1] = "idle"
      BY <2>15, <3>1 DEF IdleHalt, InKernel
    <3>3. pc'[Idle1] = "hlt" /\ \A p \in Pids : p # Idle1 => pc'[p] = pc[p]
      BY <1>0, <3>2 DEF TypeOK
    <3> QED  BY <1>0, <2>15, <3>1, <3>2, <3>3 DEF IdleHalt
  <2>16. CASE IdleSchedule(t)
    <3>1. t = Idle1 /\ pc[t] = "woken"
      BY <2>16, WhoIsWhere DEF IdleSchedule, InKernel
    <3>2. pc' = [pc EXCEPT ![Idle1] = "idle"]
      BY <2>16, <3>1 DEF IdleSchedule, Schedule
    <3>3. pc'[Idle1] = "idle" /\ \A p \in Pids : p # Idle1 => pc'[p] = pc[p]
      BY <1>0, <3>2 DEF TypeOK
    <3>4. state[currentTask'] = "RUNNING"
      BY <1>0, <2>16, NextTaskRunnable DEF IdleSchedule, Schedule
    <3> QED  BY <1>0, <2>16, <3>1, <3>3, <3>4 DEF IdleSchedule, Schedule
  <2>17. CASE TimerResume(t)
    <3>1. t = Idle1 /\ currentTask = t
      BY <2>17, WhoIsWhere DEF TimerResume, InKernel
    <3>2. pc' = [pc EXCEPT ![Idle1] = "woken"]
      BY <2>17, <3>1 DEF TimerResume
    <3>3. pc'[Idle1] = "woken" /\ \A p \in Pids : p # Idle1 => pc'[p] = pc[p]
      BY <1>0, <3>2 DEF TypeOK
    <3>4. timerCount' < TicksPerSecond
      BY <2>17, ConstantsAssumption DEF TimerResume, resetTimer
    <3>5. \A p \in Pids : state[p] \in {"RUNNING", "WAIT"} => state'[p] = state[p]
      BY <2>17 DEF TimerResume, Due
    <3> QED  BY <1>0, <2>17, <3>1, <3>3, <3>4, <3>5 DEF TimerResume
  <2>18. CASE TimerTick(t)
    <3>1. t = Idle1 /\ pc[t] \in {"hlt", "woken"}
      BY <2>18 DEF TimerTick
    <3>2. pc' = [pc EXCEPT ![Idle1] = "woken"]
      BY <2>18, <3>1 DEF TimerTick, AfterIret
    <3>3. pc'[Idle1] = "woken" /\ \A p \in Pids : p # Idle1 => pc'[p] = pc[p]
      BY <1>0, <3>2 DEF TypeOK
    <3>4. timerCount' < TicksPerSecond
      BY <2>18, <3>1, ConstantsAssumption DEF TimerTick, TypeOK
    <3> QED  BY <1>0, <2>18, <3>1, <3>3, <3>4 DEF TimerTick
  <2>19. CASE TimerSecond(t)
    <3>1. t = Idle1 /\ pc[t] \in {"hlt", "woken"}
      BY <2>19 DEF TimerSecond
    <3>2. pc' = [pc EXCEPT ![Idle1] = "tick"]
      BY <2>19, <3>1 DEF TimerSecond, Schedule
    <3>3. pc'[Idle1] = "tick" /\ \A p \in Pids : p # Idle1 => pc'[p] = pc[p]
      BY <1>0, <3>2 DEF TypeOK
    <3>4. interrupted'[Idle1] = "woken"
      BY <1>0, <2>19, <3>1 DEF TimerSecond, AfterIret, TypeOK
    <3>5. state[currentTask'] = "RUNNING"
      BY <1>0, <2>19, NextTaskRunnable DEF TimerSecond, Schedule
    <3> QED  BY <1>0, <2>19, <3>1, <3>3, <3>4, <3>5 DEF TimerSecond, Schedule
  <2>20. CASE KeyEnter(t)
    <3>1. t = Idle1 /\ pc[t] \in {"hlt", "woken"}
      BY <2>20 DEF KeyEnter
    <3>2. pc' = [pc EXCEPT ![Idle1] = "woken"]
      BY <2>20, <3>1 DEF KeyEnter, AfterIret
    <3>3. pc'[Idle1] = "woken" /\ \A p \in Pids : p # Idle1 => pc'[p] = pc[p]
      BY <1>0, <3>2 DEF TypeOK
    <3>4. \A p \in Pids : state[p] \in {"RUNNING", "WAIT"} => state'[p] = state[p]
      BY <2>20, AwakenedStates DEF KeyEnter
    <3> QED  BY <1>0, <2>20, <3>1, <3>3, <3>4 DEF KeyEnter
  <2>21. CASE KeyOther(t)
    <3>1. t = Idle1 /\ pc[t] \in {"hlt", "woken"}
      BY <2>21 DEF KeyOther
    <3>2. pc' = [pc EXCEPT ![Idle1] = "woken"]
      BY <2>21, <3>1 DEF KeyOther, AfterIret
    <3>3. pc'[Idle1] = "woken" /\ \A p \in Pids : p # Idle1 => pc'[p] = pc[p]
      BY <1>0, <3>2 DEF TypeOK
    <3> QED  BY <1>0, <2>21, <3>1, <3>3 DEF KeyOther
  <2> QED
    BY <2>1, <2>2, <2>3, <2>4, <2>5, <2>6, <2>7, <2>8, <2>9, <2>10, <2>11,
       <2>12, <2>13, <2>14, <2>15, <2>16, <2>17, <2>18, <2>19, <2>20, <2>21
       DEF UserCall, KernelStep, Interrupt, Timer
<1> QED  BY <1>1, <1>2

(* Every field of the task table and of the devices keeps its type.        *)
THEOREM TypeCorrect == OnlyListedKilled => (Spec => []TypeOK)
<1> SUFFICES ASSUME OnlyListedKilled PROVE Spec => []TypeOK
  OBVIOUS
<1>1. Init => TypeOK /\ KernelInv
  BY InitTyped, InitKernel
<1>2. (TypeOK /\ KernelInv) /\ [Next]_vars => (TypeOK /\ KernelInv)'
  BY StepTyped, StepKernel
<1> QED  BY <1>1, <1>2, PTL DEF Spec

(* The kernel invariant holds of the whole system.                         *)
LEMMA KernelCorrect == OnlyListedKilled => (Spec => []KernelInv)
<1> SUFFICES ASSUME OnlyListedKilled PROVE Spec => []KernelInv
  OBVIOUS
<1>1. Init => TypeOK /\ KernelInv
  BY InitTyped, InitKernel
<1>2. (TypeOK /\ KernelInv) /\ [Next]_vars => (TypeOK /\ KernelInv)'
  BY StepTyped, StepKernel
<1> QED  BY <1>1, <1>2, PTL DEF Spec

(* schedule() never leaves a blocked or dead task on the CPU.              *)
THEOREM CpuRunsRunnable == OnlyListedKilled => (Spec => []OnCpuRunnable)
<1>1. KernelInv => OnCpuRunnable
  BY DEF KernelInv
<1> QED  BY <1>1, KernelCorrect, PTL

(* Multi-tasking is cooperative: no task but idle is ever interrupted.     *)
THEOREM Cooperative == OnlyListedKilled => (Spec => []InterruptsOnlyIdle)
<1>1. KernelInv => InterruptsOnlyIdle
  BY DEF KernelInv, InterruptsOnlyIdle
<1> QED  BY <1>1, KernelCorrect, PTL

(* The tick counter never passes the value that intTimer() tests for.      *)
THEOREM ClockInStep == OnlyListedKilled => (Spec => []TimerInStep)
<1>1. KernelInv => TimerInStep
  BY DEF KernelInv, TimerInStep
<1> QED  BY <1>1, KernelCorrect, PTL

-----------------------------------------------------------------------------
(* The family tree *)

(* Steps that neither begin nor end a process.                             *)
LEMMA NobodyBornOrDead ==
  ASSUME TypeOK, ParentLives, UNCHANGED ppid,
         \A p \in Pids : state'[p] = "READY" <=> state[p] = "READY",
         \A p \in Pids : state'[p] = "ZOMBIE" => state[p] = "ZOMBIE"
  PROVE  ParentLives'
BY DEF ParentLives, TypeOK

(* A zombie that is removed has no children left.                          *)
LEMMA ReapKeepsParents ==
  ASSUME TypeOK, ParentLives, UNCHANGED ppid,
         NEW z \in Pids, state[z] = "ZOMBIE", Reap(z)
  PROVE  ParentLives'
<1>1. \A p \in Pids : IF p = z THEN state'[p] = "READY" ELSE state'[p] = state[p]
  BY DEF Reap, TypeOK
<1> QED  BY <1>1 DEF ParentLives, TypeOK

(* exit() and kill() leave the children of the dead process to init.       *)
LEMMA DeathKeepsParents ==
  ASSUME TypeOK, KernelInv, ParentLives, NEW p \in Pids, p # Init0,
         state[p] # "READY",
         state' = Dead(p), ppid' = Orphaned(p)
  PROVE  ParentLives'
<1>0. Init0 \in Pids
  BY ConstantsAssumption DEF Pids, Init0
<1>1. /\ state'[p] = "ZOMBIE"
      /\ \A q \in Pids : q # p => \/ state'[q] = state[q]
                                  \/ state[q] = "WAIT" /\ state'[q] = "RUNNING"
  BY DeadStates
<1>2. state'[Init0] \notin {"READY", "ZOMBIE"}
  BY <1>0, <1>1 DEF KernelInv
<1>3. \A q \in Pids : ppid'[q] = IF ppid[q] = p THEN Init0 ELSE ppid[q]
  BY DEF Orphaned
<1>4. \A q \in Pids : state'[q] # "READY" => state[q] # "READY"
  BY <1>1
<1>5. \A q \in Pids : ppid[q] \in Pids
  BY DEF TypeOK
<1> QED  BY <1>1, <1>2, <1>3, <1>4, <1>5 DEF ParentLives

(* fork() makes the running task the parent, and takes a slot that is      *)
(* nobody's parent.                                                        *)
LEMMA ForkKeepsParents ==
  ASSUME TypeOK, KernelInv, ParentLives, NEW t \in Pids, Fork(t)
  PROVE  ParentLives'
<1> DEFINE c == newPID
<1>1. c \in Pids /\ state[c] = "READY"
  BY NewPidFree DEF Fork
<1>2. /\ state' = [state EXCEPT ![c] = "RUNNING"]
      /\ ppid' = [ppid EXCEPT ![c] = t]
  BY DEF Fork
<1>3. state[t] = "RUNNING"
  BY DEF Fork, InUser, KernelInv, OnCpuRunnable
<1> HIDE DEF c
<1>4. /\ state'[c] = "RUNNING" /\ ppid'[c] = t
      /\ \A p \in Pids : p # c => state'[p] = state[p] /\ ppid'[p] = ppid[p]
  BY <1>1, <1>2 DEF TypeOK
<1>5. \A p \in Pids : ppid[p] \in Pids
  BY DEF TypeOK
<1> QED  BY <1>1, <1>3, <1>4, <1>5 DEF ParentLives

(* All first parents are init, which lives.                                *)
LEMMA InitParents ==
  ASSUME Init
  PROVE  ParentLives
BY ConstantsAssumption DEF Init, ParentLives, Pids, Shell, Idle1

(* No step leaves a process with a dead parent.                            *)
LEMMA StepParents ==
  ASSUME OnlyListedKilled, TypeOK, KernelInv, ParentLives, [Next]_vars
  PROVE  ParentLives'
<1> USE DEF table, cpu, devices
<1>1. CASE UNCHANGED vars
  BY <1>1 DEF vars, ParentLives
<1>2. CASE Next
  <2>1. PICK t \in Pids : UserCall(t) \/ KernelStep(t) \/ Interrupt(t)
    BY <1>2 DEF Next
  <2>2. currentTask = t => state[t] = "RUNNING"
    BY DEF KernelInv, OnCpuRunnable
  <2>3. CASE Fork(t)
    BY <2>3, ForkKeepsParents
  <2>4. CASE Exit(t)
    BY <2>2, <2>4, WhoIsWhere, DeathKeepsParents DEF Exit, InUser, Init0, Idle1
  <2>5. CASE \E p \in Pids : Kill(t, p)
    <3>1. PICK p \in Pids : Kill(t, p)
      BY <2>5
    <3>2. p # Init0 /\ state[p] # "READY"
      BY <3>1, ListedTarget DEF Kill, stillAlive
    <3> QED  BY <3>1, <3>2, DeathKeepsParents DEF Kill
  <2>6. CASE \E p \in Pids : WaitpidReap(t, p)
    BY <2>6, ReapKeepsParents DEF WaitpidReap, ZombieChildren
  <2>7. CASE WaitpidResume(t)
    <3>1. CASE target[t] \in ZombieChildren(t)
      BY <2>7, <3>1, ReapKeepsParents DEF WaitpidResume, ZombieChildren
    <3>2. CASE target[t] \notin ZombieChildren(t)
      BY <2>7, <3>2 DEF WaitpidResume, ParentLives
    <3> QED  BY <3>1, <3>2
  <2>8. CASE WaitReap(t)
    <3>1. ZombieChildren(t) \in SUBSET Pids
      BY DEF ZombieChildren
    <3>2. Min(ZombieChildren(t)) \in ZombieChildren(t)
      BY <2>8, <3>1, MinPid DEF WaitReap
    <3> QED  BY <2>8, <3>2, ReapKeepsParents DEF WaitReap, ZombieChildren
  <2>9. CASE KeyEnter(t)
    <3>1. \A p \in Pids : \/ state'[p] = state[p]
                          \/ state[p] = "SLEEP" /\ state'[p] = "RUNNING"
      BY <2>9, AwakenedStates DEF KeyEnter
    <3> QED  BY <2>9, <3>1, NobodyBornOrDead DEF KeyEnter
  <2>10. CASE TimerResume(t)
    <3>1. \A p \in Pids : \/ state'[p] = state[p]
                          \/ state[p] = "HANG" /\ state'[p] = "RUNNING"
      BY <2>10 DEF TimerResume, Due
    <3> QED  BY <2>10, <3>1, NobodyBornOrDead DEF TimerResume
  <2>11. CASE WaitBlock(t)
    BY <2>2, <2>11, NobodyBornOrDead DEF WaitBlock, InKernel, TypeOK
  <2>12. CASE \E p \in Pids : WaitpidBlock(t, p)
    BY <2>2, <2>12, NobodyBornOrDead DEF WaitpidBlock, InUser, TypeOK
  <2>13. CASE \E n \in SleepArgs : Sleep(t, n)
    BY <2>2, <2>13, NobodyBornOrDead DEF Sleep, InUser, TypeOK
  <2>14. CASE Read(t)
    <3>1. state[t] = "RUNNING" /\ UNCHANGED ppid
      BY <2>2, <2>14 DEF Read, InUser, InKernel
    <3>2. \/ state' = state
          \/ state' = [state EXCEPT ![t] = "RUNNING"]
          \/ state' = [state EXCEPT ![t] = "SLEEP"]
      BY <2>14 DEF Read, TakeLine, AwaitLine, MissLine
    <3> QED  BY <3>1, <3>2, NobodyBornOrDead DEF TypeOK
  <2>15. CASE ForkTableFull(t) \/ Exec(t) \/ SysReturn(t) \/ IdleHalt(t)
              \/ IdleSchedule(t) \/ TimerTick(t) \/ TimerSecond(t) \/ KeyOther(t)
    <3>1. UNCHANGED <<state, ppid>>
      BY <2>15 DEF ForkTableFull, Exec, SysReturn, IdleHalt, IdleSchedule,
                   TimerTick, TimerSecond, KeyOther
    <3> QED  BY <3>1 DEF ParentLives
  <2> QED
    BY <2>1, <2>3, <2>4, <2>5, <2>6, <2>7, <2>8, <2>9, <2>10, <2>11, <2>12,
       <2>13, <2>14, <2>15
       DEF UserCall, KernelStep, Interrupt, Timer
<1> QED  BY <1>1, <1>2

(* Every process has a parent that is alive, whoever exits or is killed.   *)
THEOREM ParentAlwaysLives == OnlyListedKilled => (Spec => []ParentLives)
<1> SUFFICES ASSUME OnlyListedKilled PROVE Spec => []ParentLives
  OBVIOUS
<1>1. Init => TypeOK /\ KernelInv /\ ParentLives
  BY InitTyped, InitKernel, InitParents
<1>2. /\ TypeOK /\ KernelInv /\ ParentLives
      /\ [Next]_vars
      => (TypeOK /\ KernelInv /\ ParentLives)'
  BY StepTyped, StepKernel, StepParents
<1> QED  BY <1>1, <1>2, PTL DEF Spec

-----------------------------------------------------------------------------
(* The life of a task *)

(* Blocked tasks are where they can be woken, waiters have a living child  *)
(* or are awake, and a slot in use has the address space of its owner.     *)
TaskInv ==
  /\ SpaceOwned
  /\ WaitTargetStaysChild
  /\ NoLostChildExit
  /\ BlockedWhereItWaits

(* Steps that leave the family tree alone, wake at most tasks that sleep   *)
(* in sleep() or read(), and move only the task on the CPU.                *)
LEMMA CalmStep ==
  ASSUME TypeOK, TaskInv, UNCHANGED <<ppid, target, space>>,
         \A p \in Pids : \/ state'[p] = state[p]
                         \/ state[p] \in {"SLEEP", "HANG"} /\ state'[p] = "RUNNING",
         \A p \in Pids : \/ pc'[p] = pc[p]
                         \/ state[p] = "RUNNING" /\ pc'[p] # "waitpid"
  PROVE  TaskInv'
<1> USE DEF TaskInv
<1>1. SpaceOwned'
  BY DEF SpaceOwned, stillAlive
<1>2. BlockedWhereItWaits'
  BY DEF BlockedWhereItWaits
<1>3. \A t \in Pids : target[t] \in Pids
  BY DEF TypeOK
<1>4. WaitTargetStaysChild'
  BY <1>3 DEF WaitTargetStaysChild, BlockedWhereItWaits
<1>5. NoLostChildExit'
  BY <1>3 DEF NoLostChildExit, ZombieChildren
<1> QED  BY <1>1, <1>2, <1>4, <1>5

(* The task on the CPU blocks, or goes on, in a call other than waitpid(). *)
LEMMA BlockStep ==
  ASSUME TypeOK, TaskInv, UNCHANGED <<ppid, target, space>>,
         NEW t \in Pids, state[t] = "RUNNING",
         NEW s \in {"RUNNING", "WAIT", "SLEEP", "HANG"}, NEW at,
         \/ s = "RUNNING"
         \/ s = "WAIT" /\ at = "wait"
         \/ s = "SLEEP" /\ at = "intRead"
         \/ s = "HANG" /\ at = "sysret",
         at # "waitpid",
         state' = [state EXCEPT ![t] = s], pc' = [pc EXCEPT ![t] = at]
  PROVE  TaskInv'
<1> USE DEF TaskInv
<1>1. /\ state'[t] = s /\ pc'[t] = at
      /\ \A p \in Pids : p # t => state'[p] = state[p] /\ pc'[p] = pc[p]
      /\ \A p \in Pids : target[p] \in Pids
  BY DEF TypeOK
<1>2. SpaceOwned'
  BY <1>1 DEF SpaceOwned, stillAlive
<1>3. BlockedWhereItWaits'
  BY <1>1 DEF BlockedWhereItWaits
<1>4. WaitTargetStaysChild'
  BY <1>1 DEF WaitTargetStaysChild
<1>5. NoLostChildExit'
  BY <1>1 DEF NoLostChildExit, ZombieChildren
<1> QED  BY <1>2, <1>3, <1>4, <1>5

(* waitpid() of a child that lives. *)
LEMMA WaitStep ==
  ASSUME TypeOK, TaskInv, NEW t \in Pids, NEW c \in Pids, state[t] = "RUNNING",
         WaitpidBlock(t, c)
  PROVE  TaskInv'
<1> USE DEF TaskInv
<1>1. /\ state'[t] = "WAIT" /\ pc'[t] = "waitpid" /\ target'[t] = c
      /\ \A p \in Pids : p # t => /\ state'[p] = state[p] /\ pc'[p] = pc[p]
                                  /\ target'[p] = target[p]
      /\ UNCHANGED <<ppid, space>>
      /\ ppid[c] = t /\ stillAlive(c)
      /\ \A p \in Pids : target[p] \in Pids
  BY DEF WaitpidBlock, Schedule, TypeOK
<1>2. SpaceOwned'
  BY <1>1 DEF SpaceOwned, stillAlive
<1>3. BlockedWhereItWaits'
  BY <1>1 DEF BlockedWhereItWaits
<1>4. WaitTargetStaysChild'
  BY <1>1 DEF WaitTargetStaysChild, stillAlive
<1>5. NoLostChildExit'
  BY <1>1 DEF NoLostChildExit, ZombieChildren, stillAlive
<1> QED  BY <1>2, <1>3, <1>4, <1>5

(* A zombie is removed by its parent, who does not stay in waitpid().      *)
LEMMA ReapStep ==
  ASSUME TypeOK, KernelInv, TaskInv, UNCHANGED ppid,
         NEW t \in Pids, state[t] = "RUNNING",
         NEW z \in Pids, z \in ZombieChildren(t), Reap(z),
         pc'[t] # "waitpid",
         \A p \in Pids : p # t => pc'[p] = pc[p] /\ target'[p] = target[p]
  PROVE  TaskInv'
<1> USE DEF TaskInv
<1>1. /\ state'[z] = "READY" /\ space'[z] = "freed"
      /\ \A p \in Pids : p # z => state'[p] = state[p] /\ space'[p] = space[p]
      /\ \A p \in Pids : target[p] \in Pids
      /\ ppid[z] = t /\ z # t
  BY DEF Reap, TypeOK, ZombieChildren
<1>2. SpaceOwned'
  BY <1>1 DEF SpaceOwned, stillAlive
<1>3. BlockedWhereItWaits'
  BY <1>1 DEF BlockedWhereItWaits
<1>4. WaitTargetStaysChild'
  BY <1>1 DEF WaitTargetStaysChild
<1>5. NoLostChildExit'
  BY <1>1 DEF NoLostChildExit, ZombieChildren
<1> QED  BY <1>2, <1>3, <1>4, <1>5

(* The end of a process: whoever waits for it in waitpid() is woken.       *)
LEMMA DeathStep ==
  ASSUME TypeOK, KernelInv, TaskInv, UNCHANGED <<target, space>>,
         NEW p \in Pids, p > Idle1, stillAlive(p),
         state' = Dead(p), ppid' = Orphaned(p),
         \A q \in Pids : q # p => pc'[q] = pc[q]
  PROVE  TaskInv'
<1> USE DEF TaskInv
<1>0. /\ Init0 \in Pids /\ p # Init0 /\ p # Idle1 /\ ~(p < Shell)
      /\ pc[Init0] # "waitpid"
  BY ConstantsAssumption DEF Pids, Init0, Idle1, Shell, KernelInv
<1>1. /\ state'[p] = "ZOMBIE"
      /\ \A q \in Pids : q # p => \/ state'[q] = state[q]
                                  \/ state[q] = "WAIT" /\ state'[q] = "RUNNING"
  BY DeadStates
<1>2. /\ \A q \in Pids : ppid'[q] = IF ppid[q] = p THEN Init0 ELSE ppid[q]
      /\ \A q \in Pids : target[q] \in Pids /\ ppid[q] \in Pids
  BY DEF Orphaned, TypeOK
<1>3. ppid'[p] # p => state'[ppid'[p]] # "WAIT"
  <2> DEFINE st == [state EXCEPT ![p] = "ZOMBIE"]
             parent == Orphaned(p)[p]
  <2>1. parent \in Pids /\ ppid'[p] = parent
    BY HelperTypes
  <2>2. CASE st[parent] = "WAIT"
    <3>1. Dead(p) = [st EXCEPT ![parent] = "RUNNING"]
      BY <2>2 DEF Dead
    <3> QED  BY <2>1, <3>1 DEF TypeOK
  <2>3. CASE st[parent] # "WAIT"
    <3>1. Dead(p) = st
      BY <2>3 DEF Dead
    <3> QED  BY <2>1, <2>3, <3>1
  <2> QED  BY <2>2, <2>3
<1>4. SpaceOwned'
  BY <1>0, <1>1 DEF SpaceOwned, stillAlive
<1>5. BlockedWhereItWaits'
  BY <1>1 DEF BlockedWhereItWaits
<1>6. WaitTargetStaysChild'
  BY <1>1, <1>2 DEF WaitTargetStaysChild
<1>7. NoLostChildExit'
  <2> SUFFICES ASSUME NEW t \in Pids, pc'[t] = "waitpid", state'[t] = "WAIT"
               PROVE  target[t] \notin ZombieChildren(t)'
    BY DEF NoLostChildExit
  <2>1. t # p /\ state[t] = "WAIT" /\ pc[t] = "waitpid" /\ t # Init0
    BY <1>0, <1>1
  <2>2. target[t] \notin ZombieChildren(t)
    BY <2>1 DEF NoLostChildExit
  <2>3. CASE target[t] = p
    BY <1>2, <1>3, <2>1, <2>3 DEF ZombieChildren
  <2>4. CASE target[t] # p
    BY <1>1, <1>2, <2>1, <2>2, <2>4 DEF ZombieChildren
  <2> QED  BY <2>3, <2>4
<1> QED  BY <1>4, <1>5, <1>6, <1>7

(* fork() takes a slot nobody waits for. *)
LEMMA ForkStep ==
  ASSUME TypeOK, KernelInv, TaskInv, NEW t \in Pids, Fork(t)
  PROVE  TaskInv'
<1> USE DEF TaskInv
<1> DEFINE c == newPID
<1>1. c \in Pids /\ state[c] = "READY"
  BY NewPidFree DEF Fork
<1>2. /\ state' = [state EXCEPT ![c] = "RUNNING"]
      /\ ppid' = [ppid EXCEPT ![c] = t]
      /\ space' = [space EXCEPT ![c] = "task"]
      /\ pc' = [pc EXCEPT ![c] = "sysret"]
      /\ target' = [target EXCEPT ![c] = target[t]]
  BY DEF Fork
<1>3. ~(c < Shell)
  BY <1>1, ConstantsAssumption DEF KernelInv, Pids, Shell, Init0, Idle1
<1> HIDE DEF c
<1>4. /\ state'[c] = "RUNNING" /\ space'[c] = "task" /\ pc'[c] = "sysret"
      /\ \A p \in Pids : p # c => /\ state'[p] = state[p] /\ ppid'[p] = ppid[p]
                                  /\ space'[p] = space[p] /\ pc'[p] = pc[p]
                                  /\ target'[p] = target[p]
      /\ \A p \in Pids : target[p] \in Pids
  BY <1>1, <1>2 DEF TypeOK
<1>5. SpaceOwned'
  BY <1>1, <1>3, <1>4 DEF SpaceOwned, stillAlive
<1>6. BlockedWhereItWaits'
  BY <1>4 DEF BlockedWhereItWaits
<1>7. WaitTargetStaysChild'
  BY <1>1, <1>4 DEF WaitTargetStaysChild
<1>8. NoLostChildExit'
  BY <1>1, <1>4 DEF NoLostChildExit, ZombieChildren
<1> QED  BY <1>5, <1>6, <1>7, <1>8

-----------------------------------------------------------------------------
(* The first tasks run, none of them in waitpid(), and no slot was freed.  *)
LEMMA InitTasks ==
  ASSUME Init
  PROVE  TaskInv
<1>1. \A p \in Pids : p <= Shell <=> (p < Shell \/ p = Shell)
  BY ConstantsAssumption DEF Pids, Shell
<1>2. \A p \in Pids : /\ state[p] = IF p < Shell \/ p = Shell THEN "RUNNING" ELSE "READY"
                      /\ space[p] = IF p = Shell THEN "task"
                                    ELSE IF p < Shell THEN "kernel" ELSE "none"
                      /\ pc[p] # "waitpid"
  BY <1>1 DEF Init
<1>3. ~(Shell < Shell)
  BY DEF Shell
<1> QED
  BY <1>2, <1>3 DEF TaskInv, SpaceOwned, stillAlive, WaitTargetStaysChild,
                    NoLostChildExit, BlockedWhereItWaits

(* Every system call, kernel step and interrupt keeps the invariant.       *)
LEMMA StepTasks ==
  ASSUME OnlyListedKilled, TypeOK, KernelInv, TaskInv, [Next]_vars
  PROVE  TaskInv'
<1> USE DEF table, cpu, devices
<1>1. CASE UNCHANGED vars
  BY <1>1, CalmStep DEF vars
<1>2. CASE Next
  <2>1. PICK t \in Pids : UserCall(t) \/ KernelStep(t) \/ Interrupt(t)
    BY <1>2 DEF Next
  <2>2. /\ currentTask = t => state[t] = "RUNNING"
        /\ state = [p \in Pids |-> state[p]] /\ pc = [p \in Pids |-> pc[p]]
        /\ target = [p \in Pids |-> target[p]]
    BY DEF KernelInv, OnCpuRunnable, TypeOK
  <2>3. CASE Fork(t)
    BY <2>3, ForkStep
  <2>4. CASE Exit(t)
    <3>1. t > Idle1 /\ stillAlive(t)
      BY <2>2, <2>4, WhoIsWhere DEF Exit, InUser, stillAlive
    <3>2. \A p \in Pids : p # t => pc'[p] = pc[p]
      BY <2>2, <2>4 DEF Exit, Schedule
    <3> QED  BY <2>4, <3>1, <3>2, DeathStep DEF Exit
  <2>5. CASE \E p \in Pids : Kill(t, p)
    <3>1. PICK p \in Pids : Kill(t, p)
      BY <2>5
    <3>2. stillAlive(p) /\ p # Init0 /\ p # Idle1
      BY <3>1, ListedTarget DEF Kill
    <3>3. p > Idle1
      BY <3>2, ConstantsAssumption DEF Pids, Init0, Idle1
    <3> QED  BY <3>1, <3>2, <3>3, DeathStep DEF Kill
  <2>6. CASE \E p \in Pids : WaitpidReap(t, p)
    <3>1. PICK p \in Pids : WaitpidReap(t, p)
      BY <2>6
    <3>2. state[t] = "RUNNING" /\ pc'[t] # "waitpid"
      BY <2>2, <3>1 DEF WaitpidReap, InUser
    <3> QED  BY <3>1, <3>2, ReapStep DEF WaitpidReap
  <2>7. CASE WaitpidResume(t)
    <3>1. state[t] = "RUNNING" /\ pc[t] = "waitpid"
      BY <2>2, <2>7 DEF WaitpidResume, InKernel
    <3>2. CASE target[t] \in ZombieChildren(t)
      <4>1. /\ pc' = [pc EXCEPT ![t] = "user"]
            /\ target' = [target EXCEPT ![t] = 0]
            /\ Reap(target[t]) /\ UNCHANGED ppid
        BY <2>7, <3>2 DEF WaitpidResume
      <4>2. /\ pc'[t] # "waitpid"
            /\ \A p \in Pids : p # t => pc'[p] = pc[p] /\ target'[p] = target[p]
        BY <2>2, <4>1
      <4>3. target[t] \in Pids
        BY <3>2 DEF ZombieChildren
      <4> QED  BY <3>1, <3>2, <4>1, <4>2, <4>3, ReapStep
    <3>3. CASE target[t] \notin ZombieChildren(t)
      <4>1. /\ UNCHANGED <<state, ppid, target, space>>
            /\ pc' = [pc EXCEPT ![t] = "waitpid"]
        BY <2>7, <3>3 DEF WaitpidResume, Schedule
      <4>2. pc' = pc
        BY <2>2, <3>1, <4>1
      <4> QED  BY <4>1, <4>2, CalmStep
    <3> QED  BY <3>2, <3>3
  <2>8. CASE WaitReap(t)
    <3>1. ZombieChildren(t) \in SUBSET Pids
      BY DEF ZombieChildren
    <3>2. PICK z \in ZombieChildren(t) : Reap(z)
      BY <2>8, <3>1, MinPid DEF WaitReap
    <3>3. /\ state[t] = "RUNNING" /\ pc[t] = "wait"
          /\ UNCHANGED <<ppid, pc, target>>
      BY <2>2, <2>8 DEF WaitReap, InKernel
    <3> QED  BY <3>1, <3>2, <3>3, ReapStep
  <2>9. CASE WaitBlock(t)
    <3>1. /\ state[t] = "RUNNING" /\ UNCHANGED <<ppid, target, space>>
          /\ state' = [state EXCEPT ![t] = "WAIT"]
          /\ pc' = [pc EXCEPT ![t] = "wait"]
      BY <2>2, <2>9 DEF WaitBlock, InKernel, Schedule
    <3> QED  BY <3>1, BlockStep
  <2>10. CASE \E p \in Pids : WaitpidBlock(t, p)
    BY <2>2, <2>10, WaitStep DEF WaitpidBlock, InUser
  <2>11. CASE \E n \in SleepArgs : Sleep(t, n)
    <3>1. /\ state[t] = "RUNNING" /\ UNCHANGED <<ppid, target, space>>
          /\ state' = [state EXCEPT ![t] = "HANG"]
          /\ pc' = [pc EXCEPT ![t] = "sysret"]
      BY <2>2, <2>11 DEF Sleep, InUser, Schedule
    <3> QED  BY <3>1, BlockStep
  <2>12. CASE Read(t)
    <3>1. state[t] = "RUNNING" /\ UNCHANGED <<ppid, target, space>>
      BY <2>2, <2>12 DEF Read, InUser, InKernel
    <3>2. CASE TakeLine(t)
      BY <3>1, <3>2, BlockStep DEF TakeLine
    <3>3. CASE AwaitLine(t)
      BY <3>1, <3>3, BlockStep DEF AwaitLine, Schedule
    <3>4. CASE MissLine(t)
      <4>1. state' = [state EXCEPT ![t] = "RUNNING"]
        BY <2>2, <3>1, <3>4 DEF MissLine
      <4> QED  BY <3>1, <3>4, <4>1, BlockStep DEF MissLine, Schedule
    <3> QED  BY <2>12, <3>2, <3>3, <3>4 DEF Read
  <2>13. CASE KeyEnter(t)
    <3>1. \A p \in Pids : \/ state'[p] = state[p]
                          \/ state[p] = "SLEEP" /\ state'[p] = "RUNNING"
      BY <2>13, AwakenedStates DEF KeyEnter
    <3>2. pc[t] \in {"hlt", "woken"} /\ pc' = [pc EXCEPT ![t] = "woken"]
      BY <2>13 DEF KeyEnter, KernelInv, AfterIret
    <3> QED  BY <2>2, <2>13, <3>1, <3>2, CalmStep DEF KeyEnter
  <2>14. CASE TimerResume(t)
    <3>1. \A p \in Pids : \/ state'[p] = state[p]
                          \/ state[p] = "HANG" /\ state'[p] = "RUNNING"
      BY <2>14 DEF TimerResume, Due
    <3>2. t = Idle1
      BY <2>14, WhoIsWhere DEF TimerResume
    <3>3. pc' = [pc EXCEPT ![t] = "woken"]
      BY <2>14, <3>2 DEF TimerResume, KernelInv
    <3>4. state[t] = "RUNNING" /\ UNCHANGED <<ppid, target, space>>
      BY <2>2, <2>14 DEF TimerResume, InKernel
    <3>5. \A p \in Pids : pc'[p] = pc[p] \/ (p = t /\ pc'[p] # "waitpid")
      BY <2>2, <3>3
    <3> QED  BY <3>1, <3>4, <3>5, CalmStep
  <2>15. CASE ForkTableFull(t) \/ Exec(t) \/ SysReturn(t) \/ IdleHalt(t)
              \/ IdleSchedule(t) \/ TimerTick(t) \/ TimerSecond(t) \/ KeyOther(t)
    <3>1. UNCHANGED <<state, ppid, target, space>> /\ state[t] = "RUNNING"
      BY <2>2, <2>15 DEF ForkTableFull, Exec, SysReturn, IdleHalt, IdleSchedule,
           TimerTick, TimerSecond, KeyOther, InUser, InKernel
    <3>2. \/ pc' = pc
          \/ \E at \in {"user", "hlt", "idle", "tick"} : pc' = [pc EXCEPT ![t] = at]
          \/ /\ pc' = [pc EXCEPT ![t] = AfterIret(pc[t])]
             /\ pc[t] \in {"hlt", "woken"}
      BY <2>15 DEF ForkTableFull, Exec, SysReturn, IdleHalt, IdleSchedule,
           TimerTick, TimerSecond, KeyOther, Schedule, KernelInv
    <3>3. \A p \in Pids : pc'[p] = pc[p] \/ (p = t /\ pc'[p] # "waitpid")
      BY <2>2, <3>2 DEF AfterIret
    <3> QED  BY <3>1, <3>3, CalmStep
  <2> QED
    BY <2>1, <2>3, <2>4, <2>5, <2>6, <2>7, <2>8, <2>9, <2>10, <2>11, <2>12,
       <2>13, <2>14, <2>15
       DEF UserCall, KernelStep, Interrupt, Timer
<1> QED  BY <1>1, <1>2

(* The invariant of a task's life, with what it rests on.                  *)
LEMMA TasksCorrect ==
  OnlyListedKilled => (Spec => [](TypeOK /\ KernelInv /\ TaskInv))
<1> SUFFICES ASSUME OnlyListedKilled
             PROVE  Spec => [](TypeOK /\ KernelInv /\ TaskInv)
  OBVIOUS
<1>1. Init => TypeOK /\ KernelInv /\ TaskInv
  BY InitTyped, InitKernel, InitTasks
<1>2. /\ TypeOK /\ KernelInv /\ TaskInv
      /\ [Next]_vars
      => (TypeOK /\ KernelInv /\ TaskInv)'
  BY StepTyped, StepKernel, StepTasks
<1> QED  BY <1>1, <1>2, PTL DEF Spec

(* No task sleeps in waitpid() for a child that is a zombie: exit() and    *)
(* kill() of the child never slip in between its test and its blocking.    *)
THEOREM ChildExitNoticed == OnlyListedKilled => (Spec => []NoLostChildExit)
<1>1. TaskInv => NoLostChildExit
  BY DEF TaskInv
<1> QED  BY <1>1, TasksCorrect, PTL

(* The slot a task waits for is not reaped or reused by anybody else.      *)
THEOREM WaitersKeepTheirChild == OnlyListedKilled => (Spec => []WaitTargetStaysChild)
<1>1. TaskInv => WaitTargetStaysChild
  BY DEF TaskInv
<1> QED  BY <1>1, TasksCorrect, PTL

(* A live task has its address space, and removeProcess() tears down only  *)
(* that of a task, once.                                                   *)
THEOREM SpacesOwned == OnlyListedKilled => (Spec => []SpaceOwned)
<1>1. TaskInv => SpaceOwned
  BY DEF TaskInv
<1> QED  BY <1>1, TasksCorrect, PTL

(* Each blocking state is left only by the waker it was entered for.       *)
THEOREM BlockedInPlace == OnlyListedKilled => (Spec => []BlockedWhereItWaits)
<1>1. TaskInv => BlockedWhereItWaits
  BY DEF TaskInv
<1> QED  BY <1>1, TasksCorrect, PTL

-----------------------------------------------------------------------------
(* What a step may do to a dead process *)
ZombieStep == \A p \in Pids : state[p] = "ZOMBIE" => state'[p] \in {"ZOMBIE", "READY"}

(* A step that writes the state of a task that is no zombie, and wakes     *)
(* only blocked tasks.                                                     *)
LEMMA LiveTaskStep ==
  ASSUME \A p \in Pids : \/ state'[p] = state[p]
                         \/ state'[p] = "READY"
                         \/ state[p] # "ZOMBIE"
  PROVE  ZombieStep
BY DEF ZombieStep

(* No call, thread or interrupt revives a zombie.                          *)
LEMMA StepZombies ==
  ASSUME OnlyListedKilled, TypeOK, KernelInv, [Next]_vars
  PROVE  ZombieStep
<1> USE DEF table, cpu, devices
<1>1. CASE UNCHANGED vars
  BY <1>1 DEF vars, ZombieStep
<1>2. CASE Next
  <2>1. PICK t \in Pids : UserCall(t) \/ KernelStep(t) \/ Interrupt(t)
    BY <1>2 DEF Next
  <2>2. /\ currentTask = t => state[t] = "RUNNING"
        /\ state = [p \in Pids |-> state[p]]
    BY DEF KernelInv, OnCpuRunnable, TypeOK
  <2>3. CASE Fork(t)
    <3>1. state[newPID] = "READY" /\ state' = [state EXCEPT ![newPID] = "RUNNING"]
      BY <2>3, NewPidFree DEF Fork
    <3> QED  BY <2>2, <3>1, LiveTaskStep
  <2>4. CASE Exit(t)
    BY <2>4, DeadStates DEF Exit, ZombieStep
  <2>5. CASE \E p \in Pids : Kill(t, p)
    BY <2>5, DeadStates DEF Kill, ZombieStep
  <2>6. CASE \/ \E p \in Pids : WaitpidReap(t, p)
             \/ WaitpidResume(t) \/ WaitReap(t)
    <3>1. state' = state \/ \E z : Reap(z)
      BY <2>6 DEF WaitpidReap, WaitpidResume, WaitReap
    <3> QED  BY <2>2, <3>1, LiveTaskStep DEF Reap
  <2>7. CASE \/ WaitBlock(t) \/ Read(t)
             \/ \E p \in Pids : WaitpidBlock(t, p)
             \/ \E n \in SleepArgs : Sleep(t, n)
    <3>1. state[t] = "RUNNING"
      BY <2>2, <2>7 DEF WaitBlock, Read, WaitpidBlock, Sleep, InUser, InKernel
    <3>2. state' = state \/ \E s : state' = [state EXCEPT ![t] = s]
      BY <2>7 DEF WaitBlock, Read, TakeLine, AwaitLine, MissLine, WaitpidBlock, Sleep
    <3> QED  BY <2>2, <3>1, <3>2, LiveTaskStep
  <2>8. CASE KeyEnter(t)
    BY <2>8, AwakenedStates DEF KeyEnter, ZombieStep
  <2>9. CASE TimerResume(t)
    BY <2>9 DEF TimerResume, Due, ZombieStep
  <2>10. CASE ForkTableFull(t) \/ Exec(t) \/ SysReturn(t) \/ IdleHalt(t)
              \/ IdleSchedule(t) \/ TimerTick(t) \/ TimerSecond(t) \/ KeyOther(t)
    BY <2>10 DEF ForkTableFull, Exec, SysReturn, IdleHalt, IdleSchedule,
       TimerTick, TimerSecond, KeyOther, ZombieStep
  <2> QED
    BY <2>1, <2>3, <2>4, <2>5, <2>6, <2>7, <2>8, <2>9, <2>10
       DEF UserCall, KernelStep, Interrupt, Timer
<1> QED  BY <1>1, <1>2

(* A wake-up that comes late never brings a dead process back.             *)
THEOREM DeadStayDead == OnlyListedKilled => (Spec => ZombieStaysDead)
<1> SUFFICES ASSUME OnlyListedKilled PROVE Spec => ZombieStaysDead
  OBVIOUS
<1>1. Spec => [](TypeOK /\ KernelInv /\ TaskInv)
  BY TasksCorrect
<1>2. TypeOK /\ KernelInv /\ [Next]_vars => [ZombieStep]_vars
  BY StepZombies
<1>3. ZombieStaysDead <=> [][ZombieStep]_vars
  BY PTL DEF ZombieStaysDead, ZombieStep
<1> QED  BY <1>1, <1>2, <1>3, PTL DEF Spec

-----------------------------------------------------------------------------
(* The readers of the keyboard, in any number: as long as no program is    *)
(* killed, an entered line has a woken reader to itself.                   *)
NobodyKilled == KillClasses = {}

Sleepers == {p \in Pids : state[p] = "SLEEP"}
Readers  == {p \in Pids : state[p] = "RUNNING" /\ pc[p] = "intRead"}

(* The readers on their way to a line are finitely many.                   *)
LEMMA ReadersFinite ==
  /\ IsFiniteSet(Pids)
  /\ IsFiniteSet(Readers) /\ Cardinality(Readers) \in Nat
  /\ IsFiniteSet(Readers') /\ Cardinality(Readers') \in Nat
<1>1. IsFiniteSet(Pids)
  BY FS_Interval, ConstantsAssumption DEF Pids
<1>2. Readers \in SUBSET Pids /\ Readers' \in SUBSET Pids
  BY DEF Readers
<1> HIDE DEF Readers
<1>3. IsFiniteSet(Readers) /\ IsFiniteSet(Readers')
  BY <1>1, <1>2, FS_Subset
<1> QED  BY <1>1, <1>3, FS_CardinalityType

(* Steps that put nobody to sleep in read(), take no line and keep the     *)
(* readers that are on their way.                                          *)
LEMMA KeepReaders ==
  ASSUME NoStrandedReader, lineCount \in Nat, UNCHANGED lineCount,
         \A p \in Pids : state'[p] = "SLEEP" => state[p] = "SLEEP",
         \A p \in Pids : state[p] = "RUNNING" /\ pc[p] = "intRead"
                           => state'[p] = "RUNNING" /\ pc'[p] = "intRead"
  PROVE  NoStrandedReader'
<1>1. Readers \in SUBSET Readers'
  BY DEF Readers
<1>2. Cardinality(Readers) <= Cardinality(Readers')
  BY <1>1, ReadersFinite, FS_Subset
<1>3. (\E p \in Pids : state[p] = "SLEEP") => lineCount <= Cardinality(Readers)
  BY DEF NoStrandedReader, Readers
<1>4. (\E p \in Pids : state'[p] = "SLEEP") => lineCount' <= Cardinality(Readers')
  BY <1>2, <1>3, ReadersFinite
<1> QED  BY <1>4 DEF NoStrandedReader, Readers

(* A task takes a line; it was the reader on its way to it, or a new one.  *)
LEMMA TakeKeepsReaders ==
  ASSUME TypeOK, NoStrandedReader, NEW t \in Pids, TakeLine(t)
  PROVE  NoStrandedReader'
<1>1. /\ lineCount \in Nat /\ lineCount' = lineCount - 1
      /\ \A p \in Pids : p # t => state'[p] = state[p] /\ pc'[p] = pc[p]
      /\ state'[t] = "RUNNING"
  BY ConstantsAssumption DEF TakeLine, TypeOK
<1>2. Readers \ {t} \in SUBSET Readers'
  BY <1>1 DEF Readers
<1>3. IsFiniteSet(Readers \ {t}) /\ Cardinality(Readers) - 1 <= Cardinality(Readers \ {t})
  <2>1. /\ IsFiniteSet(Readers \ {t})
        /\ Cardinality(Readers \ {t}) = IF t \in Readers THEN Cardinality(Readers) - 1
                                                        ELSE Cardinality(Readers)
    BY ReadersFinite, FS_RemoveElement
  <2> QED  BY <2>1, ReadersFinite
<1>4. Cardinality(Readers \ {t}) <= Cardinality(Readers')
  BY <1>2, ReadersFinite, FS_Subset
<1>5. Cardinality(Readers \ {t}) \in Nat
  BY <1>3, FS_CardinalityType
<1>6. (\E p \in Pids : state[p] = "SLEEP") => lineCount <= Cardinality(Readers)
  BY DEF NoStrandedReader, Readers
<1>7. (\E p \in Pids : state'[p] = "SLEEP") => lineCount' <= Cardinality(Readers')
  BY <1>1, <1>3, <1>4, <1>5, <1>6, ReadersFinite
<1> QED  BY <1>7 DEF NoStrandedReader, Readers

(* Enter wakes a reader for the line, if one sleeps.                       *)
LEMMA EnterKeepsReaders ==
  ASSUME TypeOK, KernelInv, TaskInv, NoStrandedReader, NEW t \in Pids, KeyEnter(t)
  PROVE  NoStrandedReader'
<1>1. /\ lineCount \in Nat /\ lineCount' = lineCount + 1 /\ state' = Awakened
      /\ pc[t] # "intRead" /\ \A p \in Pids : p # t => pc'[p] = pc[p]
  BY ConstantsAssumption DEF KeyEnter, TypeOK, KernelInv
<1>2. CASE Sleepers = {}
  <2>1. state' = state
    BY <1>1, <1>2 DEF Awakened, Sleepers
  <2> QED  BY <1>2, <2>1 DEF NoStrandedReader, Sleepers
<1>3. CASE Sleepers # {}
  <2>1. PICK s \in Sleepers : state' = [state EXCEPT ![s] = "RUNNING"]
    <3>1. Sleepers \in SUBSET Pids
      BY DEF Sleepers
    <3> QED  BY <1>1, <1>3, <3>1, MinPid DEF Awakened, Sleepers
  <2>2. s \in Pids /\ state[s] = "SLEEP" /\ pc[s] = "intRead" /\ s \notin Readers /\ s # t
    BY <1>1, <2>1 DEF Sleepers, Readers, TaskInv, BlockedWhereItWaits
  <2>3. Readers \cup {s} \in SUBSET Readers'
    BY <1>1, <2>1, <2>2 DEF Readers, TypeOK
  <2>4. IsFiniteSet(Readers \cup {s})
        /\ Cardinality(Readers \cup {s}) = Cardinality(Readers) + 1
    BY <2>2, ReadersFinite, FS_AddElement
  <2>5. Cardinality(Readers \cup {s}) <= Cardinality(Readers')
    BY <2>3, ReadersFinite, FS_Subset
  <2>6. lineCount <= Cardinality(Readers)
    BY <2>2 DEF NoStrandedReader, Readers
  <2>7. lineCount' <= Cardinality(Readers')
    BY <1>1, <2>4, <2>5, <2>6, ReadersFinite
  <2> QED  BY <2>7 DEF NoStrandedReader, Readers
<1> QED  BY <1>2, <1>3

(* Every call, kernel step and interrupt keeps a reader for each line.     *)
LEMMA StepReaders ==
  ASSUME NobodyKilled, TypeOK, KernelInv, TaskInv, NoStrandedReader, [Next]_vars
  PROVE  NoStrandedReader'
<1> USE DEF table, cpu, devices
<1>0. lineCount \in Nat
  BY ConstantsAssumption DEF TypeOK
<1>1. CASE UNCHANGED vars
  BY <1>0, <1>1, KeepReaders DEF vars
<1>2. CASE Next
  <2>1. PICK t \in Pids : UserCall(t) \/ KernelStep(t) \/ Interrupt(t)
    BY <1>2 DEF Next
  <2>2. /\ currentTask = t => state[t] = "RUNNING"
        /\ state = [p \in Pids |-> state[p]] /\ pc = [p \in Pids |-> pc[p]]
    BY DEF KernelInv, OnCpuRunnable, TypeOK
  <2>3. CASE Fork(t)
    <3>1. /\ newPID \in Pids /\ state[newPID] = "READY"
          /\ state' = [state EXCEPT ![newPID] = "RUNNING"]
          /\ pc' = [pc EXCEPT ![newPID] = "sysret"]
          /\ UNCHANGED lineCount
      BY <2>3, NewPidFree DEF Fork
    <3>2. \A p \in Pids : p # newPID => state'[p] = state[p] /\ pc'[p] = pc[p]
      BY <2>2, <3>1
    <3>3. state'[newPID] = "RUNNING"
      BY <2>2, <3>1
    <3> QED  BY <1>0, <3>1, <3>2, <3>3, KeepReaders
  <2>4. CASE Exit(t)
    <3>1. /\ \A p \in Pids : p # t => pc'[p] = pc[p]
          /\ pc[t] = "user" /\ state[t] = "RUNNING" /\ UNCHANGED lineCount
      BY <2>2, <2>4 DEF Exit, Schedule, InUser
    <3>2. \A p \in Pids : \/ state'[p] = state[p]
                          \/ state[p] = "WAIT" /\ state'[p] = "RUNNING"
                          \/ p = t /\ state'[p] = "ZOMBIE"
      BY <2>4, DeadStates DEF Exit
    <3> QED  BY <1>0, <3>1, <3>2, KeepReaders
  <2>5. CASE \E p \in Pids : Kill(t, p)
    BY <2>5 DEF Kill, NobodyKilled
  <2>6. CASE \/ \E p \in Pids : WaitpidReap(t, p)
             \/ WaitpidResume(t) \/ WaitReap(t)
    <3>1. /\ state' = state \/ \E z \in ZombieChildren(t) : Reap(z)
          /\ UNCHANGED lineCount
      <4>1. WaitReap(t) => Min(ZombieChildren(t)) \in ZombieChildren(t)
        <5>1. ZombieChildren(t) \in SUBSET Pids
          BY DEF ZombieChildren
        <5> QED  BY <5>1, MinPid DEF WaitReap
      <4> QED  BY <2>6, <4>1 DEF WaitpidReap, WaitpidResume, WaitReap
    <3>2. \A p \in Pids : \/ state'[p] = state[p]
                          \/ state[p] = "ZOMBIE" /\ state'[p] = "READY"
      BY <2>2, <3>1 DEF Reap, ZombieChildren
    <3>3. \A p \in Pids : pc'[p] = pc[p] \/ (p = t /\ pc[t] # "intRead")
      BY <2>2, <2>6 DEF WaitpidReap, WaitpidResume, WaitReap, Schedule, InKernel
    <3> QED  BY <1>0, <3>1, <3>2, <3>3, KeepReaders
  <2>7. CASE \/ WaitBlock(t) \/ \E p \in Pids : WaitpidBlock(t, p)
             \/ \E n \in SleepArgs : Sleep(t, n)
    <3>1. pc[t] # "intRead" /\ UNCHANGED lineCount
      BY <2>7 DEF WaitBlock, WaitpidBlock, Sleep, InUser, InKernel
    <3>2. /\ \E s \in {"WAIT", "HANG"} : state' = [state EXCEPT ![t] = s]
          /\ \E at : pc' = [pc EXCEPT ![t] = at]
      BY <2>7 DEF WaitBlock, WaitpidBlock, Sleep, Schedule
    <3>3. \A p \in Pids : /\ p # t => state'[p] = state[p] /\ pc'[p] = pc[p]
                          /\ p = t => state'[p] # "SLEEP"
      BY <2>2, <3>2
    <3> QED  BY <1>0, <3>1, <3>3, KeepReaders
  <2>8. CASE Read(t)
    <3>1. CASE TakeLine(t)
      BY <3>1, TakeKeepsReaders
    <3>2. CASE AwaitLine(t)
      <4>1. lineCount' = 0
        BY <3>2 DEF AwaitLine
      <4>2. lineCount' <= Cardinality(Readers')
        BY <4>1, ReadersFinite
      <4> QED  BY <4>2 DEF NoStrandedReader, Readers
    <3>3. CASE MissLine(t)
      <4>1. /\ UNCHANGED <<state, lineCount>>
            /\ pc' = [pc EXCEPT ![t] = "intRead"]
        BY <3>3 DEF MissLine, Schedule
      <4>2. \A p \in Pids : pc[p] = "intRead" => pc'[p] = "intRead"
        BY <2>2, <4>1
      <4> QED  BY <1>0, <4>1, <4>2, KeepReaders
    <3> QED  BY <2>8, <3>1, <3>2, <3>3 DEF Read
  <2>9. CASE KeyEnter(t)
    BY <2>9, EnterKeepsReaders
  <2>10. CASE TimerResume(t)
    <3>1. /\ \A p \in Pids : \/ state'[p] = state[p]
                             \/ state[p] = "HANG" /\ state'[p] = "RUNNING"
          /\ UNCHANGED lineCount /\ pc[t] = "tick"
      BY <2>10 DEF TimerResume, Due, InKernel
    <3>2. \A p \in Pids : pc'[p] = pc[p] \/ p = t
      BY <2>2, <2>10 DEF TimerResume
    <3> QED  BY <1>0, <3>1, <3>2, KeepReaders
  <2>11. CASE ForkTableFull(t) \/ Exec(t) \/ SysReturn(t) \/ IdleHalt(t)
              \/ IdleSchedule(t) \/ TimerTick(t) \/ TimerSecond(t) \/ KeyOther(t)
    <3>1. UNCHANGED <<state, lineCount>>
      BY <2>11 DEF ForkTableFull, Exec, SysReturn, IdleHalt, IdleSchedule,
           TimerTick, TimerSecond, KeyOther
    <3>2. \/ pc' = pc
          \/ pc[t] # "intRead" /\ \E at : pc' = [pc EXCEPT ![t] = at]
      BY <2>11 DEF ForkTableFull, Exec, SysReturn, IdleHalt, IdleSchedule,
           TimerTick, TimerSecond, KeyOther, Schedule, InKernel, KernelInv
    <3>3. \A p \in Pids : pc[p] = "intRead" => pc'[p] = "intRead"
      BY <2>2, <3>2
    <3> QED  BY <1>0, <3>1, <3>3, KeepReaders
  <2> QED
    BY <2>1, <2>3, <2>4, <2>5, <2>6, <2>7, <2>8, <2>9, <2>10, <2>11
       DEF UserCall, KernelStep, Interrupt, Timer
<1> QED  BY <1>1, <1>2

(* No lost wake-up at the keyboard: while a reader sleeps in intRead(),    *)
(* every line Enter has counted has a woken reader on its way to it.  The  *)
(* premise is needed: kill() of a woken reader leaves its line behind.     *)
THEOREM LineHasReader == NobodyKilled => (Spec => []NoStrandedReader)
<1> SUFFICES ASSUME NobodyKilled PROVE Spec => []NoStrandedReader
  OBVIOUS
<1>1. OnlyListedKilled
  BY DEF OnlyListedKilled, NobodyKilled
<1>2. Spec => [](TypeOK /\ KernelInv /\ TaskInv)
  BY <1>1, TasksCorrect
<1>3. Init => NoStrandedReader
  BY DEF Init, NoStrandedReader
<1>4. TypeOK /\ KernelInv /\ TaskInv /\ NoStrandedReader /\ [Next]_vars
        => NoStrandedReader'
  BY StepReaders
<1> QED  BY <1>2, <1>3, <1>4, PTL DEF Spec
=============================================================================
