----------------------------- MODULE SleepLock -----------------------------
(***************************************************************************)
(* Sleep locks (src/kernel/core/synch/src/sleeplock.c) used by processes   *)
(* that run under the scheduler.  A sleep lock is a boolean guarded by a   *)
(* spin lock, access_lock; a process that finds it taken sleeps on its     *)
(* address, and SleepLock_Release raises that alarm.                       *)
(*                                                                         *)
(* Nothing in the repository uses a sleep lock yet.  The client is         *)
(* external: a system call that acquires one lock, does its work ("inside")*)
(* and releases the lock.  Alarms are the addresses of the locks.          *)
(***************************************************************************)
EXTENDS Scheduler

VARIABLES locked,        \* SleepLock.locked
          access_lock,   \* the flag of SleepLock.access_lock
          lock,          \* the argument of the call a process is in
          access         \* the process's phase on lock's access_lock,
                         \* as ph is its phase on Process_lock

sleepvars == <<locked, access_lock, lock, access>>
lockvars == <<vars, sleepvars>>

(* The process on CPU c executes its system call at this label, using no   *)
(* lock but, in the given phase, the access lock.                          *)
Calls(c, label, phase) == /\ on[c] \in Slots
                          /\ At(c, label, "out")
                          /\ Top(on[c]) = Base(on[c])
                          /\ access[on[c]] = phase

Access(p, phase) == access' = [access EXCEPT ![p] = phase]
Goto(p, label) == pc' = [pc EXCEPT ![Base(p)] = label]

-----------------------------------------------------------------------------
(* SpinLock_Acquire and SpinLock_Release of the access lock.               *)

AccessEnter(c) ==
    LET p == on[c] IN
    /\ Calls(c, "acquire", "out") \/ Calls(c, "release", "out")
    /\ Access(p, "spin")
    /\ vetos' = [vetos EXCEPT ![p] = Increment(@)]
    /\ UNCHANGED <<status, wakeup_on, Process_lock, on, kernel_task, esp0, intr,
                   iproc, spent, ph, pc, locked, access_lock, lock>>

AccessFree_Ignored(a) == TRUE
AccessFree(a) == ~access_lock[a]

AccessTake(c) ==
    LET p == on[c] IN
    /\ Calls(c, "acquire", "spin") \/ Calls(c, "release", "spin")
    /\ AccessFree(lock[p])
    /\ access_lock' = [access_lock EXCEPT ![lock[p]] = TRUE]
    /\ Access(p, "held")
    /\ UNCHANGED <<vars, locked, lock>>

AccessDrop(c) ==
    LET p == on[c] IN
    /\ \E label \in {"sleep", "inside", "return"} : Calls(c, label, "done")
    /\ access_lock' = [access_lock EXCEPT ![lock[p]] = FALSE]
    /\ Access(p, "freed")
    /\ UNCHANGED <<vars, locked, lock>>

AccessLeave(c) ==
    LET p == on[c] IN
    /\ \E label \in {"sleep", "inside", "return"} : Calls(c, label, "freed")
    /\ Access(p, "out")
    /\ vetos' = [vetos EXCEPT ![p] = Decrement(@)]
    /\ UNCHANGED <<status, wakeup_on, Process_lock, on, kernel_task, esp0, intr,
                   iproc, spent, ph, pc, locked, access_lock, lock>>

-----------------------------------------------------------------------------
(* SleepLock_Acquire: the loop test, and if the lock is free the           *)
(* assignment after the loop.                                              *)
SleepLock_Test(c) ==
    LET p == on[c] IN
    /\ Calls(c, "acquire", "held")
    /\ IF locked[lock[p]]
       THEN Goto(p, "sleep") /\ Access(p, "done")
       ELSE Goto(p, "take") /\ UNCHANGED access
    /\ UNCHANGED <<status, wakeup_on, vetos, Process_lock, on, kernel_task, esp0,
                   intr, iproc, spent, ph, locked, access_lock, lock>>

SleepLock_Take(c) ==
    LET p == on[c] IN
    /\ Calls(c, "take", "held")
    /\ locked' = [locked EXCEPT ![lock[p]] = TRUE]
    /\ Goto(p, "inside")
    /\ Access(p, "done")
    /\ UNCHANGED <<status, wakeup_on, vetos, Process_lock, on, kernel_task, esp0,
                   intr, iproc, spent, ph, access_lock, lock>>

(* Process_SleepOn(lock) under Process_lock; woken, the process starts     *)
(* over at the access lock.                                                *)
SleepOn(c) == /\ on[c] \in Slots
              /\ Process_SleepOn(c, lock[on[c]])
              /\ UNCHANGED sleepvars
Woken(c) == Process_Woken(c, "acquire") /\ UNCHANGED sleepvars

(* SleepLock_Release: the lock is free before the alarm is raised, and the *)
(* access lock is kept until after it.                                     *)
SleepLock_Release(c) ==
    LET p == on[c] IN
    /\ Calls(c, "release", "held")
    /\ locked' = [locked EXCEPT ![lock[p]] = FALSE]
    /\ Goto(p, "alarm")
    /\ UNCHANGED <<status, wakeup_on, vetos, Process_lock, on, kernel_task, esp0,
                   intr, iproc, spent, ph, access_lock, lock, access>>

RaiseAlarm(c) == /\ on[c] \in Slots
                 /\ Scheduler_RaiseAlarm(c, lock[on[c]], "return")
                 /\ Access(on[c], "done")
                 /\ UNCHANGED <<locked, access_lock, lock>>

-----------------------------------------------------------------------------
(* External: the client.                                                   *)

ClientAcquires(c) ==
    /\ SysCall(c, "acquire")
    /\ \E a \in Alarms : lock' = [lock EXCEPT ![on[c]] = a]
    /\ UNCHANGED <<locked, access_lock, access>>

ClientReleases(c) ==
    /\ Calls(c, "inside", "out")
    /\ Goto(on[c], "release")
    /\ UNCHANGED <<status, wakeup_on, vetos, Process_lock, on, kernel_task, esp0,
                   intr, iproc, spent, ph, sleepvars>>

-----------------------------------------------------------------------------
SleepInit == /\ InitWith(Slots)
             /\ locked = [a \in Alarms |-> FALSE]
             /\ access_lock = [a \in Alarms |-> FALSE]
             /\ lock = [s \in Slots |-> CHOOSE a \in Alarms : TRUE]
             /\ access = [s \in Slots |-> "out"]

(* Where the access lock stands when the code between two uses of it goes  *)
(* for Process_lock or back to user mode: the scheduler's steps apply to a *)
(* system call only there.                                                 *)
SleepPoints(c) ==
    {"schedule", "preempt"} \cup
    (IF on[c] \in CPUs THEN {}
     ELSE IF access[on[c]] = "out" THEN {"sleep"}
     ELSE IF access[on[c]] = "held" THEN {"alarm"} ELSE {})

Returning(c) == /\ on[c] \in Slots
                /\ access[on[c]] = "out"
                /\ Interrupt_Return(c)

(* What a CPU does without waiting for user code or for a device.          *)
KernelStep(c) ==
    \/ /\ \/ SpinEnter(c, SleepPoints(c))
          \/ SpinTake(c)
          \/ SpinDrop(c)
          \/ SpinLeave(c)
          \/ Dispatch(c)
          \/ PassOver(c)
          \/ Process_Preempt(c)
          \/ Iret(c)
          \/ Returning(c)
       /\ UNCHANGED sleepvars
    \/ AccessEnter(c)
    \/ AccessTake(c)
    \/ AccessDrop(c)
    \/ AccessLeave(c)
    \/ SleepLock_Test(c)
    \/ SleepLock_Take(c)
    \/ SleepOn(c)
    \/ Woken(c)
    \/ SleepLock_Release(c)
    \/ RaiseAlarm(c)
    \/ ClientReleases(c)

SleepNext == \E c \in CPUs :
    \/ KernelStep(c)
    \/ ClientAcquires(c)
    \/ \E ticks \in {0, 1} : Interrupt(c, ticks) /\ UNCHANGED sleepvars

SleepSpec == SleepInit /\ [][SleepNext]_lockvars

(* A CPU in the kernel keeps executing instructions.                       *)
FairSleepSpec == SleepSpec /\ \A c \in CPUs : WF_lockvars(KernelStep(c))

-----------------------------------------------------------------------------
(* Properties                                                              *)

(* Every variable of this module has its type.                             *)
SleepTypeOK ==
    /\ TypeOK
    /\ locked \in [Alarms -> BOOLEAN]
    /\ access_lock \in [Alarms -> BOOLEAN]
    /\ lock \in [Slots -> Alarms]
    /\ access \in [Slots -> Phases \ {"off"}]

(* Processes for which SleepLock_Acquire(a) has decided to return and      *)
(* SleepLock_Release(a) has not yet freed the lock.                        *)
Owners(a) == {p \in Slots : lock[p] = a /\ pc[Base(p)] \in {"inside", "release"}}

(* The lock excludes, across sleeping, waking, preemption and migration:   *)
(* locked is set exactly while one process owns the lock.                  *)
MutualExclusion ==
    \A a \in Alarms : IF locked[a] THEN Cardinality(Owners(a)) = 1 ELSE Owners(a) = {}

(* SleepLock_Release has just raised the alarm.                            *)
AlarmRaised(a) ==
    \E p \in Slots : lock[p] = a /\ pc[Base(p)] = "return" /\ access[p] = "done"

(* A process may fall asleep on a lock that was freed after it tested it;  *)
(* the next release wakes it.  While a lock keeps being released, nobody   *)
(* sleeps on it for ever (Scheduler_RaiseAlarm wakes every sleeper).       *)
SleeperWoken ==
    \A a \in Alarms, s \in Slots :
        []<>AlarmRaised(a) /\ []<>~AlarmRaised(a)
            => []<>(status[s] # "ASLEEP" \/ wakeup_on[s] # a)

(* Process_Preempt, entered by an interrupt, waits for Process_lock on a   *)
(* CPU whose interrupted code holds it.                                    *)
SelfLocked(s) == ph[Intr(s)] = "spin" /\ ph[Base(s)] \in {"held", "done"}

(* The kernel's only deadlock: Process_lock is released again and again,   *)
(* whichever way SleepLock_Acquire and SleepLock_Release nest their two    *)
(* spin locks and whoever is preempted holding one, unless an interrupt    *)
(* gets past the veto check of Process_Preempt inside a section of         *)
(* Process_lock (the count of a process is one too low there).             *)
ProcessLockReleased == []<>(~Process_lock) \/ <>(\E s \in Slots : SelfLocked(s))
=============================================================================
